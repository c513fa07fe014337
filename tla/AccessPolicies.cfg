SPECIFICATION Spec
CONSTANTS
    Hosts = {h1, h2}
    Names = {n1, n2}
    Rules = {r1, r2}
    NoBinding = NoBinding
    NoApp = NoApp
    NoPolicy = NoPolicy
    Nobody = Nobody
    NoRow = NoRow
    RemoveDelay = 1
    OrphanTTL = 0
    Faults = {"slow"}
SYMMETRY AccessSymmetry
INVARIANT PoliciesTidy
PROPERTY ImplementsLifecycle
