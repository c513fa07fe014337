SPECIFICATION Spec
CONSTANTS
    Hosts = {h1}
    Paths = {p1, p2}
    Services = {s1}
    Cleanups = {TRUE, FALSE}
    Tunnels = {t1, t2}
    NoRule = NoRule
    NoSpec = NoSpec
    Nothing = Nothing
    NoRow = NoRow
    RemoveDelay = 1
    OrphanTTL = 2
    CycleTime = 1
    AutoCreateDNS = TRUE
    Faults = {"lost", "storage", "crash"}
SYMMETRY TunnelSymmetry
INVARIANT CycleSettles
PROPERTIES
    OnlyUnwantedRemoved
    GraceRespected
