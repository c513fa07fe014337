SPECIFICATION Spec
CONSTANTS
    example = example
    sub = sub
    app = app
    Labels = {example, sub, app}
    Hosts <- ExampleHosts
    Zones <- ExampleZones
    Root = Root
    Named = {n1, n2}
    Unset = Unset
    NoRow = NoRow
    NoZone = NoZone
    PageSize = 1
SYMMETRY CredentialSymmetry
INVARIANTS
    KnownRecords
    DeletionCanReach
    LookupFindsRecord
