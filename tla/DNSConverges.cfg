SPECIFICATION FairSpec
CONSTANTS
    Keys = {k1}
    UniqueKeys = {}
    Targets = {c1, c2, ct}
    ContainerTarget = ct
    ContainerIP = ip
    Agents = {local}
    LocalAgent = local
    RecordIds = {r1, r2}
    NoId = NoId
    NoRecord = NoRecord
    NoSpec = NoSpec
    NoKey = NoKey
    NoRow = NoRow
    RemoveDelay = 1
    OrphanTTL = 0
    Faults = {"api", "lost", "text404"}
INVARIANTS
    ActiveRowsMirrorZone
    NothingLeftBehind
PROPERTIES
    ImplementsLifecycle
    ImplementsFairLifecycle
    
    ReleasesWhatHasAnId
