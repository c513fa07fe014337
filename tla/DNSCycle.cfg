SPECIFICATION Spec
CONSTANTS
    Keys = {k1}
    UniqueKeys = {k1}
    Targets = {c1, c2, ct}
    ContainerTarget = ct
    ContainerIP = ip
    Agents = {local, a1}
    LocalAgent = local
    RecordIds = {r1, r2}
    NoId = NoId
    NoRecord = NoRecord
    NoSpec = NoSpec
    NoKey = NoKey
    NoRow = NoRow
    RemoveDelay = 1
    OrphanTTL = 2
    Faults = {"api", "lost", "storage", "crash", "user", "text404"}
SYMMETRY RecordSymmetry
INVARIANT CycleSettles
PROPERTIES
    OnlyUnwantedDeleted
    GraceRespected
