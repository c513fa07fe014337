SPECIFICATION FairSpec
CONSTANTS
    Keys = {k1}
    UniqueKeys = {k1}
    Targets = {c1, c2}
    ContainerTarget = ct
    ContainerIP = ip
    Agents = {local}
    LocalAgent = local
    RecordIds = {r1, r2}
    NoId = NoId
    NoRecord = NoRecord
    NoSpec = NoSpec
    NoKey = NoKey
    NoRow = NoRow
    RemoveDelay = 1
    OrphanTTL = 0
    Faults = {"api"}
PROPERTY Converges
