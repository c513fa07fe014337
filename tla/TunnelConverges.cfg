SPECIFICATION FairSpec
CONSTANTS
    Hosts = {h1}
    Paths = {p1, p2}
    Services = {s1}
    Cleanups = {TRUE}
    Tunnels = {t1, t2}
    NoRule = NoRule
    NoSpec = NoSpec
    Nothing = Nothing
    NoRow = NoRow
    RemoveDelay = 0
    OrphanTTL = 0
    CycleTime = 1
    AutoCreateDNS = FALSE
    Faults = {"api", "lost", "storage", "crash", "user"}
PROPERTIES
    RoutesPublished
    HostsReleased
