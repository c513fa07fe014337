SPECIFICATION FairSpec
CONSTANTS
    Conns = {c1, c2}
    NoConn = NoConn
    Fleets = {f1, f2}
    NoFleet = NoFleet
    Modes = {"outbound", "inbound"}
    Attempts = 2
    SendCap = 1
    Faults = {"mute"}
INVARIANTS
    NoDoubleClose
    AttendedLoop
PROPERTIES
    ComesBack
    FleetIsReported
    StopsCleanly
