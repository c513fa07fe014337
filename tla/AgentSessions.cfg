SPECIFICATION FairSpec
CONSTANTS
    Agents = {a1}
    Fleets = {f1, f2}
    NoFleet = NoFleet
    Sessions = {s1, s2}
    NoSession = NoSession
    NoRow = NoRow
    WireCap = 1
    Faults = {"cut", "reject"}
INVARIANTS
    NoGhosts
    OneLiveSession
    NoLostTrigger
PROPERTIES
    AgentIsHeard
    AgentIsForgotten
