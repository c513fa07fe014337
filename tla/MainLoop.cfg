SPECIFICATION FairSpec
CONSTANTS
    Containers = {c1, c2}
    Labelled = {c1}
    Capacity = 2
    Agents = {a1}
    Fleets = {f1}
    NoFleet = NoFleet
    Nobody = Nobody
    Faults = {"list", "inspect", "stream"}
INVARIANT MapInStep
PROPERTIES
    ImplementsFeed
    DockerFollowed
