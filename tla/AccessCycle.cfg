SPECIFICATION FairSpec
CONSTANTS
    Hosts = {h1}
    Names = {n1, n2}
    Rules = {r1}
    NoBinding = NoBinding
    NoApp = NoApp
    NoPolicy = NoPolicy
    Nobody = Nobody
    NoRow = NoRow
    RemoveDelay = 1
    OrphanTTL = 1
    Faults = {"list", "create", "update", "delete", "lost", "storage", "crash", "user",
              "hand", "slow", "text404"}
PROPERTIES
    HandMadeAppsKept
    OnlyUnwantedRemoved
    AppsPublished
    TrackedAppsReleased
