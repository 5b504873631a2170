SPECIFICATION FairSpec
CONSTANTS
    None = None
    Keys = {"k"}
    Slots = {1, 2, 3, 4, 5}
    Threads = {"t1", "t2"}
    Evictors = {"e1"}
    Site = "site"
    Plans = "plans"
    MaxEpoch = 1
    Routes <- Routing
    MaxUpsets = 1
INVARIANTS
    CurrentIsCached
    NoStaleEntry
    NoDeadSlot
PROPERTIES
    HitIsCached
    AllReturn
CHECK_DEADLOCK FALSE
