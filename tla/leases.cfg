SPECIFICATION LiveSpec
CONSTANTS
    Storages = {"x"}
    Streams = {"s1", "s2"}
    Subs = {"graph", "update", "launch2"}
    StreamOf <- StreamOfSub
    Kind <- KindOfSub
    GraphOf <- GraphOfSub
    MaxAliases = 2
    MaxQueue = 1
INVARIANTS
    TypeOK
    NoDeviceRace
    NoUseAfterFree
    UniqueSound
PROPERTIES
    PendingReturned
CHECK_DEADLOCK FALSE
