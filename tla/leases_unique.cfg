SPECIFICATION Spec
CONSTANTS
    Storages = {"x"}
    Streams = {"s1", "s2"}
    Subs = {"op1"}
    StreamOf <- StreamOfSub
    Kind <- KindOfSub
    GraphOf <- GraphOfSub
    MaxAliases = 2
    MaxQueue = 1
INVARIANTS
    UniqueNeverOverlooks
CHECK_DEADLOCK FALSE
