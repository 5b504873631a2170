SPECIFICATION Spec
CONSTANTS
    Devices = {0, 1}
    DefaultDeviceId = 0
    Pools <- OnePool
    None = None
    NumStreams = 2
    CounterModulus = 2
    MaxDepth = 3
INVARIANTS ExclusiveExecution PoolKept TakesTurns
CHECK_DEADLOCK FALSE
