SPECIFICATION Spec
CONSTANTS
    Devices = {0, 1}
    DefaultDeviceId = 0
    Pools <- OnePool
    None = None
    NumStreams = 2
    CounterModulus = 2
    MaxDepth = 1
INVARIANTS AwaitedPool
CHECK_DEADLOCK FALSE
