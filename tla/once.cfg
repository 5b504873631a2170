SPECIFICATION LiveSpec
CONSTANTS
    Ops = {"a", "b"}
    Calls = {"a1", "re-enter", "a2", "b1", "in b1"}
    Threads = {"t1", "t2", "t3"}
    Streams = {"s1", "s2"}
    OpOf <- Op
    ThreadOf <- Thread
    StreamOf <- Stream
    ParentOf <- Parent
INVARIANTS
    RunsOnce
    UseAfterWork
PROPERTIES
    OutcomeFinal
    CallsReturn
    StreamsDrain
CHECK_DEADLOCK FALSE
