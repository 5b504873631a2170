SPECIFICATION FairSpec
CONSTANTS
    r1 = r1 r2 = r2 r3 = r3 s1 = s1 s2 = s2 c1 = c1 c2 = c2
    None = None
    Regs = {r1, r2}
    Streams = {s1, s2}
    Contexts = {c1, c2}
    StreamOf <- OneEach
    ContextOf <- TwoContexts
    NumSlots = 1
    WordBits = 1
    SpinPasses = 1
    PassModulus = 2
    OverflowChecks = FALSE
    Capturable = {s1}
PROPERTIES
    ExecutedDelivered
    FaultResolved
    ScannerParks
