SPECIFICATION Spec
CONSTANTS
    r1 = r1 r2 = r2 r3 = r3 s1 = s1 s2 = s2 c1 = c1 c2 = c2
    None = None
    Regs = {r1, r2, r3}
    Streams = {s1, s2}
    Contexts = {c1}
    StreamOf <- ThreeOnTwo
    ContextOf <- OneContext
    NumSlots = 2
    WordBits = 1
    SpinPasses = 1
    PassModulus = 2
    OverflowChecks = TRUE
    Capturable = {}
SYMMETRY SameStream
INVARIANTS
    TypeOK
    SignalledExecuted
    WokenOnlyOnFault
    NoPayloadRace
    SlotsConserved
    ArmedCountExact
    NoLostUnpark
PROPERTIES
    DecidedOnce
    ImplementsCompletion
CHECK_DEADLOCK FALSE
