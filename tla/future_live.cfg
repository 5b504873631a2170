SPECIFICATION FairSpec
CONSTANTS
    f1 = f1  f2 = f2  s1 = s1  c1 = c1
    Futures = {f1, f2}
    Streams = {s1}
    Contexts = {c1}
    StreamOf <- SharedStream
    ContextOf <- OneContext
    Capturable = {}
    MaxMoves = 1
PROPERTIES OutcomeObserved
CHECK_DEADLOCK FALSE
