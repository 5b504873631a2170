SPECIFICATION FairSpec
CONSTANTS
    None = None
    Procs = {"p1", "p2"}
    Keys = {"k1", "k2"}
    Temps = {"x1", "x2", "x3", "x4"}
    Requests <- Asked
    Size <- Sizes
    Stored = {"k2"}
    Cleaners = {"p1"}
    HighMark = 1
    LowMark = 1
    MaxCrashes = 1
INVARIANTS
    PublishedWhole
    LoadsWhole
    NeverFailsLaunch
    TempsOwned
    EvictionFits
PROPERTIES
    LaunchReturns
CHECK_DEADLOCK FALSE
