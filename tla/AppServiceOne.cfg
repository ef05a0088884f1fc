SPECIFICATION FairSpec
CONSTANTS
    h1 = h1
    h2 = h2
    NoHost = NoHost
    Hosts <- OneHost
    Kinds = {"log", "user", "warp", "service"}
    MaxStarts = 3
CHECK_DEADLOCK FALSE
INVARIANTS NoLostUpdate ViewIsCurrent
PROPERTY BusyEnds
