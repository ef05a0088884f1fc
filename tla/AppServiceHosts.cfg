SPECIFICATION Spec
CONSTANTS
    h1 = h1
    h2 = h2
    NoHost = NoHost
    Hosts <- TwoHosts
    Kinds = {"settings", "log", "user", "bound", "restore", "warp", "service", "unit", "lifecycle"}
    MaxStarts = 2
CHECK_DEADLOCK FALSE
INVARIANTS OneAtATime LogFormFits
PROPERTY ComparersKeepHome
SYMMETRY HostSymmetry
