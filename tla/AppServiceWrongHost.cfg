SPECIFICATION Spec
CONSTANTS
    h1 = h1
    h2 = h2
    NoHost = NoHost
    Hosts <- TwoHosts
    Kinds = {"user"}
    MaxStarts = 1
CHECK_DEADLOCK FALSE
INVARIANT NoForeignConfig
