SPECIFICATION Spec
CONSTANTS
    h1 = h1
    h2 = h2
    NoHost = NoHost
    Hosts <- OneHost
    Kinds = {"settings", "user"}
    MaxStarts = 2
CHECK_DEADLOCK FALSE
INVARIANT NoLostUpdate
