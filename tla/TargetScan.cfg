SPECIFICATION FairSpec
CONSTANTS
    MaxThreads = 2
    MaxHosts = 3
    ProbePanics = TRUE
INVARIANTS ProbedOnce DoneIsLast ScanComplete StopBites
PROPERTIES ScanEnds
