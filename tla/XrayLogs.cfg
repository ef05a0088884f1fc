SPECIFICATION FairSpec
CONSTANTS
    access = access
    journal = journal
    Kinds <- TwoKinds
    ProbePanics = TRUE
    MaxStarts = 2
    MaxProbes = 2
    MaxSaves = 1
    MaxGeneration = 2
    MaxInbox = 1
CHECK_DEADLOCK FALSE
INVARIANTS NothingStaleShown NoOrphanFollow
PROPERTIES LoadingEnds AbandonedFollowEnds
