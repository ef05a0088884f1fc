SPECIFICATION FairSpec
CONSTANTS
    Limit = 2
    Chunk = 2
    MaxLines = 6
    MaxTruncations = 1
CHECK_DEADLOCK FALSE
INVARIANTS OnlyJoiningSkips Contiguous
PROPERTY OthersShown
