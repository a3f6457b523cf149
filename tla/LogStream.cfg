SPECIFICATION FairSpec
CONSTANTS
    Streams = {"stdout", "stderr"}
    MaxLines = 3
    SegmentLines = 1
    GroupLines = 2
    Overflows = {"drop_old"}
    PendingLimit = 1
    Replay = 3
    Froms <- TwoFroms
    MaxConns = 2
INVARIANTS
    TypeOK
    NumbersAreStable
    NoSilentGap
PROPERTY EventuallyDone
CHECK_DEADLOCK FALSE
