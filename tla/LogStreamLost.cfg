SPECIFICATION Spec
CONSTANTS
    Streams = {"stdout", "stderr"}
    MaxLines = 2
    SegmentLines = 2
    GroupLines = 1
    Overflows = {"drop_old"}
    PendingLimit = 1
    Replay = 3
    Froms = {0}
    MaxConns = 1
INVARIANT NoLineLost
CHECK_DEADLOCK FALSE
