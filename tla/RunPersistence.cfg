SPECIFICATION FairSpec
CONSTANTS
    Runs = {r1, r2}
    Capacity = 2
    MaxBoots = 2
    WriteFailures = FALSE
INVARIANTS
    NoPhantomRow
    GracefulLeavesNoneRunning
PROPERTIES
    RowsAreRecords
    EventAfterRow
    EventuallyAnnounced
CHECK_DEADLOCK FALSE
