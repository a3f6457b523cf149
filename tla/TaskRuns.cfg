SPECIFICATION FairSpec
CONSTANTS
    Tasks = {t1}
    Defs <- MCDefs
    Origins = {"local"}
    MaxRuns = 3
INVARIANTS
    NoStrandedQueue
    NoLostWakeup
    Fifo
    RunsAccounted
    ShutdownCancelsAll
PROPERTIES
    StartWithinLimit
    KillsNoMore
    QueueServed
    ShutdownCompletes
