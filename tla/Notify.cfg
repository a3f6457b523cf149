SPECIFICATION Spec
CONSTANTS
    MaxServices = 2
    MaxEvents <- MCMaxEvents
    Capacity = 1
    Window = 1
    CoalesceLimit = 2
    MaxTries = 2
    MaxTime = 1
INVARIANTS
    TypeOK
    AccountedOnce
    HeldHasTimer
    LostOnlyAcrossSwap
    StopNeverStuck
CHECK_DEADLOCK FALSE
