SPECIFICATION Spec
CONSTANTS
    Tasks = {1, 2, 3}
    MaxTime = 5
    NextTick <- MCNext
    Window <- MCWindow
    MaxRuns = 3
INVARIANTS
    InWindow
    NoIdleHold
    InflightLives
PROPERTY CongestedOnlyWhenDue
CHECK_DEADLOCK FALSE
