SPECIFICATION FairSpec
CONSTANTS
    MaxInstances = 2
    Defs <- MCDefs
    Overrides = {1}
    StartRetries = 1
    MaxRuns = 3
    Callers = {k1}
INVARIANTS
    OneRunPerSlot
    NoSlotForgotten
    FatalIffExhausted
PROPERTY EventuallyFilled
