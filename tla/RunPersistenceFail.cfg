SPECIFICATION Spec
CONSTANTS
    Runs = {r1}
    Capacity = 2
    MaxBoots = 2
    WriteFailures = TRUE
CHECK_DEADLOCK FALSE
INVARIANTS
    NoSecondProcess
