SPECIFICATION Spec
CONSTANTS
    Execs = {e1}
    e1 = e1
    MaxRuns = 2
    MaxAsked = 2
    MaxSessions = 2
    MaxRestarts = 1
    PendingLimit = 2
INVARIANTS
    RunOnce
    ReservationOwned
    NoReportForgotten
CHECK_DEADLOCK FALSE
