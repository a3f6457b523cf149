SPECIFICATION Spec
CONSTANTS
    t1 = t1
    hourly = hourly
    interval = interval
    Absent = Absent
    NoCron = NoCron
    Tasks = {t1}
    Scheds = {hourly, interval}
    Every = {interval}
    Offered <- MCOffered
    Ticks <- MCTicks
    Wall <- MCWall
    DisplayFloor = 1
    MaxTime = 3
    MaxEdits = 1
    MaxFlips = 1
    MaxBoots = 2
    OutrunEnds = FALSE
INVARIANTS TypeOK NoTickForgotten PausedMatchesRow ScheduleMatchesConfig QuietMeansAnswered
PROPERTIES TicksSettledOnce
CHECK_DEADLOCK FALSE
