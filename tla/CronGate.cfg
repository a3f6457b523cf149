SPECIFICATION Spec
CONSTANTS
    t1 = t1
    hourly = hourly
    interval = interval
    Absent = Absent
    NoCron = NoCron
    Tasks = {t1}
    Scheds = {hourly, interval}
    Every = {interval}
    Offered <- MCJittered
    Ticks <- MCTicks
    Wall <- MCWall
    DisplayFloor = 1
    MaxTime = 3
    MaxEdits = 1
    MaxFlips = 2
    MaxBoots = 2
    OutrunEnds = TRUE
INVARIANT NoTickForgotten
CHECK_DEADLOCK FALSE
