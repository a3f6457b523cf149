--------------------------- MODULE MCCronSchedule ---------------------------
EXTENDS CronSchedule, TLC

CONSTANTS t1, hourly, interval

\* Time 1 comes back as 3: the clocks fall back in between.
MCWall == [k \in Time |->
    [hour |-> CASE k = 0 -> 1 [] k \in 1 .. 3 -> 2 [] OTHER -> 3,
     second |-> IF k \in 1 .. 3 THEN k % 2 ELSE 0]]

MCTicks == hourly :> {1, 3} @@ interval :> {1, 2, 3}

Def(s, foreign, manual, autostart, jitter, startup, catchUp) ==
    [sched |-> s, foreign |-> foreign, manual |-> manual, autostart |-> autostart,
     jitter |-> jitter, startup |-> startup, catchUp |-> catchUp]

MCOffered == {
    Def(hourly, FALSE, TRUE, TRUE, TRUE, TRUE, 0),
    Def(hourly, FALSE, FALSE, TRUE, FALSE, FALSE, 1),
    Def(interval, TRUE, TRUE, FALSE, FALSE, FALSE, 2)}

\* Only a jittered task.
MCJittered == {Def(hourly, FALSE, TRUE, TRUE, TRUE, FALSE, 0)}
=============================================================================
