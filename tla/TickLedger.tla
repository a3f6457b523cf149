----------------------------- MODULE TickLedger -----------------------------
(***************************************************************************)
(* What RunWisp promises about the ticks of its cron tasks, whoever keeps  *)
(* the promise (the scheduler, the jitter gate, an operator, or the        *)
(* catch-up of a later boot): a tick that passes while RunWisp owns the    *)
(* task's schedule is due; at most one thing is ever recorded for it; and  *)
(* a report of missed ticks leaves no older tick of its task open.         *)
(***************************************************************************)
EXTENDS Integers

CONSTANTS
    Tasks,
    MaxTime         \* bound: the clock stops there

VARIABLES
    now,            \* the clock
    outcome         \* what became of each tick of each task

vars == <<now, outcome>>

Time == 0 .. MaxTime

\* "none": no tick RunWisp owes; "due": nothing is recorded yet; "waived": the
\* operator gave it up (paused, removed, or started afresh); "ran": a run was
\* recorded for it; "skipped": recorded as suppressed; "missed": covered by a report.
Outcomes == {"none", "due", "waived", "ran", "skipped", "missed"}

Init ==
    /\ now = 0
    /\ outcome = [t \in Tasks |-> [k \in Time |-> "none"]]

\* The clock moves on, and what passes is due or, if paused, waived.
Pass ==
    /\ now < MaxTime
    /\ now' = now + 1
    /\ \E new \in [Tasks -> {"none", "due", "waived"}] :
          outcome' = [t \in Tasks |-> [outcome[t] EXCEPT ![now + 1] = new[t]]]

\* One tick is recorded, as a run or as suppressed. A run under way when the
\* operator gave up the tick may still be recorded.
Record(t, k) ==
    /\ k <= now
    /\ outcome[t][k] \in {"due", "waived"}
    /\ \E o \in {"ran", "skipped"} : outcome' = [outcome EXCEPT ![t][k] = o]
    /\ UNCHANGED now

\* A missed run reports every tick of the task that is open up to its time.
Report(t) ==
    /\ \E b \in 0 .. now :
          outcome' = [outcome EXCEPT ![t] = [k \in Time |->
                        IF k <= b /\ @[k] = "due" THEN "missed" ELSE @[k]]]
    /\ UNCHANGED now

Open == {p \in Tasks \X Time : outcome[p[1]][p[2]] = "due"}

Waive ==
    /\ \E W \in SUBSET Open :
          outcome' = [t \in Tasks |-> [k \in Time |->
                        IF <<t, k>> \in W THEN "waived" ELSE outcome[t][k]]]
    /\ UNCHANGED now

Next ==
    \/ Pass
    \/ \E t \in Tasks : Report(t) \/ \E k \in Time : Record(t, k)
    \/ Waive

Spec == Init /\ [][Next]_vars
=============================================================================
