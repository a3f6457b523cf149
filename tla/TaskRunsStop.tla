---------------------------- MODULE TaskRunsStop ----------------------------
(***************************************************************************)
(* TaskRuns with a history variable: the runs that were active when an     *)
(* operator stopped their task.  It states what the comment of StopTask    *)
(* (manager_run.go:379-385) promises of them.                              *)
(***************************************************************************)
EXTENDS TaskRuns

VARIABLE stopHit    \* runs StopTask found active

StopInit == Init /\ stopHit = {}

StopNext ==
    /\ Next
    /\ stopHit' = stopHit \cup UNION {ActiveOf(t) : t \in {u \in Tasks : StopTask(u)}}

StopSpec == StopInit /\ [][StopNext]_<<vars, stopHit>>

\* r's retry delay is over and its retry is created.
Retried(r) == stage[r] = "retrying" /\ stage'[r] = "ended" /\ created' > created

\* A run StopTask found active is not re-run automatically: "Cancelled runs end
\* with ReasonStopped, which is outside retry eligibility, so a stop never
\* races its own automatic re-run".
StopIsFinal == [][\A r \in stopHit : ~Retried(r)]_<<vars, stopHit>>
=============================================================================
