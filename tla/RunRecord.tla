----------------------------- MODULE RunRecord -----------------------------
(***************************************************************************)
(* What a reader of the runs table may rely on, across crashes and         *)
(* restarts of the daemon: a row only moves forward, a process exists only *)
(* once its row says "running", and no run is executed twice.              *)
(* The comments that promise it are manager_run.go:62-65 (execute) and     *)
(* manager_run.go:298-306 (publishTerminal).                               *)
(***************************************************************************)
EXTENDS Naturals

CONSTANT Runs

VARIABLES
    row,        \* the durable row of a run: "none", "pending", "running", "ended"
    launches    \* how many processes were started for it, ever

Init ==
    /\ row = [r \in Runs |-> "none"]
    /\ launches = [r \in Runs |-> 0]

Record(r) ==
    /\ row[r] = "none"
    /\ row' = [row EXCEPT ![r] = "pending"]
    /\ UNCHANGED launches

Begin(r) ==
    /\ row[r] = "pending"
    /\ row' = [row EXCEPT ![r] = "running"]
    /\ UNCHANGED launches

Launch(r) ==
    /\ row[r] = "running"
    /\ launches[r] = 0
    /\ launches' = [launches EXCEPT ![r] = 1]
    /\ UNCHANGED row

\* Runs that end, executed or not; a boot ends all those a crash interrupted.
Finish(S) ==
    /\ \A r \in S : row[r] \in {"pending", "running"}
    /\ row' = [r \in Runs |-> IF r \in S THEN "ended" ELSE row[r]]
    /\ UNCHANGED launches

Next ==
    \/ \E r \in Runs : Record(r) \/ Begin(r) \/ Launch(r)
    \/ \E S \in SUBSET Runs : Finish(S)

Spec == Init /\ [][Next]_<<row, launches>>
=============================================================================
