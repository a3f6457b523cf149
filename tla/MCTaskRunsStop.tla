--------------------------- MODULE MCTaskRunsStop ---------------------------
(* Values for the constants of TaskRunsStop. *)
EXTENDS TaskRunsStop

\* One task that skips overlaps and retries a failed run once.
MCStopDefs == {[policy |-> "skip", limit |-> 1, maxQueued |-> 0, retries |-> 1, ephemeral |-> FALSE]}
=============================================================================
