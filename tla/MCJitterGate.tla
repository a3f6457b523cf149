---------------------------- MODULE MCJitterGate ----------------------------
(* Values for the constants of JitterGate. *)
EXTENDS JitterGate

\* Two nightly tasks that share their first tick, one of them with an irregular
\* schedule whose second gap leaves no room for a window; a third that fires
\* into the backlog of the others.
MCTicks == <<{1, 5}, {1, 4, 5}, {2}>>
MCNext ==
    [t \in 1 .. 3 |-> [n \in 0 .. MaxTime |->
        LET later == {m \in MCTicks[t] : m > n}
        IN IF later = {} THEN MaxTime + 4 ELSE CHOOSE m \in later : \A k \in later : m <= k]]
MCWindow == <<3, 2, 3>>
=============================================================================
