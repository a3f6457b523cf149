----------------------------- MODULE MCTaskRuns -----------------------------
(* Values for the constants of TaskRuns. *)
EXTENDS TaskRuns

Def(p, l, q, n, e) ==
    [policy |-> p, limit |-> l, maxQueued |-> q, retries |-> n, ephemeral |-> e]

\* One task, reloaded between the three overlap policies, limits 1 and 2, a
\* queue of one and of two places, with and without a retry, and the ephemeral
\* station dispatch.
MCDefs == {Def("queue", 1, 2, 0, FALSE), Def("queue", 2, 1, 0, TRUE), Def("kill", 1, 0, 0, FALSE),
           Def("skip", 1, 0, 1, TRUE)}
=============================================================================
