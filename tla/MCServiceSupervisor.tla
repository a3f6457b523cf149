------------------------ MODULE MCServiceSupervisor ------------------------
(* Values for the constants of ServiceSupervisor. *)
EXTENDS ServiceSupervisor

Def(n, p, a) == [instances |-> n, restart |-> p, autostart |-> a]

\* Two instances restarted on failure, reloaded to one that always restarts and
\* is not started by itself.
MCDefs == {Def(2, "on_failure", TRUE), Def(1, "always", FALSE)}

\* One definition, for the runs that show a disagreement.
MCOneDef == {Def(1, "always", TRUE)}
=============================================================================
