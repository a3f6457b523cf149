---------------------------- MODULE MCLogStream ----------------------------
(***************************************************************************)
(* Values for the constants of LogStream.                                  *)
(***************************************************************************)
EXTENDS LogStream

TwoFroms == {0, -2}
=============================================================================
