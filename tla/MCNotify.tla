------------------------------ MODULE MCNotify ------------------------------
(* Values for the constants of Notify. *)
EXTENDS Notify

\* Four events for one service, which take a group through two windows with a
\* callback that comes late; two when a reload puts a second service beside it.
MCMaxEvents == <<4, 2>>
=============================================================================
