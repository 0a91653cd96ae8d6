------------------------------ MODULE MCDaemon ------------------------------
(* A small instance of Daemon for TLC.                                       *)
EXTENDS Daemon

CONSTANTS c1, c2

TwoCallers == {c1, c2}
=============================================================================
