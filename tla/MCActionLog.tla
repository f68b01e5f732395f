----------------------------- MODULE MCActionLog ------------------------------
(* Small instances of ActionLog. *)
EXTENDS ActionLog

CONSTANTS p1, p2
=============================================================================
