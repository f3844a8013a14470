-------------------------- MODULE MCExecutionLocks --------------------------
(* Small instances of ExecutionLocks for TLC.                              *)
EXTENDS ExecutionLocks, TLC

CONSTANTS r1, r2, r3

(* Two requests that need both keys and one that competes for the second.  *)
Crossing == r1 :> {1, 2} @@ r2 :> {1, 2} @@ r3 :> {2}
=============================================================================
