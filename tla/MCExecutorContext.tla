-------------------------- MODULE MCExecutorContext --------------------------
(* Small instances of ExecutorContext for TLC. *)
EXTENDS ExecutorContext

CONSTANTS c1, c2    \* model values
=============================================================================
