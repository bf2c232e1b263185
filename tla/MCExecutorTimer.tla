--------------------------- MODULE MCExecutorTimer ---------------------------
(* Small instances of ExecutorTimer for TLC. *)
EXTENDS ExecutorTimer, TLC

CONSTANTS c1, c2    \* model values

CallerSymmetry == Permutations(Callers)
=============================================================================
