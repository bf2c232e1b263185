-------------------------- MODULE MCEffectiveSink --------------------------
(* Small instances of EffectiveSink and LogParser for TLC. *)
EXTENDS LogParser, TLC

CONSTANTS t1, t2    \* model values

ThreadSymmetry == Permutations(Threads)
=============================================================================
