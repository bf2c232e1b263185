----------------------------- MODULE MCLogFiles -----------------------------
(* Small instances of LogFiles for TLC. *)
EXTENDS LogFiles

\* Two files of earlier processes.
TwoOldFiles ==
    [f \in {[second |-> 0, index |-> 1], [second |-> 0, index |-> 2]} |-> 2]
=============================================================================
