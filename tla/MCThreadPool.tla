---------------------------- MODULE MCThreadPool ----------------------------
(* Small instances of ThreadPool for TLC. *)
EXTENDS ThreadPool

CONSTANTS c1, c2, w1, w2    \* model values
=============================================================================
