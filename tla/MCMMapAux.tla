----------------------------- MODULE MCMMapAux -----------------------------
(* A small instance of MMapAux for TLC. *)
EXTENDS MMapAux, TLC

CONSTANTS r1, r2    \* model values

ReaderSymmetry == Permutations(Readers)
=============================================================================
