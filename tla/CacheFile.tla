----------------------------- MODULE CacheFile -----------------------------
(***************************************************************************)
(* What an MMapAux promises about its file: the operations of MMapBuffer   *)
(* as atomic steps on the file, which a dying process leaves as it is.     *)
(* EffectiveSink uses its caches as such files.                            *)
(*                                                                         *)
(* An operation is asked for, takes effect at most once, and is over; one  *)
(* that fails or dies with its process is over without effect.  Without an *)
(* operation that asks for it the data does not change: not by a crash,    *)
(* and not when the next process opens the file.                           *)
(***************************************************************************)
EXTENDS MMapBuffer

VARIABLES
    b,      \* the file, a buffer of MMapBuffer
    op,     \* the operation in progress, "none" for none
    arg     \* what a push is to append, the size a resize is to give

Init == b = NoFile /\ op = "none"

Begin ==
    /\ op = "none"
    /\ op' \in {"open", "push", "resize", "clear"}
    /\ b' = b

\* An operation that needs room gives the file another size, in whole pages,
\* and keeps its data.
Refit ==
    /\ op \in {"open", "push", "resize"}
    /\ b'.cap = GetValidCapacity(b'.cap)
    /\ HeaderSize + Size(b) <= b'.cap
    /\ b' = [b EXCEPT !.cap = b'.cap]
    /\ UNCHANGED <<op, arg>>

\* Resize exposes whatever lies behind the data.
Resized ==
    /\ b' = [b EXCEPT !.data = b'.data]
    /\ Size(b') = arg
    /\ HeaderSize + Size(b') <= b.cap
    /\ \A i \in 1..Size(b) : i <= Size(b') => b'.data[i] = b.data[i]

TakeEffect ==
    /\ \/ op = "push" /\ b' = Push(b, arg)
       \/ op = "resize" /\ Resized
       \/ op = "clear" /\ b' = Clear(b)
    /\ op' = "none"

\* A call throws or its process dies; or the constructor is done.
End == op # "none" /\ op' = "none" /\ b' = b

Next == Begin \/ Refit \/ TakeEffect \/ End

Spec == Init /\ [][Next]_<<b, op, arg>>
=============================================================================
