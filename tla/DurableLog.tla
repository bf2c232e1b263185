----------------------------- MODULE DurableLog -----------------------------
(***************************************************************************)
(* What EffectiveSink promises its callers, without caches, files, worker  *)
(* or key: an item that Log has accepted is pending until it is written,   *)
(* and stays one of the two through every crash; Flush returns only when   *)
(* all that was accepted before the call is written.  A log that is broken *)
(* promises nothing any more.                                              *)
(***************************************************************************)
CONSTANTS
    Threads,    \* who logs and flushes
    Items       \* what can be logged

VARIABLES
    pending,    \* accepted and not yet written
    written,    \* in the log file
    flushing,   \* threads in Flush
    base,       \* what had been accepted when a thread called Flush
    broken      \* the promise is off

vars == <<pending, written, flushing, base, broken>>

Init ==
    /\ pending = {}
    /\ written = {}
    /\ flushing = {}
    /\ base = [t \in Threads |-> {}]
    /\ broken = FALSE

Accept ==
    /\ \E i \in Items \ (pending \cup written) : pending' = pending \cup {i}
    /\ UNCHANGED <<written, flushing, base>>

Write ==
    /\ \E S \in SUBSET pending :
          /\ pending' = pending \ S
          /\ written' = written \cup S
    /\ UNCHANGED <<flushing, base>>

BeginFlush(t) ==
    /\ t \notin flushing
    /\ flushing' = flushing \cup {t}
    /\ base' = [base EXCEPT ![t] = pending \cup written]
    /\ UNCHANGED <<pending, written>>

EndFlush(t) ==
    /\ t \in flushing
    /\ base[t] \subseteq written
    /\ flushing' = flushing \ {t}
    /\ UNCHANGED <<pending, written, base>>

\* The process dies and with it the calls in progress, but no item.
Crash ==
    /\ flushing' = {}
    /\ base' = [t \in Threads |-> {}]
    /\ UNCHANGED <<pending, written>>

Break == broken'

Next ==
    \/ ~broken /\ ~broken' /\ (Accept \/ Write \/ Crash)
    \/ ~broken /\ ~broken' /\ \E t \in Threads : BeginFlush(t) \/ EndFlush(t)
    \/ Break

Spec == Init /\ [][Next]_vars
=============================================================================
