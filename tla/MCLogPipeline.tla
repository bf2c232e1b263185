--------------------------- MODULE MCLogPipeline ---------------------------
(* A small instance of LogPipeline for TLC. *)
EXTENDS LogPipeline, TLC

CONSTANTS t1, t2, e1, e2, con    \* model values

ThreadSymmetry == Permutations(Threads)

\* One console between two EffectiveSinks, which share the thread's buffer.
ThreeSinks == <<e1, con, e2>>

\* A trace message without a location (the level is the default of its
\* field), one with all fields, and one from a file whose name is not UTF-8.
SomeMessages ==
    {[level |-> 0, path |-> <<>>, line |-> 0, func |-> <<>>, message |-> <<"a">>],
     [level |-> 3, path |-> <<"d", "/", "f">>, line |-> 7, func |-> <<"g">>,
      message |-> <<"b">>],
     [level |-> 4, path |-> <<"d", "\\", Bad>>, line |-> 7, func |-> <<"g">>,
      message |-> <<"c">>]}
=============================================================================
