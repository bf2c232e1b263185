-------------------------- MODULE LogPipelineProofs --------------------------
(***************************************************************************)
(* Proofs about LogPipeline, for any number of threads, sinks, messages    *)
(* and failures: what the sinks get of the accepted messages, how the      *)
(* lines of several threads share stdout, and that the parser reads back   *)
(* what was logged.                                                        *)
(***************************************************************************)
EXTENDS LogPipeline, FiniteSetTheorems, SequenceTheorems, TLAPS

\* f is a function on S, x a sequence.
IsFun(f, S) == f = [x \in S |-> f[x]]
IsSeq(x)    == Len(x) \in Nat /\ IsFun(x, 1..Len(x))

\* A thread in the loop has the message of an accepted call.
TypesInv ==
    /\ TypeOK
    /\ IsFun(msg, Threads)
    /\ IsFun(encryped_buf_, SinkSet)
    /\ IsFun(cache, SinkSet)
    /\ \A s \in SinkSet : IsSeq(cache[s])
    /\ IsSeq(stdout)
    /\ \A t \in Threads : pc[t] = "idle" => msg[t].n = 0
    /\ \A t \in Threads : pc[t] # "idle" =>
           msg[t].n > 0 /\ msg[t].n \in accepted /\ msg[t].tid = t
    /\ \A t \in Threads : pc[t] = "newline" => At(t) \in Consoles
    /\ \A t \in Threads : pc[t] = "write" => At(t) \notin Consoles

\* Whoever has printed a line without its newline is about to print that, and
\* has printed nothing since.
NewlineFollows(t, i) ==
    \E k \in 1..Len(stdout) : k > i /\ stdout[k].by = t /\ stdout[k].n = 0

\* Between two texts of a thread there is its newline.
TextsApart ==
    \A i, j \in 1..Len(stdout) :
        i < j /\ stdout[i].by = stdout[j].by /\ stdout[i].n # 0
              /\ stdout[j].n # 0 =>
            \E k \in i..j : stdout[k].n = 0 /\ stdout[k].by = stdout[i].by

Newlines == {i \in 1..Len(stdout) : stdout[i].n = 0}
Printing == {t \in Threads : pc[t] = "newline"}

LinesInv ==
    /\ \A i \in 1..Len(stdout) : stdout[i].by \in Threads /\ stdout[i].n \in Nat
    /\ \A i \in 1..Len(stdout) :
           stdout[i].n # 0 => \/ NewlineFollows(stdout[i].by, i)
                              \/ pc[stdout[i].by] = "newline"
    /\ TextsApart
    /\ IsFiniteSet(Printing)
    /\ Len(stdout) = 2 * Cardinality(Newlines) + Cardinality(Printing)

-----------------------------------------------------------------------------
Texts(s) == {i \in 1..Len(Numbers(s)) : Numbers(s)[i][2] # 0}
Seen(s)  == {Numbers(s)[i][2] : i \in Texts(s)}

\* The call of t is done with the sink s.
Past(t, s) ==
    \E j \in 1..Len(Sinks) :
        Sinks[j] = s /\ (j < idx[t] \/ (j = idx[t] /\ pc[t] = "newline"))

\* What s has not got and will not get any more.
Lost(s) ==
    {n \in accepted \ Seen(s) : \A t \in Threads : msg[t].n = n => Past(t, s)}

\* A sink got what was accepted, in the order of each thread's calls; and the
\* message of the call under way only when the call is done with the sink.
OrderAt(s) ==
    /\ \A i \in Texts(s) : Numbers(s)[i][2] \in accepted
    /\ \A i, j \in Texts(s) :
           i < j /\ Numbers(s)[i][1] = Numbers(s)[j][1] =>
               Numbers(s)[i][2] < Numbers(s)[j][2]
    /\ \A i \in Texts(s), t \in Threads :
           Numbers(s)[i][1] = t /\ pc[t] # "idle" =>
               \/ Numbers(s)[i][2] < msg[t].n
               \/ Numbers(s)[i][2] = msg[t].n /\ Past(t, s)

OrderInv == \A s \in SinkSet : OrderAt(s)

LostInv == \A s \in SinkSet : Cardinality(Lost(s)) <= failures

-----------------------------------------------------------------------------
(* Lemmas about the operators. *)

LEMMA AppendFacts ==
    ASSUME NEW x, IsSeq(x), NEW e
    PROVE  /\ IsSeq(Append(x, e))
           /\ Len(Append(x, e)) = Len(x) + 1
           /\ \A i \in 1..Len(x) : Append(x, e)[i] = x[i]
           /\ Append(x, e)[Len(x) + 1] = e
           /\ \A i \in 1..(Len(x) + 1) : i \in 1..Len(x) \/ i = Len(x) + 1
<1> DEFINE T == {x[i] : i \in 1..Len(x)} \cup {e}
<1>3. e \in T /\ \A i \in 1..Len(x) : x[i] \in T
  OBVIOUS
<1> HIDE DEF T
<1>1. x \in Seq(T) /\ e \in T /\ Len(x) \in Nat
  <2>1. Len(x) \in Nat
    BY DEF IsSeq
  <2>2. PICK n \in Nat : n = Len(x)
    BY <2>1
  <2>3. x = [i \in 1..n |-> x[i]]
    BY <2>2 DEF IsSeq, IsFun
  <2>4. x \in [1..n -> T]
    BY <1>3, <2>2, <2>3
  <2>5. x \in Seq(T)
    BY <2>4, SeqDef
  <2> QED
    BY <1>3, <2>1, <2>5
<1>2. Append(x, e) \in Seq(T) /\ Len(Append(x, e)) = Len(x) + 1
  BY <1>1
<1>4. IsSeq(Append(x, e))
  <2> DEFINE y == Append(x, e)
  <2>1. y \in Seq(T)
    BY <1>2
  <2> HIDE DEF y
  <2>2. y \in [1..Len(y) -> T] /\ Len(y) \in Nat
    BY <2>1, LenProperties
  <2>3. IsFun(y, 1..Len(y))
    BY <2>2, Zenon DEF IsFun
  <2> QED
    BY <2>2, <2>3 DEF IsSeq, y
<1> QED
  BY <1>1, <1>2, <1>4

LEMMA EmptyIsSeq == IsSeq(<<>>) /\ Len(<<>>) = 0
<1>1. <<>> \in Seq({}) /\ Len(<<>>) = 0
  OBVIOUS
<1>2. <<>> \in [1..0 -> {}]
  BY <1>1, LenProperties
<1>3. IsFun(<<>>, 1..0)
  BY <1>2, Zenon DEF IsFun
<1> QED
  BY <1>1, <1>3 DEF IsSeq

Steps == {"idle", "sink", "format", "newline", "write"}

\* The sink a thread is at is one of the handle's.
LEMMA AtFacts ==
    ASSUME TypesInv, NEW t \in Threads, pc[t] # "idle"
    PROVE  /\ idx[t] \in 1..Len(Sinks) /\ Len(Sinks) \in Nat
           /\ At(t) \in SinkSet /\ At(t) = Sinks[idx[t]]
<1>1. Len(Sinks) \in Nat
  BY PipelineAssumption
<1>2. idx[t] \in 0..Len(Sinks) /\ idx[t] # 0
  BY DEF TypesInv, TypeOK
<1> QED
  BY <1>1, <1>2 DEF At, SinkSet

\* No other thread moves; t is at the given step of the given sink.
Moves(t, step, place) ==
    /\ pc' \in [Threads -> Steps]
    /\ idx' \in [Threads -> 0..Len(Sinks)]
    /\ \A u \in Threads : u # t => pc'[u] = pc[u] /\ idx'[u] = idx[u]
    /\ pc'[t] = step /\ idx'[t] = place

\* How a call leaves the loop, or goes on with the next sink.
LEMMA ReturnFacts ==
    ASSUME TypesInv, NEW t \in Threads, Return(t)
    PROVE  /\ Moves(t, "idle", 0)
           /\ IsFun(msg', Threads)
           /\ msg'[t].n = 0
           /\ \A u \in Threads : u # t => msg'[u] = msg[u]
           /\ held' \in [Threads -> Kinds \cup {"none"}]
           /\ raced' \subseteq Threads
<1>1. Len(Sinks) \in Nat
  BY PipelineAssumption
<1>2. Moves(t, "idle", 0)
  BY <1>1 DEF TypesInv, TypeOK, Return, Moves, Steps
<1>3. /\ IsFun(msg', Threads)
      /\ msg'[t] = NoMsg
      /\ \A u \in Threads : u # t => msg'[u] = msg[u]
  <2>1. IsFun(msg, Threads) /\ msg' = [msg EXCEPT ![t] = NoMsg]
    BY DEF TypesInv, Return
  <2> QED
    BY <2>1 DEF IsFun
<1>4. msg'[t].n = 0
  BY <1>3 DEF NoMsg
<1> QED
  BY <1>2, <1>3, <1>4 DEF TypesInv, TypeOK, Return, LeaveSink

LEMMA NextSinkFacts ==
    ASSUME TypesInv, NEW t \in Threads, pc[t] # "idle", NextSink(t)
    PROVE  /\ \/ /\ idx[t] = Len(Sinks)
                 /\ Moves(t, "idle", 0)
                 /\ msg'[t].n = 0
              \/ /\ idx[t] < Len(Sinks)
                 /\ Moves(t, "sink", idx[t] + 1)
                 /\ msg'[t] = msg[t]
           /\ IsFun(msg', Threads)
           /\ \A u \in Threads : u # t => msg'[u] = msg[u]
           /\ held' \in [Threads -> Kinds \cup {"none"}]
           /\ raced' \subseteq Threads
<1>1. CASE idx[t] = Len(Sinks)
  BY <1>1, ReturnFacts DEF NextSink
<1>2. CASE idx[t] # Len(Sinks)
  <2>1. idx[t] < Len(Sinks) /\ idx[t] + 1 \in 0..Len(Sinks)
    BY <1>2, AtFacts
  <2>2. /\ LeaveSink(t)
        /\ idx' = [idx EXCEPT ![t] = idx[t] + 1]
        /\ pc' = [pc EXCEPT ![t] = "sink"]
        /\ msg' = msg
    BY <1>2 DEF NextSink
  <2>3. Moves(t, "sink", idx[t] + 1)
    BY <2>1, <2>2 DEF TypesInv, TypeOK, Moves, Steps
  <2> QED
    BY <2>1, <2>2, <2>3 DEF TypesInv, TypeOK, LeaveSink
<1> QED
  BY <1>1, <1>2

-----------------------------------------------------------------------------
(* TypesInv. *)

LEMMA TypesInit == Init => TypesInv
<1> SUFFICES ASSUME Init PROVE TypesInv
  OBVIOUS
<1>1. Len(Sinks) \in Nat
  BY PipelineAssumption
<1>2. TypeOK
  <2>1. pc \in [Threads -> Steps] /\ idx \in [Threads -> 0..Len(Sinks)]
    BY <1>1 DEF Init, Steps
  <2>2. held \in [Threads -> Kinds \cup {"none"}] /\ formatter_ \in [SinkSet -> Kinds]
    BY DEF Init, Kinds
  <2>3. \A t \in Threads : msg[t].n = 0 /\ pc[t] = "idle" /\ idx[t] = 0
    BY DEF Init, NoMsg
  <2>4. \A s \in SinkSet : Len(encryped_buf_[s]) <= 1 /\ cache[s] = <<>>
    BY DEF Init
  <2> QED
    BY <2>1, <2>2, <2>3, <2>4, PipelineAssumption DEF Init, TypeOK, Steps
<1>3. \A s \in SinkSet : IsSeq(cache[s])
  BY EmptyIsSeq DEF Init
<1>4. IsSeq(stdout)
  BY EmptyIsSeq DEF Init
<1>5. \A t \in Threads : msg[t].n = 0 /\ pc[t] = "idle"
  BY DEF Init, NoMsg
<1>6. /\ IsFun(msg, Threads)
      /\ IsFun(encryped_buf_, SinkSet)
      /\ IsFun(cache, SinkSet)
  BY DEF Init, IsFun
<1> QED
  BY <1>2, <1>3, <1>4, <1>5, <1>6 DEF TypesInv

\* A step of thread t in or out of the loop, whatever it does to the sinks.
LEMMA ThreadTypes ==
    ASSUME TypesInv, NEW t \in Threads, pc[t] # "idle",
           NEW step, NEW place, Moves(t, step, place),
           step = "idle" <=> place = 0,
           step = "idle" => msg'[t].n = 0,
           step # "idle" => msg'[t] = msg[t],
           step = "newline" => place = idx[t] /\ At(t) \in Consoles,
           step = "write" => place = idx[t] /\ At(t) \notin Consoles,
           IsFun(msg', Threads),
           \A u \in Threads : u # t => msg'[u] = msg[u],
           held' \in [Threads -> Kinds \cup {"none"}],
           raced' \subseteq Threads,
           UNCHANGED <<level_, formatter_, calls, accepted>>,
           failures' \in 0..MaxFailures,
           IsFun(encryped_buf_', SinkSet),
           \A s \in SinkSet : Len(encryped_buf_'[s]) <= 1,
           IsFun(cache', SinkSet),
           \A s \in SinkSet : IsSeq(cache'[s]) /\ (s \in Consoles => cache'[s] = <<>>),
           IsSeq(stdout')
    PROVE  TypesInv'
<1>1. /\ \A u \in Threads : u # t => pc'[u] = pc[u] /\ idx'[u] = idx[u]
      /\ pc'[t] = step /\ idx'[t] = place
      /\ pc' \in [Threads -> Steps] /\ idx' \in [Threads -> 0..Len(Sinks)]
  BY DEF Moves
<1>2. \A u \in Threads : msg'[u].n \in 0..calls
  <2>1. \A u \in Threads : msg[u].n \in 0..calls
    BY DEF TypesInv, TypeOK
  <2>2. 0 \in 0..calls
    BY PipelineAssumption DEF TypesInv, TypeOK
  <2> QED
    BY <2>1, <2>2
<1>3. \A u \in Threads : idx'[u] = 0 <=> pc'[u] = "idle"
  BY <1>1 DEF TypesInv, TypeOK
<1>4. TypeOK'
  BY <1>1, <1>2, <1>3 DEF TypesInv, TypeOK, Steps
<1>5. ASSUME NEW u \in Threads, pc'[u] = "idle" PROVE msg'[u].n = 0
  <2>1. CASE u = t
    <3>1. step = "idle"
      BY <1>1, <1>5, <2>1
    <3> QED
      BY <2>1, <3>1, Zenon
  <2>2. CASE u # t
    BY <1>1, <1>5, <2>2 DEF TypesInv
  <2> QED
    BY <2>1, <2>2
<1>6. \A u \in Threads : pc'[u] # "idle" =>
          msg'[u].n > 0 /\ msg'[u].n \in accepted' /\ msg'[u].tid = u
  BY <1>1 DEF TypesInv
<1>7. \A u \in Threads : pc'[u] = "newline" => Sinks[idx'[u]] \in Consoles
  BY <1>1 DEF TypesInv, At
<1>8. \A u \in Threads : pc'[u] = "write" => Sinks[idx'[u]] \notin Consoles
  BY <1>1 DEF TypesInv, At
<1> QED
  BY <1>4, <1>5, <1>6, <1>7, <1>8 DEF TypesInv, At

\* What NextSink and Return leave is what ThreadTypes asks for.
LEMMA LoopTypes ==
    ASSUME TypesInv, NEW t \in Threads, pc[t] # "idle",
           NextSink(t) \/ Return(t),
           UNCHANGED <<level_, formatter_, calls, accepted>>,
           failures' \in 0..MaxFailures,
           IsFun(encryped_buf_', SinkSet),
           \A s \in SinkSet : Len(encryped_buf_'[s]) <= 1,
           IsFun(cache', SinkSet),
           \A s \in SinkSet : IsSeq(cache'[s]) /\ (s \in Consoles => cache'[s] = <<>>),
           IsSeq(stdout')
    PROVE  TypesInv'
<1>1. idx[t] + 1 # 0
  BY AtFacts
<1>2. CASE NextSink(t)
  <2>1. CASE Moves(t, "idle", 0) /\ msg'[t].n = 0
    BY <1>2, <2>1, NextSinkFacts, ThreadTypes
  <2>2. CASE Moves(t, "sink", idx[t] + 1) /\ msg'[t] = msg[t]
    BY <1>1, <1>2, <2>2, NextSinkFacts, ThreadTypes
  <2> QED
    BY <1>2, <2>1, <2>2, NextSinkFacts
<1>3. CASE Return(t)
  BY <1>3, ReturnFacts, ThreadTypes
<1> QED
  BY <1>2, <1>3

\* A step within the loop, at the same sink.
LEMMA SinkTypes ==
    ASSUME TypesInv, NEW t \in Threads, pc[t] # "idle",
           NEW step \in {"format", "newline", "write"},
           pc' = [pc EXCEPT ![t] = step],
           step = "newline" => At(t) \in Consoles,
           step = "write" => At(t) \notin Consoles,
           UNCHANGED <<level_, msg, idx, formatter_, raced, encryped_buf_, cache,
                       calls, failures, accepted>>,
           held' \in [Threads -> Kinds \cup {"none"}],
           IsSeq(stdout')
    PROVE  TypesInv'
<1>1. Moves(t, step, idx[t]) /\ idx[t] # 0
  BY AtFacts DEF TypesInv, TypeOK, Moves, Steps
<1>2. /\ IsFun(msg, Threads)
      /\ raced \subseteq Threads
      /\ failures \in 0..MaxFailures
      /\ IsFun(encryped_buf_, SinkSet)
      /\ \A s \in SinkSet : Len(encryped_buf_[s]) <= 1
      /\ IsFun(cache, SinkSet)
      /\ \A s \in SinkSet : IsSeq(cache[s]) /\ (s \in Consoles => cache[s] = <<>>)
  BY DEF TypesInv, TypeOK
<1> QED
  BY <1>1, <1>2, ThreadTypes

LEMMA TypesStep == TypesInv /\ [Next]_vars => TypesInv'
<1> SUFFICES ASSUME TypesInv, [Next]_vars PROVE TypesInv'
  OBVIOUS
<1>1. /\ IsSeq(stdout) /\ failures \in 0..MaxFailures
      /\ IsFun(encryped_buf_, SinkSet)
      /\ \A s \in SinkSet : Len(encryped_buf_[s]) <= 1
      /\ IsFun(cache, SinkSet)
      /\ \A s \in SinkSet : IsSeq(cache[s]) /\ (s \in Consoles => cache[s] = <<>>)
  BY DEF TypesInv, TypeOK
<1>2. CASE SetLevel
  <2>1. /\ level_' \in 0..6
        /\ UNCHANGED <<pc, msg, idx, held, encryped_buf_, cache, stdout,
                       formatter_, calls, failures, accepted, raced>>
    BY <1>2, PipelineAssumption DEF SetLevel, thread, codec, output
  <2> QED
    BY <2>1 DEF TypesInv, TypeOK, At
<1>3. CASE SetForMatter
  <2>1. /\ UNCHANGED <<level_, pc, msg, idx, held, encryped_buf_, cache, stdout,
                       calls, failures, accepted>>
        /\ raced' \subseteq Threads
        /\ formatter_' \in [SinkSet -> Kinds]
    BY <1>3 DEF SetForMatter, handle, thread, codec, output, TypesInv, TypeOK
  <2> QED
    BY <2>1 DEF TypesInv, TypeOK, At
<1>4. ASSUME NEW t \in Threads, Log(t) PROVE TypesInv'
  <2>1. /\ UNCHANGED <<level_, held, encryped_buf_, cache, stdout, formatter_,
                       failures, raced>>
        /\ calls' = calls + 1 /\ pc[t] = "idle"
        /\ calls + 1 \in 0..MaxCalls /\ calls \in Nat
    BY <1>4, PipelineAssumption DEF Log, handle, codec, output, TypesInv, TypeOK
  <2>2. PICK m \in Messages :
          /\ accepted' = IF m.level >= level_ THEN accepted \cup {calls + 1}
                                              ELSE accepted
          /\ IF ShouldLog(m.level)
             THEN /\ msg' = [msg EXCEPT ![t] =
                                [level |-> m.level, path |-> m.path, line |-> m.line,
                                 func |-> m.func, message |-> m.message,
                                 tid |-> t, n |-> calls + 1]]
                  /\ idx' = [idx EXCEPT ![t] = 1]
                  /\ pc' = [pc EXCEPT ![t] = "sink"]
             ELSE UNCHANGED <<msg, idx, pc>>
    BY <1>4, <2>1 DEF Log
  <2>3. /\ accepted' \subseteq 1..(calls + 1) /\ accepted \subseteq accepted'
        /\ \A u \in Threads : msg[u].n \in 0..(calls + 1)
    BY <2>1, <2>2 DEF TypesInv, TypeOK
  <2>4. CASE ShouldLog(m.level)
    <3>1. /\ IsFun(msg', Threads)
          /\ msg'[t].n = calls + 1 /\ msg'[t].tid = t
          /\ \A u \in Threads : u # t => msg'[u] = msg[u]
      <4> DEFINE v == [level |-> m.level, path |-> m.path, line |-> m.line,
                       func |-> m.func, message |-> m.message,
                       tid |-> t, n |-> calls + 1]
      <4>1. IsFun(msg, Threads) /\ msg' = [msg EXCEPT ![t] = v]
        BY <2>2, <2>4 DEF TypesInv
      <4>2. v.n = calls + 1 /\ v.tid = t
        OBVIOUS
      <4> HIDE DEF v
      <4> QED
        BY <4>1, <4>2 DEF IsFun
    <3>2. Len(Sinks) \in Nat /\ 1 \in 0..Len(Sinks)
      BY <2>4, PipelineAssumption DEF ShouldLog
    <3>3. /\ pc' \in [Threads -> Steps] /\ pc'[t] = "sink"
          /\ idx' \in [Threads -> 0..Len(Sinks)] /\ idx'[t] = 1
          /\ \A u \in Threads : u # t => pc'[u] = pc[u] /\ idx'[u] = idx[u]
      BY <2>2, <2>4, <3>2 DEF TypesInv, TypeOK, Steps
    <3>4. calls + 1 \in accepted'
      BY <2>2, <2>4 DEF ShouldLog
    <3>5. TypeOK'
      <4>1. \A u \in Threads : msg'[u].n \in 0..(calls + 1)
        BY <2>1, <2>3, <3>1
      <4>2. \A u \in Threads : idx'[u] = 0 <=> pc'[u] = "idle"
        BY <3>3 DEF TypesInv, TypeOK
      <4>3. accepted' \subseteq 1..calls'
        BY <2>1, <2>3
      <4> QED
        BY <2>1, <3>3, <4>1, <4>2, <4>3 DEF TypesInv, TypeOK, Steps
    <3>6. \A u \in Threads : pc'[u] # "idle" =>
              msg'[u].n > 0 /\ msg'[u].n \in accepted' /\ msg'[u].tid = u
      BY <2>1, <2>3, <3>1, <3>3, <3>4 DEF TypesInv
    <3>7. \A u \in Threads : /\ pc'[u] = "idle" => msg'[u].n = 0
                             /\ pc'[u] = "newline" => At(u)' \in Consoles
                             /\ pc'[u] = "write" => At(u)' \notin Consoles
      BY <3>1, <3>3 DEF TypesInv, At
    <3> QED
      BY <2>1, <3>1, <3>5, <3>6, <3>7 DEF TypesInv
  <2>5. CASE ~ShouldLog(m.level)
    <3>1. msg' = msg /\ idx' = idx /\ pc' = pc
      BY <2>2, <2>5
    <3>2. TypeOK'
      BY <2>1, <2>3, <3>1 DEF TypesInv, TypeOK
    <3> QED
      BY <2>1, <2>3, <3>1, <3>2 DEF TypesInv, At
  <2> QED
    BY <2>4, <2>5
<1>5. ASSUME NEW t \in Threads, LoadFormatter(t) PROVE TypesInv'
  <2>1. /\ pc[t] # "idle" /\ pc' = [pc EXCEPT ![t] = "format"]
        /\ UNCHANGED <<level_, msg, idx, formatter_, raced, encryped_buf_, cache,
                       stdout, calls, failures, accepted>>
        /\ held' = [held EXCEPT ![t] = formatter_[At(t)]]
    BY <1>5 DEF LoadFormatter, handle, codec, output
  <2>2. held' \in [Threads -> Kinds \cup {"none"}]
    BY <2>1, AtFacts DEF TypesInv, TypeOK
  <2> QED
    BY <1>1, <2>1, <2>2, SinkTypes
<1>6. ASSUME NEW t \in Threads, ConsoleText(t) PROVE TypesInv'
  <2>1. /\ pc[t] # "idle" /\ pc' = [pc EXCEPT ![t] = "newline"]
        /\ At(t) \in Consoles
        /\ UNCHANGED <<level_, msg, idx, held, formatter_, raced, encryped_buf_,
                       cache, calls, failures, accepted>>
        /\ \E e : stdout' = Append(stdout, e)
    BY <1>6 DEF ConsoleText, handle, codec
  <2>2. IsSeq(stdout') /\ held \in [Threads -> Kinds \cup {"none"}]
    BY <1>1, <2>1, AppendFacts DEF TypesInv, TypeOK
  <2> QED
    BY <2>1, <2>2, SinkTypes
<1>7. ASSUME NEW t \in Threads, FormatItem(t) PROVE TypesInv'
  <2>1. /\ pc[t] # "idle" /\ pc' = [pc EXCEPT ![t] = "write"]
        /\ At(t) \notin Consoles
        /\ UNCHANGED <<level_, msg, idx, held, formatter_, raced, encryped_buf_,
                       cache, stdout, calls, failures, accepted>>
    BY <1>7 DEF FormatItem, handle, output
  <2>2. held \in [Threads -> Kinds \cup {"none"}]
    BY DEF TypesInv, TypeOK
  <2> QED
    BY <1>1, <2>1, <2>2, SinkTypes
<1>8. ASSUME NEW t \in Threads, ConsoleNewline(t) PROVE TypesInv'
  <2>1. /\ pc[t] # "idle" /\ NextSink(t)
        /\ UNCHANGED <<level_, formatter_, encryped_buf_, cache, calls, failures,
                       accepted>>
        /\ \E e : stdout' = Append(stdout, e)
    BY <1>8 DEF ConsoleNewline, handle, codec
  <2>2. IsSeq(stdout')
    BY <1>1, <2>1, AppendFacts
  <2> QED
    BY <1>1, <2>1, <2>2, LoopTypes
<1>9. ASSUME NEW t \in Threads, WriteItem(t) PROVE TypesInv'
  <2>1. /\ pc[t] # "idle" /\ NextSink(t) /\ At(t) \notin Consoles
        /\ UNCHANGED <<level_, formatter_, stdout, calls, failures, accepted>>
    BY <1>9 DEF WriteItem, handle, TypesInv
  <2>2. PICK f, e : /\ encryped_buf_' = [encryped_buf_ EXCEPT ![At(t)] = Append(<<>>, f)]
                    /\ cache' = [cache EXCEPT ![At(t)] = Append(cache[At(t)], e)]
    BY <1>9 DEF WriteItem, EncryptItem, Encrypt
  <2>3. Len(Append(<<>>, f)) = 1
    BY EmptyIsSeq, AppendFacts
  <2>4. /\ IsFun(encryped_buf_', SinkSet)
        /\ \A s \in SinkSet : Len(encryped_buf_'[s]) <= 1
    <3>1. IsFun(encryped_buf_, SinkSet) /\ At(t) \in SinkSet
      BY <1>1, <2>1, AtFacts
    <3>2. PICK x : /\ encryped_buf_' = [encryped_buf_ EXCEPT ![At(t)] = x]
                   /\ Len(x) = 1
      BY <2>2, <2>3
    <3>3. \A s \in SinkSet : Len(encryped_buf_[s]) <= 1
      BY <1>1
    <3>4. IsFun(encryped_buf_', SinkSet)
      BY <3>1, <3>2 DEF IsFun
    <3>5. /\ encryped_buf_'[At(t)] = x
          /\ \A s \in SinkSet : s # At(t) => encryped_buf_'[s] = encryped_buf_[s]
      BY <3>1, <3>2 DEF IsFun
    <3>6. Len(x) <= 1
      BY <3>2
    <3> QED
      BY <3>3, <3>4, <3>5, <3>6
  <2>5. At(t) \in SinkSet /\ IsSeq(Append(cache[At(t)], e))
    BY <1>1, <2>1, AtFacts, AppendFacts
  <2>6. /\ IsFun(cache', SinkSet)
        /\ \A s \in SinkSet : IsSeq(cache'[s]) /\ (s \in Consoles => cache'[s] = <<>>)
    <3>1. IsFun(cache, SinkSet)
      BY <1>1
    <3>2. \A s \in SinkSet : s # At(t) => cache'[s] = cache[s]
      BY <2>2, <3>1 DEF IsFun
    <3>3. cache'[At(t)] = Append(cache[At(t)], e) /\ IsFun(cache', SinkSet)
      BY <2>2, <2>5, <3>1 DEF IsFun
    <3> QED
      BY <1>1, <2>1, <2>5, <3>2, <3>3
  <2> QED
    BY <1>1, <2>1, <2>4, <2>6, LoopTypes
<1>10. ASSUME NEW t \in Threads, CompressFails(t) PROVE TypesInv'
  <2>1. /\ pc[t] # "idle" /\ NextSink(t)
        /\ UNCHANGED <<level_, formatter_, encryped_buf_, cache, stdout, calls,
                       accepted>>
        /\ failures' \in 0..MaxFailures
    BY <1>1, <1>10, PipelineAssumption DEF CompressFails, Fails, handle, output
  <2> QED
    BY <1>1, <2>1, LoopTypes
<1>11. ASSUME NEW t \in Threads, WriteThrows(t) PROVE TypesInv'
  <2>1. /\ pc[t] # "idle" /\ Return(t)
        /\ UNCHANGED <<level_, formatter_, cache, stdout, calls, accepted>>
        /\ failures' \in 0..MaxFailures
        /\ encryped_buf_' = [encryped_buf_ EXCEPT ![At(t)] = <<Torn>>]
    BY <1>1, <1>11, PipelineAssumption DEF WriteThrows, Fails, handle, output
  <2>2. Len(<<Torn>>) = 1
    OBVIOUS
  <2>3. /\ IsFun(encryped_buf_', SinkSet)
        /\ \A s \in SinkSet : Len(encryped_buf_'[s]) <= 1
    <3>1. IsFun(encryped_buf_, SinkSet) /\ At(t) \in SinkSet
      BY <1>1, <2>1, AtFacts
    <3> QED
      BY <1>1, <2>1, <2>2, <3>1 DEF IsFun
  <2> QED
    BY <1>1, <2>1, <2>3, LoopTypes
<1>12. CASE UNCHANGED vars
  BY <1>12 DEF vars, handle, thread, codec, output, TypesInv, TypeOK, At
<1> QED
  BY <1>2, <1>3, <1>4, <1>5, <1>6, <1>7, <1>8, <1>9, <1>10, <1>11, <1>12 DEF Next

LEMMA TypesAlways == Spec => []TypesInv
  BY TypesInit, TypesStep, PTL DEF Spec

-----------------------------------------------------------------------------
(* LinesInv. *)

LEMMA LinesInit == Init => LinesInv
<1> SUFFICES ASSUME Init PROVE LinesInv
  OBVIOUS
<1>1. stdout = <<>> /\ Len(stdout) = 0
  BY EmptyIsSeq DEF Init
<1>2. \A i \in 1..Len(stdout) : FALSE
  BY <1>1
<1>3. Newlines = {} /\ Printing = {}
  BY <1>2 DEF Newlines, Printing, Init
<1>4. TextsApart
  BY <1>2 DEF TextsApart
<1> QED
  BY <1>1, <1>2, <1>3, <1>4, FS_EmptySet DEF LinesInv

\* The newlines written so far are finitely many.
LEMMA NewlinesFinite == TypesInv => IsFiniteSet(Newlines)
<1> SUFFICES ASSUME TypesInv PROVE IsFiniteSet(Newlines)
  OBVIOUS
<1>1. Len(stdout) \in Int
  BY DEF TypesInv, IsSeq
<1>2. IsFiniteSet(1..Len(stdout))
  BY <1>1, FS_Interval
<1>3. Newlines \subseteq 1..Len(stdout)
  BY DEF Newlines
<1> QED
  BY <1>2, <1>3, FS_Subset

\* Steps that write nothing to stdout.
LEMMA LinesSame ==
    ASSUME LinesInv, stdout' = stdout,
           \A u \in Threads : pc'[u] = "newline" <=> pc[u] = "newline"
    PROVE  LinesInv'
<1>1. Printing' = Printing /\ Newlines' = Newlines /\ (TextsApart' <=> TextsApart)
  BY DEF Printing, Newlines, TextsApart
<1>2. \A t, i : NewlineFollows(t, i)' <=> NewlineFollows(t, i)
  BY DEF NewlineFollows
<1>3. \A i \in 1..Len(stdout') : stdout'[i].n # 0 =>
          \/ NewlineFollows(stdout[i].by, i)'
          \/ pc'[stdout'[i].by] = "newline"
  BY <1>2 DEF LinesInv, NewlineFollows
<1> QED
  BY <1>1, <1>3 DEF LinesInv

\* A text, behind the newlines of all earlier ones of the thread.
LEMMA TextKeeps ==
    ASSUME TypesInv, LinesInv, NEW t \in Threads, ConsoleText(t)
    PROVE  LinesInv'
<1> DEFINE L == Len(stdout)
<1>1. PICK text : stdout' = Append(stdout, [by |-> t, n |-> msg[t].n, text |-> text])
  BY DEF ConsoleText
<1>2. pc[t] = "format" /\ pc' = [pc EXCEPT ![t] = "newline"]
  BY DEF ConsoleText
<1>3. /\ pc'[t] = "newline"
      /\ \A u \in Threads : u # t => pc'[u] = pc[u]
  BY <1>2 DEF TypesInv, TypeOK
<1>4. msg[t].n \in Nat /\ msg[t].n # 0
  BY <1>2, PipelineAssumption DEF TypesInv, TypeOK
<1>5. /\ L \in Nat /\ Len(stdout') = L + 1
      /\ \A i \in 1..L : stdout'[i] = stdout[i]
      /\ stdout'[L + 1].by = t /\ stdout'[L + 1].n = msg[t].n
      /\ \A i \in 1..(L + 1) : i \in 1..L \/ i = L + 1
      /\ 1..L \subseteq 1..(L + 1)
  <2>1. IsSeq(stdout) /\ L \in Nat
    BY DEF TypesInv, IsSeq
  <2> QED
    BY <1>1, <2>1, AppendFacts
<1> HIDE DEF L
<1>6. \A i \in 1..(L + 1) : stdout'[i].by \in Threads /\ stdout'[i].n \in Nat
  BY <1>4, <1>5 DEF LinesInv, L
<1>7. ASSUME NEW i \in 1..L, stdout[i].n # 0, pc[stdout[i].by] # "newline"
      PROVE  \E k \in 1..L : k > i /\ stdout[k].by = stdout[i].by /\ stdout[k].n = 0
  BY <1>7 DEF LinesInv, NewlineFollows, L
<1>8. \A i \in 1..(L + 1) : stdout'[i].n # 0 =>
          \/ \E k \in 1..(L + 1) :
                k > i /\ stdout'[k].by = stdout'[i].by /\ stdout'[k].n = 0
          \/ pc'[stdout'[i].by] = "newline"
  <2> SUFFICES ASSUME NEW i \in 1..(L + 1), stdout'[i].n # 0,
                      pc'[stdout'[i].by] # "newline"
               PROVE  \E k \in 1..(L + 1) :
                        k > i /\ stdout'[k].by = stdout'[i].by /\ stdout'[k].n = 0
    OBVIOUS
  <2>1. i \in 1..L /\ stdout[i].by # t
    BY <1>3, <1>5
  <2>2. pc[stdout[i].by] # "newline"
    BY <1>3, <1>5, <1>6, <2>1
  <2>3. PICK k \in 1..L : k > i /\ stdout[k].by = stdout[i].by /\ stdout[k].n = 0
    BY <1>5, <1>7, <2>1, <2>2
  <2> QED
    BY <1>5, <2>1, <2>3
<1>9. TextsApart'
  <2> SUFFICES ASSUME NEW i \in 1..(L + 1), NEW j \in 1..(L + 1),
                      i < j, stdout'[i].by = stdout'[j].by,
                      stdout'[i].n # 0, stdout'[j].n # 0
               PROVE  \E k \in i..j : stdout'[k].n = 0 /\ stdout'[k].by = stdout'[i].by
    BY <1>5 DEF TextsApart
  <2>1. i \in 1..L
    BY <1>5
  <2>2. CASE j \in 1..L
    <3>1. PICK k \in i..j : stdout[k].n = 0 /\ stdout[k].by = stdout[i].by
      BY <1>5, <2>1, <2>2 DEF LinesInv, TextsApart, L
    <3>2. k \in 1..L
      BY <1>5, <2>1, <2>2
    <3> QED
      BY <1>5, <2>1, <3>1, <3>2
  <2>3. CASE j = L + 1
    <3>1. pc[stdout[i].by] # "newline" /\ stdout[i].n # 0
      BY <1>2, <1>5, <2>1, <2>3
    <3>2. PICK k \in 1..L : k > i /\ stdout[k].by = stdout[i].by /\ stdout[k].n = 0
      BY <1>7, <2>1, <3>1
    <3>3. k \in i..j
      BY <1>5, <2>3, <3>2
    <3> QED
      BY <1>5, <2>1, <3>2, <3>3
  <2> QED
    BY <1>5, <2>2, <2>3
<1>10. Newlines' = Newlines
  <2>1. \A i \in 1..(L + 1) : stdout'[i].n = 0 <=> i \in 1..L /\ stdout[i].n = 0
    BY <1>4, <1>5
  <2> QED
    BY <1>5, <2>1 DEF Newlines, L
<1>11. Printing' = Printing \cup {t} /\ t \notin Printing
  BY <1>2, <1>3 DEF Printing
<1>12. /\ IsFiniteSet(Printing')
       /\ Cardinality(Printing') = Cardinality(Printing) + 1
       /\ Cardinality(Printing) \in Nat /\ Cardinality(Newlines) \in Nat
  BY <1>11, FS_AddElement, FS_CardinalityType, NewlinesFinite DEF LinesInv
<1>13. L = 2 * Cardinality(Newlines) + Cardinality(Printing)
  BY DEF LinesInv, L
<1>14. L + 1 = 2 * Cardinality(Newlines) + (Cardinality(Printing) + 1)
  BY <1>5, <1>12, <1>13
<1>15. Len(stdout') = 2 * Cardinality(Newlines') + Cardinality(Printing')
  BY <1>5, <1>10, <1>12, <1>14
<1> QED
  BY <1>5, <1>6, <1>8, <1>9, <1>12, <1>15 DEF LinesInv, NewlineFollows

\* The newline of a text.
LEMMA NewlineKeeps ==
    ASSUME TypesInv, LinesInv, NEW t \in Threads, ConsoleNewline(t)
    PROVE  LinesInv'
<1> DEFINE L == Len(stdout)
<1>1. stdout' = Append(stdout, [by |-> t, n |-> 0, text |-> <<>>])
  BY DEF ConsoleNewline
<1>2. pc[t] = "newline"
  BY DEF ConsoleNewline
<1>3. /\ pc'[t] # "newline"
      /\ \A u \in Threads : u # t => pc'[u] = pc[u]
  BY <1>2, NextSinkFacts DEF ConsoleNewline, Moves
<1>4. /\ L \in Nat /\ Len(stdout') = L + 1
      /\ \A i \in 1..L : stdout'[i] = stdout[i]
      /\ stdout'[L + 1].by = t /\ stdout'[L + 1].n = 0
      /\ \A i \in 1..(L + 1) : i \in 1..L \/ i = L + 1
      /\ 1..L \subseteq 1..(L + 1) /\ L + 1 \in 1..(L + 1)
  <2>1. IsSeq(stdout) /\ L \in Nat
    BY DEF TypesInv, IsSeq
  <2> QED
    BY <1>1, <2>1, AppendFacts
<1> HIDE DEF L
<1>5. \A i \in 1..(L + 1) : stdout'[i].by \in Threads /\ stdout'[i].n \in Nat
  BY <1>4 DEF LinesInv, L
<1>6. \A i \in 1..(L + 1) : stdout'[i].n # 0 =>
          \/ \E k \in 1..(L + 1) :
                k > i /\ stdout'[k].by = stdout'[i].by /\ stdout'[k].n = 0
          \/ pc'[stdout'[i].by] = "newline"
  <2> SUFFICES ASSUME NEW i \in 1..(L + 1), stdout'[i].n # 0
               PROVE  \/ \E k \in 1..(L + 1) : /\ k > i /\ stdout'[k].n = 0
                                               /\ stdout'[k].by = stdout'[i].by
                      \/ pc'[stdout'[i].by] = "newline"
    OBVIOUS
  <2>1. i \in 1..L /\ stdout'[i] = stdout[i] /\ stdout[i].by \in Threads
    BY <1>4 DEF LinesInv, L
  <2>2. CASE stdout[i].by = t
    BY <1>4, <2>1, <2>2
  <2>3. CASE stdout[i].by # t /\ pc[stdout[i].by] = "newline"
    BY <1>3, <2>1, <2>3
  <2>4. CASE pc[stdout[i].by] # "newline"
    <3>1. PICK k \in 1..L : k > i /\ stdout[k].by = stdout[i].by /\ stdout[k].n = 0
      BY <2>1, <2>4 DEF LinesInv, NewlineFollows, L
    <3> QED
      BY <1>4, <2>1, <3>1
  <2> QED
    BY <2>2, <2>3, <2>4
<1>7. TextsApart'
  <2> SUFFICES ASSUME NEW i \in 1..(L + 1), NEW j \in 1..(L + 1),
                      i < j, stdout'[i].by = stdout'[j].by,
                      stdout'[i].n # 0, stdout'[j].n # 0
               PROVE  \E k \in i..j : stdout'[k].n = 0 /\ stdout'[k].by = stdout'[i].by
    BY <1>4 DEF TextsApart
  <2>1. i \in 1..L /\ j \in 1..L
    BY <1>4
  <2>2. PICK k \in i..j : stdout[k].n = 0 /\ stdout[k].by = stdout[i].by
    BY <1>4, <2>1 DEF LinesInv, TextsApart, L
  <2>3. k \in 1..L
    BY <1>4, <2>1
  <2> QED
    BY <1>4, <2>1, <2>2, <2>3
<1>8. Newlines' = Newlines \cup {L + 1} /\ L + 1 \notin Newlines
  <2>1. \A i \in 1..(L + 1) :
            stdout'[i].n = 0 <=> (i \in 1..L /\ stdout[i].n = 0) \/ i = L + 1
    BY <1>4
  <2>2. L + 1 \notin 1..L
    BY <1>4
  <2> QED
    BY <1>4, <2>1, <2>2 DEF Newlines, L
<1>9. Printing' = Printing \ {t} /\ t \in Printing
  BY <1>2, <1>3 DEF Printing
<1>10. /\ IsFiniteSet(Printing')
       /\ Cardinality(Printing') = Cardinality(Printing) - 1
       /\ Cardinality(Printing) \in Nat
  BY <1>9, FS_RemoveElement, FS_CardinalityType DEF LinesInv
<1>11. /\ Cardinality(Newlines') = Cardinality(Newlines) + 1
       /\ Cardinality(Newlines) \in Nat
  BY <1>8, FS_AddElement, FS_CardinalityType, NewlinesFinite
<1>12. L = 2 * Cardinality(Newlines) + Cardinality(Printing)
  BY DEF LinesInv, L
<1>13. L + 1 = 2 * (Cardinality(Newlines) + 1) + (Cardinality(Printing) - 1)
  BY <1>4, <1>10, <1>11, <1>12
<1>14. Len(stdout') = 2 * Cardinality(Newlines') + Cardinality(Printing')
  BY <1>4, <1>10, <1>11, <1>13
<1> QED
  BY <1>4, <1>5, <1>6, <1>7, <1>10, <1>14 DEF LinesInv, NewlineFollows

LEMMA LinesStep == TypesInv /\ LinesInv /\ [Next]_vars => LinesInv'
<1> SUFFICES ASSUME TypesInv, LinesInv, [Next]_vars PROVE LinesInv'
  OBVIOUS
<1>1. ASSUME NEW t \in Threads, pc[t] # "newline", pc[t] # "idle",
             NextSink(t) \/ Return(t), stdout' = stdout
      PROVE  LinesInv'
  <2>1. \A u \in Threads : pc'[u] = "newline" <=> pc[u] = "newline"
    BY <1>1, NextSinkFacts, ReturnFacts DEF Moves
  <2> QED
    BY <1>1, <2>1, LinesSame
<1>2. ASSUME NEW t \in Threads, pc[t] # "newline", stdout' = stdout,
             NEW step, step # "newline", pc' = [pc EXCEPT ![t] = step]
      PROVE  LinesInv'
  <2>1. \A u \in Threads : pc'[u] = "newline" <=> pc[u] = "newline"
    BY <1>2 DEF TypesInv, TypeOK
  <2> QED
    BY <1>2, <2>1, LinesSame
<1>3. CASE SetLevel
  BY <1>3, LinesSame DEF SetLevel, thread, output
<1>4. CASE SetForMatter
  BY <1>4, LinesSame DEF SetForMatter, thread, output
<1>5. ASSUME NEW t \in Threads, Log(t) PROVE LinesInv'
  <2>1. /\ pc[t] = "idle" /\ stdout' = stdout
        /\ pc' = pc \/ pc' = [pc EXCEPT ![t] = "sink"]
    BY <1>5 DEF Log, output
  <2> QED
    BY <1>2, <2>1, LinesSame
<1>6. ASSUME NEW t \in Threads, LoadFormatter(t) PROVE LinesInv'
  BY <1>2, <1>6 DEF LoadFormatter, output
<1>7. ASSUME NEW t \in Threads, ConsoleText(t) PROVE LinesInv'
  BY <1>7, TextKeeps
<1>8. ASSUME NEW t \in Threads, ConsoleNewline(t) PROVE LinesInv'
  BY <1>8, NewlineKeeps
<1>9. ASSUME NEW t \in Threads, FormatItem(t) PROVE LinesInv'
  BY <1>2, <1>9 DEF FormatItem, output
<1>10. ASSUME NEW t \in Threads, WriteItem(t) PROVE LinesInv'
  BY <1>1, <1>10 DEF WriteItem
<1>11. ASSUME NEW t \in Threads, CompressFails(t) PROVE LinesInv'
  BY <1>1, <1>11 DEF CompressFails, output
<1>12. ASSUME NEW t \in Threads, WriteThrows(t) PROVE LinesInv'
  BY <1>1, <1>12 DEF WriteThrows, output
<1>13. CASE UNCHANGED vars
  BY <1>13, LinesSame DEF vars, thread, output
<1> QED
  BY <1>3, <1>4, <1>5, <1>6, <1>7, <1>8, <1>9, <1>10, <1>11, <1>12, <1>13 DEF Next

-----------------------------------------------------------------------------
(* What the sinks get. *)

LEMMA LenOf ==
    ASSUME NEW n \in Nat, NEW f, IsFun(f, 1..n) PROVE Len(f) = n /\ IsSeq(f)
<1> DEFINE T == {f[i] : i \in 1..n}
<1>1. \A i \in 1..n : f[i] \in T
  OBVIOUS
<1> HIDE DEF T
<1>2. f \in [1..n -> T]
  BY <1>1 DEF IsFun
<1>3. f \in Seq(T)
  BY <1>2, SeqDef
<1>4. Len(f) = n
  BY <1>2, <1>3
<1> QED
  BY <1>4 DEF IsSeq

\* What s got, an entry for each write.
LEMMA NumbersFacts ==
    ASSUME TypesInv, NEW s \in SinkSet
    PROVE  /\ IsSeq(Numbers(s))
           /\ Len(Numbers(s)) \in Nat
           /\ s \in Consoles =>
                  /\ Len(Numbers(s)) = Len(stdout)
                  /\ \A i \in 1..Len(stdout) :
                        Numbers(s)[i] = <<stdout[i].by, stdout[i].n>>
           /\ s \notin Consoles =>
                  /\ Len(Numbers(s)) = Len(cache[s])
                  /\ \A i \in 1..Len(cache[s]) :
                        Numbers(s)[i] = <<cache[s][i].msg.tid, cache[s][i].msg.n>>
<1>1. Len(stdout) \in Nat /\ Len(cache[s]) \in Nat
  BY DEF TypesInv, IsSeq
<1>2. CASE s \in Consoles
  <2>1. PICK n \in Nat : n = Len(stdout)
    BY <1>1
  <2>2. Numbers(s) = [i \in 1..n |-> <<stdout[i].by, stdout[i].n>>]
    BY <1>2, <2>1 DEF Numbers
  <2>3. IsFun(Numbers(s), 1..n)
    BY <2>2 DEF IsFun
  <2>4. Len(Numbers(s)) = n /\ IsSeq(Numbers(s))
    BY <2>3, LenOf
  <2> QED
    BY <1>2, <2>1, <2>2, <2>4
<1>3. CASE s \notin Consoles
  <2>1. PICK n \in Nat : n = Len(cache[s])
    BY <1>1
  <2>2. Numbers(s) = [i \in 1..n |-> <<cache[s][i].msg.tid, cache[s][i].msg.n>>]
    BY <1>3, <2>1 DEF Numbers
  <2>3. IsFun(Numbers(s), 1..n)
    BY <2>2 DEF IsFun
  <2>4. Len(Numbers(s)) = n /\ IsSeq(Numbers(s))
    BY <2>3, LenOf
  <2> QED
    BY <1>3, <2>1, <2>2, <2>4
<1> QED
  BY <1>2, <1>3

\* s got a text of the thread u, or a newline when n is 0.
Grows(s, u, n) ==
    LET L == Len(Numbers(s)) IN
    /\ L \in Nat
    /\ Len(Numbers(s)') = L + 1
    /\ \A i \in 1..L : Numbers(s)'[i] = Numbers(s)[i]
    /\ Numbers(s)'[L + 1] = <<u, n>>

LEMMA StdoutGrows ==
    ASSUME TypesInv, TypesInv', NEW s \in SinkSet, s \in Consoles,
           NEW u, NEW n, NEW e, stdout' = Append(stdout, e), e.by = u, e.n = n
    PROVE  Grows(s, u, n)
<1>1. /\ Len(stdout) \in Nat
      /\ Len(stdout') = Len(stdout) + 1
      /\ \A i \in 1..Len(stdout) : stdout'[i] = stdout[i]
      /\ stdout'[Len(stdout) + 1] = e
  BY AppendFacts DEF TypesInv, IsSeq
<1>2. /\ Len(Numbers(s)) = Len(stdout)
      /\ \A i \in 1..Len(stdout) : Numbers(s)[i] = <<stdout[i].by, stdout[i].n>>
  BY NumbersFacts
<1>3. Numbers(s)' = [i \in 1..Len(stdout') |-> <<stdout'[i].by, stdout'[i].n>>]
  BY DEF Numbers
<1>4. PICK m \in Nat : m = Len(stdout') /\ m = Len(stdout) + 1
  BY <1>1
<1>5. Numbers(s)' = [i \in 1..m |-> <<stdout'[i].by, stdout'[i].n>>]
  BY <1>3, <1>4
<1>6. Len(Numbers(s)') = m
  BY <1>5, LenOf DEF IsFun
<1>7. \A i \in 1..m : Numbers(s)'[i] = <<stdout'[i].by, stdout'[i].n>>
  BY <1>5
<1>8. m \in 1..m /\ 1..Len(stdout) \subseteq 1..m
  BY <1>1, <1>4
<1> QED
  BY <1>1, <1>2, <1>4, <1>6, <1>7, <1>8 DEF Grows

LEMMA CacheGrows ==
    ASSUME TypesInv, TypesInv', NEW s \in SinkSet, s \notin Consoles,
           NEW u, NEW n, NEW e, cache'[s] = Append(cache[s], e),
           e.msg.tid = u, e.msg.n = n
    PROVE  Grows(s, u, n)
<1>1. /\ Len(cache[s]) \in Nat
      /\ Len(cache'[s]) = Len(cache[s]) + 1
      /\ \A i \in 1..Len(cache[s]) : cache'[s][i] = cache[s][i]
      /\ cache'[s][Len(cache[s]) + 1] = e
  BY AppendFacts DEF TypesInv, IsSeq
<1>2. /\ Len(Numbers(s)) = Len(cache[s])
      /\ \A i \in 1..Len(cache[s]) :
            Numbers(s)[i] = <<cache[s][i].msg.tid, cache[s][i].msg.n>>
  BY NumbersFacts
<1>3. Numbers(s)' = [i \in 1..Len(cache'[s]) |->
                        <<cache'[s][i].msg.tid, cache'[s][i].msg.n>>]
  BY DEF Numbers
<1>4. PICK m \in Nat : m = Len(cache'[s]) /\ m = Len(cache[s]) + 1
  BY <1>1
<1>5. Numbers(s)' = [i \in 1..m |-> <<cache'[s][i].msg.tid, cache'[s][i].msg.n>>]
  BY <1>3, <1>4
<1>6. Len(Numbers(s)') = m
  BY <1>5, LenOf DEF IsFun
<1>7. \A i \in 1..m : Numbers(s)'[i] = <<cache'[s][i].msg.tid, cache'[s][i].msg.n>>
  BY <1>5
<1>8. m \in 1..m /\ 1..Len(cache[s]) \subseteq 1..m
  BY <1>1, <1>4
<1> QED
  BY <1>1, <1>2, <1>4, <1>6, <1>7, <1>8 DEF Grows

LEMMA NumbersSame ==
    ASSUME NEW s \in SinkSet, s \in Consoles => stdout' = stdout,
           s \notin Consoles => cache'[s] = cache[s]
    PROVE  /\ Numbers(s)' = Numbers(s) /\ Texts(s)' = Texts(s)
           /\ Seen(s)' = Seen(s)
<1>1. Numbers(s)' = Numbers(s)
  BY DEF Numbers
<1>2. Texts(s)' = Texts(s)
  BY <1>1 DEF Texts
<1> QED
  BY <1>1, <1>2 DEF Seen

LEMMA GrowsFacts ==
    ASSUME NEW s \in SinkSet, NEW u, NEW n \in Nat, Grows(s, u, n)
    PROVE  /\ n = 0 => Texts(s)' = Texts(s) /\ Seen(s)' = Seen(s)
           /\ n # 0 => /\ Texts(s)' = Texts(s) \cup {Len(Numbers(s)) + 1}
                       /\ Seen(s)' = Seen(s) \cup {n}
           /\ \A i \in Texts(s) : /\ i \in Nat /\ i < Len(Numbers(s)) + 1
                                  /\ Numbers(s)'[i] = Numbers(s)[i]
<1> DEFINE L == Len(Numbers(s))
<1>1. /\ L \in Nat
      /\ Len(Numbers(s)') = L + 1
      /\ \A i \in 1..L : Numbers(s)'[i] = Numbers(s)[i]
      /\ Numbers(s)'[L + 1] = <<u, n>>
  BY DEF Grows
<1>2. Texts(s)' = {i \in 1..(L + 1) : Numbers(s)'[i][2] # 0}
  BY <1>1 DEF Texts
<1>3. Texts(s) = {i \in 1..L : Numbers(s)[i][2] # 0}
  BY DEF Texts
<1>4. /\ Seen(s)' = {Numbers(s)'[i][2] : i \in Texts(s)'}
      /\ Seen(s) = {Numbers(s)[i][2] : i \in Texts(s)}
  BY DEF Seen
<1>5. Numbers(s)'[L + 1][2] = n
  BY <1>1
<1> HIDE DEF L
<1>6. \A i \in 1..(L + 1) : i \in 1..L \/ i = L + 1
  BY <1>1
<1>7. 1..L \subseteq 1..(L + 1) /\ L + 1 \in 1..(L + 1)
  BY <1>1
<1>8. n = 0 => Texts(s)' = Texts(s)
  BY <1>1, <1>2, <1>3, <1>5, <1>6, <1>7
<1>9. n # 0 => Texts(s)' = Texts(s) \cup {L + 1}
  BY <1>1, <1>2, <1>3, <1>5, <1>6, <1>7
<1>10. \A i \in Texts(s) : i \in Nat /\ i < L + 1 /\ Numbers(s)'[i] = Numbers(s)[i]
  BY <1>1, <1>3
<1>11. n = 0 => Seen(s)' = Seen(s)
  BY <1>4, <1>8, <1>10
<1>12. n # 0 => Seen(s)' = Seen(s) \cup {n}
  BY <1>4, <1>5, <1>9, <1>10
<1> QED
  BY <1>8, <1>9, <1>10, <1>11, <1>12 DEF L

-----------------------------------------------------------------------------
(* OrderInv. *)

\* No sink is there twice, and one console at most, as they share stdout.
SinksApart ==
    \A i, j \in 1..Len(Sinks) :
        \/ Sinks[i] = Sinks[j]
        \/ Sinks[i] \in Consoles /\ Sinks[j] \in Consoles
        => i = j

\* The call of u, if it goes on, is as far as it was with s, or further.
Kept(u, s) ==
    pc'[u] # "idle" => /\ pc[u] # "idle"
                       /\ msg'[u].n = msg[u].n
                       /\ Past(u, s) => Past(u, s)'

LEMMA OrderSame ==
    ASSUME TypesInv, NEW s \in SinkSet, OrderAt(s), accepted \subseteq accepted',
           Texts(s)' = Texts(s),
           \A i \in Texts(s) : Numbers(s)'[i] = Numbers(s)[i],
           \A u \in Threads :
              \/ Kept(u, s)
              \/ \A n \in accepted : n < msg'[u].n
    PROVE  OrderAt(s)'
<1>1. \A i \in Texts(s) : Numbers(s)'[i][2] \in accepted'
  BY DEF OrderAt
<1>2. \A i, j \in Texts(s) :
          i < j /\ Numbers(s)'[i][1] = Numbers(s)'[j][1] =>
              Numbers(s)'[i][2] < Numbers(s)'[j][2]
  BY DEF OrderAt
<1>3. ASSUME NEW i \in Texts(s), NEW t \in Threads, Numbers(s)'[i][1] = t,
             pc'[t] # "idle"
      PROVE  \/ Numbers(s)'[i][2] < msg'[t].n
             \/ Numbers(s)'[i][2] = msg'[t].n /\ Past(t, s)'
  <2>1. Numbers(s)[i][1] = t /\ Numbers(s)[i][2] \in accepted
    BY <1>3 DEF OrderAt
  <2>2. CASE Kept(t, s)
    <3>1. pc[t] # "idle" /\ msg'[t].n = msg[t].n /\ (Past(t, s) => Past(t, s)')
      BY <1>3, <2>2 DEF Kept
    <3>2. \/ Numbers(s)[i][2] < msg[t].n
          \/ Numbers(s)[i][2] = msg[t].n /\ Past(t, s)
      BY <2>1, <3>1 DEF OrderAt
    <3> QED
      BY <3>1, <3>2
  <2>3. CASE \A n \in accepted : n < msg'[t].n
    BY <2>1, <2>3
  <2> QED
    BY <2>2, <2>3
<1> QED
  BY <1>1, <1>2, <1>3 DEF OrderAt

\* The text of a call is the last of its thread.
LEMMA OrderGrows ==
    ASSUME TypesInv, NEW s \in SinkSet, OrderAt(s), accepted' = accepted,
           NEW t \in Threads, pc[t] # "idle", ~Past(t, s),
           Grows(s, t, msg[t].n),
           pc'[t] # "idle" => msg'[t].n = msg[t].n /\ Past(t, s)',
           \A u \in Threads : u # t => Kept(u, s)
    PROVE  OrderAt(s)'
<1>1. PICK n \in Nat : n = msg[t].n /\ n > 0 /\ n \in accepted
  BY PipelineAssumption DEF TypesInv, TypeOK
<1>2. PICK L \in Nat : L = Len(Numbers(s))
  BY DEF Grows
<1>3. /\ Texts(s)' = Texts(s) \cup {L + 1}
      /\ \A i \in Texts(s) : i \in Nat /\ i < L + 1 /\ Numbers(s)'[i] = Numbers(s)[i]
      /\ Numbers(s)'[L + 1][1] = t /\ Numbers(s)'[L + 1][2] = n
  <2>1. Grows(s, t, n)
    BY <1>1
  <2> QED
    BY <1>1, <1>2, <2>1, GrowsFacts DEF Grows
<1>4. \A i \in Texts(s)' : Numbers(s)'[i][2] \in accepted'
  BY <1>1, <1>3 DEF OrderAt
<1>5. ASSUME NEW i \in Texts(s)', NEW j \in Texts(s)', i < j,
             Numbers(s)'[i][1] = Numbers(s)'[j][1]
      PROVE  Numbers(s)'[i][2] < Numbers(s)'[j][2]
  <2>1. i \in Texts(s)
    BY <1>3, <1>5
  <2>2. CASE j \in Texts(s)
    BY <1>3, <1>5, <2>1, <2>2 DEF OrderAt
  <2>3. CASE j = L + 1
    <3>1. Numbers(s)[i][1] = t /\ Numbers(s)'[j][2] = n
      BY <1>3, <1>5, <2>1, <2>3
    <3>2. Numbers(s)[i][2] < msg[t].n
      BY <2>1, <3>1 DEF OrderAt
    <3> QED
      BY <1>1, <1>3, <2>1, <3>1, <3>2
  <2> QED
    BY <1>3, <2>2, <2>3
<1>6. ASSUME NEW i \in Texts(s)', NEW u \in Threads, Numbers(s)'[i][1] = u,
             pc'[u] # "idle"
      PROVE  \/ Numbers(s)'[i][2] < msg'[u].n
             \/ Numbers(s)'[i][2] = msg'[u].n /\ Past(u, s)'
  <2>1. CASE i = L + 1
    BY <1>1, <1>3, <1>6, <2>1
  <2>2. CASE i \in Texts(s) /\ u = t
    <3>1. Numbers(s)[i][2] < msg[t].n
      BY <1>3, <1>6, <2>2 DEF OrderAt
    <3> QED
      BY <1>3, <1>6, <2>2, <3>1
  <2>3. CASE i \in Texts(s) /\ u # t
    <3>1. pc[u] # "idle" /\ msg'[u].n = msg[u].n /\ (Past(u, s) => Past(u, s)')
      BY <1>6, <2>3 DEF Kept
    <3>2. \/ Numbers(s)[i][2] < msg[u].n
          \/ Numbers(s)[i][2] = msg[u].n /\ Past(u, s)
      BY <1>3, <1>6, <2>3, <3>1 DEF OrderAt
    <3> QED
      BY <1>3, <2>3, <3>1, <3>2
  <2> QED
    BY <1>3, <2>1, <2>2, <2>3
<1> QED
  BY <1>4, <1>5, <1>6 DEF OrderAt

\* A call gets no further from being done with a sink.
LEMMA KeptOthers ==
    ASSUME NEW t \in Threads, NEW step, NEW place, Moves(t, step, place),
           \A u \in Threads : u # t => msg'[u] = msg[u],
           NEW u \in Threads, u # t, NEW s
    PROVE  Kept(u, s) /\ (Past(u, s)' <=> Past(u, s))
BY DEF Kept, Moves, Past

LEMMA KeptSelf ==
    ASSUME TypesInv, NEW t \in Threads, pc[t] # "idle",
           NEW step, NEW place \in Nat, Moves(t, step, place),
           step # "idle" => msg'[t] = msg[t],
           step # "idle" => place > idx[t] \/ (place = idx[t] /\ pc[t] # "newline"),
           NEW s
    PROVE  Kept(t, s)
<1>1. CASE step = "idle"
  BY <1>1 DEF Kept, Moves
<1>2. CASE step # "idle"
  <2>1. pc'[t] = step /\ idx'[t] = place /\ msg'[t].n = msg[t].n
    BY <1>2 DEF Moves
  <2>2. idx[t] \in Nat
    BY AtFacts
  <2>3. ASSUME Past(t, s) PROVE Past(t, s)'
    <3>1. PICK j \in 1..Len(Sinks) :
              Sinks[j] = s /\ (j < idx[t] \/ (j = idx[t] /\ pc[t] = "newline"))
      BY <2>3 DEF Past
    <3>2. j \in Nat
      BY AtFacts
    <3>3. j < place
      BY <1>2, <2>2, <3>1, <3>2
    <3> QED
      BY <2>1, <3>1, <3>3 DEF Past
  <2> QED
    BY <2>1, <2>3 DEF Kept
<1> QED
  BY <1>1, <1>2

\* What NextSink and Return do to the calls.
LEMMA LoopKept ==
    ASSUME TypesInv, NEW t \in Threads, pc[t] # "idle", NextSink(t) \/ Return(t)
    PROVE  /\ \A u \in Threads, s \in SinkSet : Kept(u, s)
           /\ \A u \in Threads, s \in SinkSet :
                 u # t => (Past(u, s)' <=> Past(u, s)) /\ msg'[u] = msg[u]
           /\ \/ pc'[t] = "idle" /\ msg'[t].n = 0
              \/ /\ msg'[t] = msg[t] /\ NextSink(t)
                 /\ \A s \in SinkSet : s = At(t) => Past(t, s)'
<1>1. idx[t] \in Nat /\ idx[t] \in 1..Len(Sinks) /\ idx[t] + 1 \in Nat
  BY AtFacts
<1>2. CASE Moves(t, "idle", 0) /\ msg'[t].n = 0 /\ \A u \in Threads : u # t => msg'[u] = msg[u]
  <2>1. \A u \in Threads, s \in SinkSet :
            u # t => Kept(u, s) /\ (Past(u, s)' <=> Past(u, s))
    BY <1>2, KeptOthers
  <2>2. \A s \in SinkSet : Kept(t, s)
    BY <1>2, KeptSelf
  <2>3. pc'[t] = "idle"
    BY <1>2 DEF Moves
  <2> QED
    BY <1>2, <2>1, <2>2, <2>3
<1>3. CASE /\ Moves(t, "sink", idx[t] + 1) /\ msg'[t] = msg[t]
           /\ \A u \in Threads : u # t => msg'[u] = msg[u]
           /\ NextSink(t)
  <2>1. \A u \in Threads, s \in SinkSet :
            u # t => Kept(u, s) /\ (Past(u, s)' <=> Past(u, s))
    BY <1>3, KeptOthers
  <2>2. \A s \in SinkSet : Kept(t, s)
    BY <1>1, <1>3, KeptSelf
  <2>3. ASSUME NEW s \in SinkSet, s = At(t) PROVE Past(t, s)'
    <3>1. idx'[t] = idx[t] + 1 /\ idx[t] < idx[t] + 1
      BY <1>1, <1>3 DEF Moves
    <3>2. Sinks[idx[t]] = s
      BY <2>3 DEF At
    <3> QED
      BY <1>1, <3>1, <3>2 DEF Past
  <2> QED
    BY <1>3, <2>1, <2>2, <2>3
<1> QED
  BY <1>2, <1>3, NextSinkFacts, ReturnFacts

\* What a step within the loop does to the calls.
LEMMA SinkKept ==
    ASSUME TypesInv, NEW t \in Threads, pc[t] # "idle", pc[t] # "newline",
           NEW step, step # "idle", pc' = [pc EXCEPT ![t] = step], UNCHANGED <<msg, idx>>
    PROVE  /\ \A u \in Threads, s \in SinkSet : Kept(u, s)
           /\ \A u \in Threads, s \in SinkSet :
                 u # t \/ step # "newline" => (Past(u, s)' <=> Past(u, s))
           /\ \A s \in SinkSet : step = "newline" /\ s = At(t) => Past(t, s)'
<1>1. /\ \A u \in Threads : u # t => pc'[u] = pc[u]
      /\ pc'[t] = step
  BY DEF TypesInv, TypeOK
<1>2. \A u \in Threads, s \in SinkSet :
          u # t \/ step # "newline" => (Past(u, s)' <=> Past(u, s))
  BY <1>1 DEF Past
<1>3. \A s \in SinkSet : Past(t, s) => Past(t, s)'
  BY <1>1 DEF Past
<1>4. \A s \in SinkSet : step = "newline" /\ s = At(t) => Past(t, s)'
  BY <1>1, AtFacts DEF Past, At
<1> QED
  BY <1>1, <1>2, <1>3, <1>4 DEF Kept

\* What does not disturb the calls and what the sinks got.
LEMMA OrderRests ==
    ASSUME TypesInv, OrderInv, accepted' = accepted,
           \A u \in Threads, s \in SinkSet : Kept(u, s),
           UNCHANGED output
    PROVE  OrderInv'
<1> SUFFICES ASSUME NEW s \in SinkSet PROVE OrderAt(s)'
  BY DEF OrderInv
<1>1. /\ Texts(s)' = Texts(s)
      /\ Numbers(s)' = Numbers(s)
  BY NumbersSame DEF output
<1> QED
  BY <1>1, OrderSame DEF OrderInv

LEMMA OrderInit == Init => OrderInv
<1> SUFFICES ASSUME Init, NEW s \in SinkSet PROVE OrderAt(s)
  BY DEF OrderInv
<1>1. TypesInv
  BY TypesInit
<1>2. Len(Numbers(s)) = 0
  <2>1. Len(stdout) = 0 /\ Len(cache[s]) = 0
    BY EmptyIsSeq DEF Init
  <2> QED
    BY <1>1, <2>1, NumbersFacts
<1>3. Texts(s) = {}
  BY <1>2 DEF Texts
<1> QED
  BY <1>3 DEF OrderAt

\* A thread at a sink is not past it, as no sink is there twice.
LEMMA NotPast ==
    ASSUME TypesInv, SinksApart, NEW t \in Threads, pc[t] # "idle",
           pc[t] # "newline"
    PROVE  ~Past(t, At(t))
<1>1. idx[t] \in 1..Len(Sinks) /\ At(t) = Sinks[idx[t]] /\ Len(Sinks) \in Nat
  BY AtFacts
<1> SUFFICES ASSUME NEW j \in 1..Len(Sinks), Sinks[j] = Sinks[idx[t]],
                    j < idx[t] \/ (j = idx[t] /\ pc[t] = "newline")
             PROVE  FALSE
  BY <1>1 DEF Past
<1>2. j = idx[t]
  BY <1>1 DEF SinksApart
<1> QED
  BY <1>1, <1>2

LEMMA OneConsole ==
    ASSUME TypesInv, SinksApart, NEW t \in Threads, pc[t] # "idle",
           At(t) \in Consoles, NEW s \in SinkSet, s \in Consoles
    PROVE  s = At(t)
<1>1. PICK i \in 1..Len(Sinks) : s = Sinks[i]
  BY DEF SinkSet
<1>2. idx[t] \in 1..Len(Sinks) /\ At(t) = Sinks[idx[t]]
  BY AtFacts
<1>3. i = idx[t]
  BY <1>1, <1>2 DEF SinksApart
<1> QED
  BY <1>1, <1>2, <1>3

\* WriteItem pushes an item of the thread's message.
LEMMA WritesMessage ==
    ASSUME NEW t \in Threads, WriteItem(t)
    PROVE  \E e : /\ cache' = [cache EXCEPT ![At(t)] = Append(cache[At(t)], e)]
                  /\ e.msg = msg[t]
<1> DEFINE item == [msg |-> msg[t], kind |-> held[t], raced |-> t \in raced,
                    cipher |-> EncryptItem(Compress(stream[At(t)], buf[t]),
                                           encryped_buf_[At(t)])]
<1>1. cache' = [cache EXCEPT ![At(t)] = Append(cache[At(t)], item)]
  BY Zenon DEF WriteItem
<1>2. item.msg = msg[t]
  BY Zenon
<1> HIDE DEF item
<1> QED
  BY <1>1, <1>2

LEMMA OrderStep == SinksApart /\ TypesInv /\ OrderInv /\ [Next]_vars => OrderInv'
<1> SUFFICES ASSUME SinksApart, TypesInv, OrderInv, [Next]_vars PROVE OrderInv'
  OBVIOUS
<1>1. TypesInv'
  BY TypesStep
<1>2. ASSUME UNCHANGED <<pc, msg, idx, output, accepted>> PROVE OrderInv'
  <2>1. \A u \in Threads, s \in SinkSet : Kept(u, s)
    BY <1>2 DEF Kept, Past
  <2> QED
    BY <1>2, <2>1, OrderRests
<1>3. CASE SetLevel
  BY <1>2, <1>3 DEF SetLevel, thread
<1>4. CASE SetForMatter
  BY <1>2, <1>4 DEF SetForMatter, thread
<1>5. ASSUME NEW t \in Threads, Log(t) PROVE OrderInv'
  <2>1. /\ UNCHANGED output
        /\ pc[t] = "idle" /\ accepted \subseteq accepted'
        /\ \/ UNCHANGED <<msg, idx, pc>>
           \/ /\ pc' = [pc EXCEPT ![t] = "sink"]
              /\ idx' = [idx EXCEPT ![t] = 1]
              /\ \A u \in Threads : u # t => msg'[u] = msg[u]
              /\ msg'[t].n = calls + 1
    BY <1>5 DEF Log, TypesInv, IsFun
  <2>2. \A n \in accepted : n < calls + 1
    BY PipelineAssumption DEF TypesInv, TypeOK
  <2> SUFFICES ASSUME NEW s \in SinkSet PROVE OrderAt(s)'
    BY DEF OrderInv
  <2>3. Texts(s)' = Texts(s) /\ Numbers(s)' = Numbers(s)
    BY <2>1, NumbersSame DEF output
  <2>4. ASSUME NEW u \in Threads
        PROVE  Kept(u, s) \/ \A n \in accepted : n < msg'[u].n
    <3>1. CASE UNCHANGED <<msg, idx, pc>>
      BY <3>1 DEF Kept, Past
    <3>2. CASE /\ pc' = [pc EXCEPT ![t] = "sink"]
               /\ idx' = [idx EXCEPT ![t] = 1]
               /\ \A w \in Threads : w # t => msg'[w] = msg[w]
               /\ u # t
      <4>1. pc'[u] = pc[u] /\ idx'[u] = idx[u] /\ msg'[u] = msg[u]
        BY <3>2 DEF TypesInv, TypeOK
      <4> QED
        BY <4>1 DEF Kept, Past
    <3>3. CASE u = t /\ msg'[t].n = calls + 1
      BY <2>2, <3>3
    <3> QED
      BY <2>1, <3>1, <3>2, <3>3
  <2> QED
    BY <2>1, <2>3, <2>4, OrderSame DEF OrderInv
<1>6. ASSUME NEW t \in Threads, LoadFormatter(t) PROVE OrderInv'
  <2>1. /\ pc[t] = "sink" /\ pc' = [pc EXCEPT ![t] = "format"]
        /\ UNCHANGED <<msg, idx, output, accepted>>
    BY <1>6 DEF LoadFormatter
  <2> QED
    BY <2>1, OrderRests, SinkKept
<1>7. ASSUME NEW t \in Threads, ConsoleText(t) PROVE OrderInv'
  <2>1. /\ pc[t] = "format" /\ pc' = [pc EXCEPT ![t] = "newline"]
        /\ At(t) \in Consoles
        /\ UNCHANGED <<msg, idx, cache, accepted>>
    BY <1>7 DEF ConsoleText
  <2>2. PICK text : stdout' = Append(stdout, [by |-> t, n |-> msg[t].n, text |-> text])
    BY <1>7 DEF ConsoleText
  <2>3. /\ \A u \in Threads, s \in SinkSet : Kept(u, s)
        /\ \A s \in SinkSet : s = At(t) => Past(t, s)'
    BY <2>1, SinkKept
  <2> SUFFICES ASSUME NEW s \in SinkSet PROVE OrderAt(s)'
    BY DEF OrderInv
  <2>4. CASE s \in Consoles
    <3>1. s = At(t)
      BY <2>1, <2>4, OneConsole
    <3>2. ~Past(t, s)
      BY <2>1, <3>1, NotPast
    <3>3. Grows(s, t, msg[t].n)
      BY <1>1, <2>2, <2>4, StdoutGrows
    <3>4. pc'[t] # "idle" => msg'[t].n = msg[t].n /\ Past(t, s)'
      BY <2>1, <2>3, <3>1
    <3> QED
      BY <2>1, <2>3, <3>2, <3>3, <3>4, OrderGrows DEF OrderInv
  <2>5. CASE s \notin Consoles
    <3>1. Texts(s)' = Texts(s) /\ Numbers(s)' = Numbers(s)
      BY <2>1, <2>5, NumbersSame
    <3> QED
      BY <2>1, <2>3, <3>1, OrderSame DEF OrderInv
  <2> QED
    BY <2>4, <2>5
<1>8. ASSUME NEW t \in Threads, ConsoleNewline(t) PROVE OrderInv'
  <2>1. /\ pc[t] = "newline" /\ NextSink(t)
        /\ stdout' = Append(stdout, [by |-> t, n |-> 0, text |-> <<>>])
        /\ UNCHANGED <<cache, accepted>>
    BY <1>8 DEF ConsoleNewline
  <2>2. \A u \in Threads, s \in SinkSet : Kept(u, s)
    BY <2>1, LoopKept
  <2> SUFFICES ASSUME NEW s \in SinkSet PROVE OrderAt(s)'
    BY DEF OrderInv
  <2>3. Texts(s)' = Texts(s) /\ \A i \in Texts(s) : Numbers(s)'[i] = Numbers(s)[i]
    <3>1. CASE s \in Consoles
      <4>1. Grows(s, t, 0)
        BY <1>1, <2>1, <3>1, StdoutGrows
      <4> QED
        BY <4>1, GrowsFacts
    <3>2. CASE s \notin Consoles
      BY <2>1, <3>2, NumbersSame
    <3> QED
      BY <3>1, <3>2
  <2> QED
    BY <2>1, <2>2, <2>3, OrderSame DEF OrderInv
<1>9. ASSUME NEW t \in Threads, FormatItem(t) PROVE OrderInv'
  <2>1. /\ pc[t] = "format" /\ pc' = [pc EXCEPT ![t] = "write"]
        /\ UNCHANGED <<msg, idx, output, accepted>>
    BY <1>9 DEF FormatItem
  <2> QED
    BY <2>1, OrderRests, SinkKept
<1>10. ASSUME NEW t \in Threads, WriteItem(t) PROVE OrderInv'
  <2>1. /\ pc[t] = "write" /\ NextSink(t) /\ At(t) \in SinkSet
        /\ UNCHANGED <<stdout, accepted>>
        /\ At(t) \notin Consoles /\ msg[t].tid = t
    BY <1>10, AtFacts DEF WriteItem, TypesInv
  <2>2. /\ \A u \in Threads, s \in SinkSet : Kept(u, s)
        /\ pc'[t] = "idle" \/ (msg'[t] = msg[t] /\ \A s \in SinkSet : s = At(t) => Past(t, s)')
    BY <2>1, LoopKept
  <2>3. PICK e : /\ cache' = [cache EXCEPT ![At(t)] = Append(cache[At(t)], e)]
                 /\ e.msg = msg[t]
    BY <1>10, WritesMessage
  <2>4. /\ cache'[At(t)] = Append(cache[At(t)], e)
        /\ \A s \in SinkSet : s # At(t) => cache'[s] = cache[s]
    <3>1. IsFun(cache, SinkSet)
      BY DEF TypesInv
    <3> QED
      BY <2>1, <2>3, <3>1 DEF IsFun
  <2> SUFFICES ASSUME NEW s \in SinkSet PROVE OrderAt(s)'
    BY DEF OrderInv
  <2>5. CASE s = At(t)
    <3>1. ~Past(t, s)
      BY <2>1, <2>5, NotPast
    <3>2. Grows(s, t, msg[t].n)
      BY <1>1, <2>1, <2>3, <2>4, <2>5, CacheGrows
    <3>3. pc'[t] # "idle" => msg'[t].n = msg[t].n /\ Past(t, s)'
      BY <2>2, <2>5
    <3> QED
      BY <2>1, <2>2, <3>1, <3>2, <3>3, OrderGrows DEF OrderInv
  <2>6. CASE s # At(t)
    <3>1. Texts(s)' = Texts(s) /\ Numbers(s)' = Numbers(s)
      BY <2>1, <2>4, <2>6, NumbersSame
    <3> QED
      BY <2>1, <2>2, <3>1, OrderSame DEF OrderInv
  <2> QED
    BY <2>5, <2>6
<1>11. ASSUME NEW t \in Threads, CompressFails(t) PROVE OrderInv'
  <2>1. /\ pc[t] = "write" /\ NextSink(t) /\ UNCHANGED <<output, accepted>>
    BY <1>11 DEF CompressFails
  <2> QED
    BY <2>1, OrderRests, LoopKept
<1>12. ASSUME NEW t \in Threads, WriteThrows(t) PROVE OrderInv'
  <2>1. /\ pc[t] = "write" /\ Return(t) /\ UNCHANGED <<output, accepted>>
    BY <1>12 DEF WriteThrows
  <2> QED
    BY <2>1, OrderRests, LoopKept
<1>13. CASE UNCHANGED vars
  BY <1>2, <1>13 DEF vars, thread
<1> QED
  BY <1>3, <1>4, <1>5, <1>6, <1>7, <1>8, <1>9, <1>10, <1>11, <1>12, <1>13 DEF Next

-----------------------------------------------------------------------------
(* LostInv. *)

LEMMA LostFinite ==
    ASSUME TypesInv, NEW s \in SinkSet
    PROVE  IsFiniteSet(Lost(s)) /\ Cardinality(Lost(s)) \in Nat
<1>1. calls \in Nat
  BY PipelineAssumption DEF TypesInv, TypeOK
<1>2. IsFiniteSet(1..calls)
  BY <1>1, FS_Interval
<1>3. Lost(s) \subseteq 1..calls
  BY DEF Lost, TypesInv, TypeOK
<1> QED
  BY <1>2, <1>3, FS_Subset, FS_CardinalityType

\* A step of t loses for s at most the message of t; and not that one, when s
\* has got it, was done with it before, or is still to get it.
LEMMA LostBut ==
    ASSUME TypesInv, NEW s \in SinkSet, NEW t \in Threads, accepted' = accepted,
           Seen(s) \subseteq Seen(s)',
           \A u \in Threads :
              u # t => (Past(u, s)' <=> Past(u, s)) /\ msg'[u] = msg[u]
    PROVE  /\ Lost(s)' \subseteq Lost(s) \cup {msg[t].n}
           /\ \/ msg[t].n \in Seen(s)'
              \/ Past(t, s)
              \/ msg'[t] = msg[t] /\ ~Past(t, s)'
              => Lost(s)' \subseteq Lost(s)
<1>1. ASSUME NEW n \in Lost(s)', n # msg[t].n \/ Past(t, s) PROVE n \in Lost(s)
  <2>1. /\ n \in accepted /\ n \notin Seen(s)
        /\ \A u \in Threads : msg'[u].n = n => Past(u, s)'
    BY DEF Lost
  <2>2. \A u \in Threads : msg[u].n = n => Past(u, s)
    BY <1>1, <2>1
  <2> QED
    BY <2>1, <2>2 DEF Lost
<1>2. ASSUME NEW n \in Lost(s)', n = msg[t].n
      PROVE  msg[t].n \notin Seen(s)' /\ (msg'[t] = msg[t] => Past(t, s)')
  <2>1. /\ n \notin Seen(s)'
        /\ \A u \in Threads : msg'[u].n = n => Past(u, s)'
    BY <1>2 DEF Lost
  <2> QED
    BY <1>2, <2>1
<1> QED
  BY <1>1, <1>2

\* As many are lost as before, or fewer.
LEMMA LostFewer ==
    ASSUME TypesInv, NEW s \in SinkSet, Cardinality(Lost(s)) <= failures,
           Lost(s)' \subseteq Lost(s), failures' = failures
    PROVE  Cardinality(Lost(s)') <= failures'
<1>1. PICK m \in Nat : m = failures
  BY PipelineAssumption DEF TypesInv, TypeOK
<1>2. /\ Cardinality(Lost(s)') <= Cardinality(Lost(s))
      /\ Cardinality(Lost(s)') \in Nat /\ Cardinality(Lost(s)) \in Nat
  BY LostFinite, FS_Subset, FS_CardinalityType
<1> QED
  BY <1>1, <1>2

\* A failure loses one at most.
LEMMA LostOne ==
    ASSUME TypesInv, NEW s \in SinkSet, Cardinality(Lost(s)) <= failures,
           NEW n, Lost(s)' \subseteq Lost(s) \cup {n}, failures' = failures + 1
    PROVE  Cardinality(Lost(s)') <= failures'
<1>1. PICK m \in Nat : m = failures
  BY PipelineAssumption DEF TypesInv, TypeOK
<1>2. /\ IsFiniteSet(Lost(s) \cup {n})
      /\ Cardinality(Lost(s) \cup {n}) <= m + 1
      /\ Cardinality(Lost(s) \cup {n}) \in Nat
  <2>1. /\ Cardinality(Lost(s)) \in Nat /\ IsFiniteSet(Lost(s))
        /\ Cardinality(Lost(s)) <= m
    BY <1>1, LostFinite
  <2>2. /\ IsFiniteSet(Lost(s) \cup {n})
        /\ \/ Cardinality(Lost(s) \cup {n}) = Cardinality(Lost(s))
           \/ Cardinality(Lost(s) \cup {n}) = Cardinality(Lost(s)) + 1
    BY <2>1, FS_AddElement
  <2> QED
    BY <2>1, <2>2
<1>3. /\ Cardinality(Lost(s)') <= Cardinality(Lost(s) \cup {n})
      /\ Cardinality(Lost(s)') \in Nat
  BY <1>2, FS_Subset, FS_CardinalityType
<1> QED
  BY <1>1, <1>2, <1>3

\* The loop goes on: a sink the thread was not at has the message before it, or
\* behind it.
LEMMA LoopPast ==
    ASSUME TypesInv, NEW t \in Threads, pc[t] # "idle", NextSink(t),
           NEW s \in SinkSet, s # At(t) \/ pc[t] = "newline"
    PROVE  Past(t, s) \/ (msg'[t] = msg[t] /\ ~Past(t, s)')
<1>1. idx[t] \in 1..Len(Sinks) /\ Len(Sinks) \in Nat /\ At(t) = Sinks[idx[t]]
  BY AtFacts
<1>2. CASE idx[t] = Len(Sinks)
  <2>1. PICK j \in 1..Len(Sinks) : s = Sinks[j]
    BY DEF SinkSet
  <2>2. j < idx[t] \/ j = idx[t]
    BY <1>1, <1>2
  <2> QED
    BY <1>1, <2>1, <2>2 DEF Past
<1>3. CASE idx[t] # Len(Sinks)
  <2>1. msg'[t] = msg[t] /\ idx'[t] = idx[t] + 1 /\ pc'[t] = "sink"
    BY <1>3, NextSinkFacts DEF Moves
  <2>2. ASSUME Past(t, s)' PROVE Past(t, s)
    <3>1. PICK j \in 1..Len(Sinks) :
              Sinks[j] = s /\ (j < idx'[t] \/ (j = idx'[t] /\ pc'[t] = "newline"))
      BY <2>2 DEF Past
    <3>2. j < idx[t] \/ j = idx[t]
      BY <1>1, <2>1, <3>1
    <3> QED
      BY <1>1, <3>1, <3>2 DEF Past
  <2> QED
    BY <2>1, <2>2
<1> QED
  BY <1>2, <1>3

\* What does not disturb the calls and what the sinks got.
LEMMA LostRests ==
    ASSUME TypesInv, LostInv, UNCHANGED <<msg, accepted, failures, output>>,
           \A u \in Threads, s \in SinkSet : Past(u, s)' <=> Past(u, s)
    PROVE  LostInv'
<1> SUFFICES ASSUME NEW s \in SinkSet PROVE Cardinality(Lost(s)') <= failures'
  BY DEF LostInv
<1>1. Seen(s)' = Seen(s)
  BY NumbersSame DEF output
<1>2. Lost(s)' = Lost(s)
  BY <1>1 DEF Lost
<1> QED
  BY <1>2 DEF LostInv

LEMMA LostInit == Init => LostInv
<1> SUFFICES ASSUME Init, NEW s \in SinkSet PROVE Cardinality(Lost(s)) <= failures
  BY DEF LostInv
<1>1. accepted = {} /\ failures = 0
  BY DEF Init
<1>2. Lost(s) = {}
  BY <1>1 DEF Lost
<1>3. Cardinality({}) = 0
  BY FS_EmptySet
<1> QED
  BY <1>1, <1>2, <1>3

LEMMA LostLog ==
    ASSUME TypesInv, LostInv, NEW t \in Threads, Log(t) PROVE LostInv'
<1> SUFFICES ASSUME NEW s \in SinkSet PROVE Cardinality(Lost(s)') <= failures'
  BY DEF LostInv
<1>1. Sinks # <<>>
  BY EmptyIsSeq DEF SinkSet
<1>2. /\ UNCHANGED output /\ failures' = failures /\ pc[t] = "idle"
      /\ calls' = calls + 1 /\ calls \in Nat
  BY PipelineAssumption DEF Log, TypesInv, TypeOK
<1>3. PICK m \in Messages :
        /\ accepted' = IF m.level >= level_ THEN accepted \cup {calls + 1}
                                            ELSE accepted
        /\ IF ShouldLog(m.level)
           THEN /\ msg' = [msg EXCEPT ![t] =
                              [level |-> m.level, path |-> m.path, line |-> m.line,
                               func |-> m.func, message |-> m.message,
                               tid |-> t, n |-> calls + 1]]
                /\ idx' = [idx EXCEPT ![t] = 1]
                /\ pc' = [pc EXCEPT ![t] = "sink"]
           ELSE UNCHANGED <<msg, idx, pc>>
  BY <1>2 DEF Log
<1>4. Seen(s)' = Seen(s)
  BY <1>2, NumbersSame DEF output
<1>5. CASE m.level >= level_
  <2>1. /\ accepted' = accepted \cup {calls + 1}
        /\ msg'[t].n = calls + 1 /\ idx'[t] = 1 /\ pc'[t] = "sink"
        /\ \A u \in Threads :
              u # t => msg'[u] = msg[u] /\ idx'[u] = idx[u] /\ pc'[u] = pc[u]
    BY <1>1, <1>3, <1>5 DEF ShouldLog, TypesInv, TypeOK, IsFun
  <2>2. ~Past(t, s)'
    BY <2>1, PipelineAssumption DEF Past
  <2>3. msg[t].n = 0
    BY <1>2 DEF TypesInv
  <2>4. ASSUME NEW n \in Lost(s)' PROVE n \in Lost(s)
    <3>1. /\ n \in accepted' /\ n \notin Seen(s)
          /\ \A u \in Threads : msg'[u].n = n => Past(u, s)'
      BY <1>4 DEF Lost
    <3>2. n \in accepted /\ n # 0
      BY <2>1, <2>2, <3>1 DEF TypesInv, TypeOK
    <3>3. \A u \in Threads : msg[u].n = n => Past(u, s)
      BY <2>1, <2>3, <3>1, <3>2 DEF Past
    <3> QED
      BY <3>1, <3>2, <3>3 DEF Lost
  <2> QED
    BY <1>2, <2>4, LostFewer DEF LostInv
<1>6. CASE ~(m.level >= level_)
  <2>1. UNCHANGED <<msg, idx, pc, accepted>>
    BY <1>3, <1>6 DEF ShouldLog
  <2>2. Lost(s)' = Lost(s)
    BY <1>4, <2>1 DEF Lost, Past
  <2> QED
    BY <1>2, <2>2, LostFewer DEF LostInv
<1> QED
  BY <1>5, <1>6

\* A call has a number.
LEMMA CallNumber ==
    ASSUME TypesInv, NEW t \in Threads, pc[t] # "idle"
    PROVE  \E n \in Nat : n = msg[t].n /\ n # 0
<1>1. msg[t].n > 0 /\ msg[t].n \in accepted /\ accepted \subseteq 1..calls
  BY DEF TypesInv, TypeOK
<1>2. calls \in Nat
  BY PipelineAssumption DEF TypesInv, TypeOK
<1>3. PICK n \in accepted : n = msg[t].n
  BY <1>1
<1>4. n \in Nat /\ n # 0
  BY <1>1, <1>2, <1>3
<1> QED
  BY <1>3, <1>4

LEMMA StaysPast ==
    ASSUME TypesInv, NEW t \in Threads, pc[t] # "newline",
           NEW step, step # "newline", pc' = [pc EXCEPT ![t] = step], UNCHANGED idx
    PROVE  \A u \in Threads, s \in SinkSet : Past(u, s)' <=> Past(u, s)
<1>1. \A u \in Threads : pc'[u] = "newline" <=> pc[u] = "newline"
  BY DEF TypesInv, TypeOK
<1>2. ASSUME NEW u \in Threads, NEW s \in SinkSet
      PROVE  Past(u, s)' <=> Past(u, s)
  <2>1. idx'[u] = idx[u] /\ (pc'[u] = "newline" <=> pc[u] = "newline")
    BY <1>1
  <2> QED
    BY <2>1 DEF Past
<1> QED
  BY <1>2

LEMMA LostStep == TypesInv /\ LostInv /\ [Next]_vars => LostInv'
<1> SUFFICES ASSUME TypesInv, LostInv, [Next]_vars PROVE LostInv'
  OBVIOUS
<1>1. TypesInv'
  BY TypesStep
<1>2. ASSUME UNCHANGED <<pc, msg, idx, output, accepted, failures>> PROVE LostInv'
  BY <1>2, LostRests DEF Past
<1>3. CASE SetLevel
  BY <1>2, <1>3 DEF SetLevel, thread
<1>4. CASE SetForMatter
  BY <1>2, <1>4 DEF SetForMatter, thread
<1>5. ASSUME NEW t \in Threads, Log(t) PROVE LostInv'
  BY <1>5, LostLog
<1>6. ASSUME NEW t \in Threads, LoadFormatter(t) PROVE LostInv'
  <2>1. /\ pc[t] = "sink" /\ pc' = [pc EXCEPT ![t] = "format"]
        /\ UNCHANGED <<msg, idx, output, accepted, failures>>
    BY <1>6 DEF LoadFormatter
  <2>2. \A u \in Threads, s \in SinkSet : Past(u, s)' <=> Past(u, s)
    BY <2>1, StaysPast
  <2> QED
    BY <2>1, <2>2, LostRests
<1>7. ASSUME NEW t \in Threads, ConsoleText(t) PROVE LostInv'
  <2>1. /\ pc[t] = "format" /\ pc' = [pc EXCEPT ![t] = "newline"]
        /\ At(t) \in Consoles
        /\ UNCHANGED <<msg, idx, cache, accepted, failures>>
    BY <1>7 DEF ConsoleText
  <2>2. PICK text : stdout' = Append(stdout, [by |-> t, n |-> msg[t].n, text |-> text])
    BY <1>7 DEF ConsoleText
  <2>3. \A u \in Threads, s \in SinkSet : u # t => (Past(u, s)' <=> Past(u, s))
    BY <2>1, SinkKept
  <2>4. PICK n \in Nat : n = msg[t].n /\ n # 0
    BY <2>1, CallNumber
  <2> SUFFICES ASSUME NEW s \in SinkSet PROVE Cardinality(Lost(s)') <= failures'
    BY DEF LostInv
  <2>5. CASE s \in Consoles
    <3>1. Grows(s, t, n)
      BY <1>1, <2>2, <2>4, <2>5, StdoutGrows
    <3>2. Seen(s)' = Seen(s) \cup {n}
      BY <2>4, <3>1, GrowsFacts
    <3>3. Lost(s)' \subseteq Lost(s)
      BY <2>1, <2>3, <2>4, <3>2, LostBut
    <3> QED
      BY <2>1, <3>3, LostFewer DEF LostInv
  <2>6. CASE s \notin Consoles
    <3>1. Seen(s)' = Seen(s)
      BY <2>1, <2>6, NumbersSame
    <3>2. Past(t, s)' => Past(t, s)
      <4>1. idx[t] \in 1..Len(Sinks) /\ Sinks[idx[t]] # s
        BY <2>1, <2>6, AtFacts
      <4> QED
        BY <2>1, <4>1 DEF Past
    <3>3. Lost(s)' \subseteq Lost(s)
      BY <2>1, <2>3, <3>1, <3>2, LostBut
    <3> QED
      BY <2>1, <3>3, LostFewer DEF LostInv
  <2> QED
    BY <2>5, <2>6
<1>8. ASSUME NEW t \in Threads, ConsoleNewline(t) PROVE LostInv'
  <2>1. /\ pc[t] = "newline" /\ NextSink(t)
        /\ stdout' = Append(stdout, [by |-> t, n |-> 0, text |-> <<>>])
        /\ UNCHANGED <<cache, accepted, failures>>
    BY <1>8 DEF ConsoleNewline
  <2> SUFFICES ASSUME NEW s \in SinkSet PROVE Cardinality(Lost(s)') <= failures'
    BY DEF LostInv
  <2>2. Seen(s)' = Seen(s)
    <3>1. CASE s \in Consoles
      <4>1. Grows(s, t, 0)
        BY <1>1, <2>1, <3>1, StdoutGrows
      <4> QED
        BY <4>1, GrowsFacts
    <3>2. CASE s \notin Consoles
      BY <2>1, <3>2, NumbersSame
    <3> QED
      BY <3>1, <3>2
  <2>3. \A u \in Threads : u # t => (Past(u, s)' <=> Past(u, s)) /\ msg'[u] = msg[u]
    BY <2>1, LoopKept
  <2>4. Past(t, s) \/ (msg'[t] = msg[t] /\ ~Past(t, s)')
    BY <2>1, LoopPast
  <2>5. Lost(s)' \subseteq Lost(s)
    BY <2>1, <2>2, <2>3, <2>4, LostBut
  <2> QED
    BY <2>1, <2>5, LostFewer DEF LostInv
<1>9. ASSUME NEW t \in Threads, FormatItem(t) PROVE LostInv'
  <2>1. /\ pc[t] = "format" /\ pc' = [pc EXCEPT ![t] = "write"]
        /\ UNCHANGED <<msg, idx, output, accepted, failures>>
    BY <1>9 DEF FormatItem
  <2>2. \A u \in Threads, s \in SinkSet : Past(u, s)' <=> Past(u, s)
    BY <2>1, StaysPast
  <2> QED
    BY <2>1, <2>2, LostRests
<1>10. ASSUME NEW t \in Threads, WriteItem(t) PROVE LostInv'
  <2>1. /\ pc[t] = "write" /\ NextSink(t) /\ At(t) \in SinkSet
        /\ UNCHANGED <<stdout, accepted, failures>>
        /\ At(t) \notin Consoles /\ msg[t].tid = t
    BY <1>10, AtFacts DEF WriteItem, TypesInv
  <2>2. PICK e : /\ cache' = [cache EXCEPT ![At(t)] = Append(cache[At(t)], e)]
                 /\ e.msg = msg[t]
    BY <1>10, WritesMessage
  <2>3. /\ cache'[At(t)] = Append(cache[At(t)], e)
        /\ \A s \in SinkSet : s # At(t) => cache'[s] = cache[s]
    <3>1. IsFun(cache, SinkSet)
      BY DEF TypesInv
    <3> QED
      BY <2>1, <2>2, <3>1 DEF IsFun
  <2>4. PICK n \in Nat : n = msg[t].n /\ n # 0
    BY <2>1, CallNumber
  <2> SUFFICES ASSUME NEW s \in SinkSet PROVE Cardinality(Lost(s)') <= failures'
    BY DEF LostInv
  <2>5. \A u \in Threads : u # t => (Past(u, s)' <=> Past(u, s)) /\ msg'[u] = msg[u]
    BY <2>1, LoopKept
  <2>6. CASE s = At(t)
    <3>1. Grows(s, t, n)
      BY <1>1, <2>1, <2>2, <2>3, <2>4, <2>6, CacheGrows
    <3>2. Seen(s)' = Seen(s) \cup {n}
      BY <2>4, <3>1, GrowsFacts
    <3>3. Lost(s)' \subseteq Lost(s)
      BY <2>1, <2>4, <2>5, <3>2, LostBut
    <3> QED
      BY <2>1, <3>3, LostFewer DEF LostInv
  <2>7. CASE s # At(t)
    <3>1. Seen(s)' = Seen(s)
      BY <2>1, <2>3, <2>7, NumbersSame
    <3>2. Past(t, s) \/ (msg'[t] = msg[t] /\ ~Past(t, s)')
      BY <2>1, <2>7, LoopPast
    <3>3. Lost(s)' \subseteq Lost(s)
      BY <2>1, <2>5, <3>1, <3>2, LostBut
    <3> QED
      BY <2>1, <3>3, LostFewer DEF LostInv
  <2> QED
    BY <2>6, <2>7
<1>11. ASSUME NEW t \in Threads, pc[t] = "write", NextSink(t) \/ Return(t), Fails,
              UNCHANGED <<output, accepted>>
       PROVE  LostInv'
  <2> SUFFICES ASSUME NEW s \in SinkSet PROVE Cardinality(Lost(s)') <= failures'
    BY DEF LostInv
  <2>1. Seen(s)' = Seen(s)
    BY <1>11, NumbersSame DEF output
  <2>2. \A u \in Threads : u # t => (Past(u, s)' <=> Past(u, s)) /\ msg'[u] = msg[u]
    BY <1>11, LoopKept
  <2>3. Lost(s)' \subseteq Lost(s) \cup {msg[t].n}
    BY <1>11, <2>1, <2>2, LostBut
  <2>4. failures' = failures + 1
    BY <1>11 DEF Fails
  <2> QED
    BY <2>3, <2>4, LostOne DEF LostInv
<1>12. ASSUME NEW t \in Threads, CompressFails(t) PROVE LostInv'
  BY <1>11, <1>12 DEF CompressFails
<1>13. ASSUME NEW t \in Threads, WriteThrows(t) PROVE LostInv'
  BY <1>11, <1>13 DEF WriteThrows
<1>14. CASE UNCHANGED vars
  BY <1>2, <1>14 DEF vars, thread
<1> QED
  BY <1>3, <1>4, <1>5, <1>6, <1>7, <1>8, <1>9, <1>10, <1>12, <1>13, <1>14 DEF Next

-----------------------------------------------------------------------------
(* The theorems. *)

(***************************************************************************)
(* The variables have their types; in particular a thread is at a sink of  *)
(* the handle as long as its call is in the loop of Log_.                  *)
(***************************************************************************)
THEOREM PipelineTypes == Spec => []TypeOK
<1>1. TypesInv => TypeOK
  BY DEF TypesInv
<1> QED
  BY <1>1, TypesAlways, PTL

LEMMA LinesAlways == Spec => []LinesInv
  BY TypesAlways, LinesInit, LinesStep, PTL DEF Spec

LEMMA LostAlways == Spec => []LostInv
  BY TypesAlways, LostInit, LostStep, PTL DEF Spec

(***************************************************************************)
(* However many threads write text and newline separately to stdout, the   *)
(* texts of one thread are apart; and when no call is under way, there are *)
(* as many newlines as texts.                                              *)
(***************************************************************************)
THEOREM LinesShareStdout == Spec => []LinesMixBounded
<1>1. ASSUME TypesInv, LinesInv PROVE LinesMixBounded
  <2>1. TextsApart
    BY <1>1 DEF LinesInv
  <2>2. ASSUME \A t \in Threads : pc[t] = "idle"
        PROVE  Cardinality({i \in 1..Len(stdout) : stdout[i].n = 0}) * 2 = Len(stdout)
    <3>1. Printing = {}
      BY <2>2 DEF Printing
    <3>2. Cardinality(Printing) = 0
      BY <3>1, FS_EmptySet
    <3>3. Len(stdout) = 2 * Cardinality(Newlines) + Cardinality(Printing)
      BY <1>1 DEF LinesInv
    <3>4. PICK m \in Nat : m = Cardinality(Newlines)
      BY <1>1, NewlinesFinite, FS_CardinalityType
    <3>5. Len(stdout) = m * 2
      BY <3>2, <3>3, <3>4
    <3> QED
      BY <3>4, <3>5 DEF Newlines
  <2> QED
    BY <2>1, <2>2 DEF LinesMixBounded, TextsApart
<1> QED
  BY <1>1, TypesAlways, LinesAlways, PTL

\* What is missing while no call brings it, is lost.
LEMMA MissingIsLost ==
    ASSUME TypesInv, LostInv, NEW s \in SinkSet
    PROVE  Cardinality((accepted \ Seen(s)) \ {msg[t].n : t \in Threads}) <= failures
<1> DEFINE missing == (accepted \ Seen(s)) \ {msg[t].n : t \in Threads}
<1>1. missing \subseteq Lost(s)
  BY DEF Lost
<1>2. /\ IsFiniteSet(Lost(s)) /\ Cardinality(Lost(s)) \in Nat
      /\ Cardinality(Lost(s)) <= failures
  BY LostFinite DEF LostInv
<1> HIDE DEF missing
<1>3. /\ Cardinality(missing) <= Cardinality(Lost(s))
      /\ Cardinality(missing) \in Nat
  BY <1>1, <1>2, FS_Subset, FS_CardinalityType
<1>4. PICK m \in Nat : m = failures
  BY PipelineAssumption DEF TypesInv, TypeOK
<1>5. Cardinality(missing) <= failures
  BY <1>2, <1>3, <1>4
<1> QED
  BY <1>5 DEF missing

(***************************************************************************)
(* With any number of threads and sinks, every sink gets what was accepted *)
(* in the order of each thread's calls, nothing twice, and misses no more  *)
(* messages than there were failures.                                      *)
(***************************************************************************)
THEOREM SinksGetMessages == ASSUME SinksApart PROVE Spec => []Delivered
<1>1. TypesInv /\ OrderInv /\ [Next]_vars => OrderInv'
  BY OrderStep
<1>2. Spec => []OrderInv
  BY <1>1, TypesAlways, OrderInit, PTL DEF Spec
<1>3. ASSUME TypesInv, OrderInv, LostInv PROVE Delivered
  <2> SUFFICES ASSUME NEW s \in SinkSet
               PROVE  /\ \A i, j \in Texts(s) :
                            i < j /\ Numbers(s)[i][1] = Numbers(s)[j][1] =>
                                Numbers(s)[i][2] < Numbers(s)[j][2]
                      /\ Seen(s) \subseteq accepted
                      /\ Cardinality((accepted \ Seen(s))
                                         \ {msg[t].n : t \in Threads}) <= failures
    BY Zenon DEF Delivered, Texts, Seen
  <2>1. OrderAt(s)
    BY <1>3 DEF OrderInv
  <2>2. Seen(s) \subseteq accepted
    BY <2>1 DEF OrderAt, Seen
  <2>3. \A i, j \in Texts(s) :
            i < j /\ Numbers(s)[i][1] = Numbers(s)[j][1] =>
                Numbers(s)[i][2] < Numbers(s)[j][2]
    BY <2>1 DEF OrderAt
  <2> QED
    BY <1>3, <2>2, <2>3, MissingIsLost
<1> QED
  BY <1>2, <1>3, TypesAlways, LostAlways, PTL

-----------------------------------------------------------------------------
(* Every nonempty set of numbers has a least and, bounded, a greatest one. *)

LEMMA LeastNat ==
    ASSUME NEW T, T \subseteq Nat, T # {}
    PROVE  \E x \in T : \A y \in T : x <= y
<1> DEFINE R == OpToRel(<, Nat)
<1>1. IsWellFoundedOn(R, Nat)
  BY NatLessThanWellFounded, Zenon
<1> HIDE DEF R
<1>2. PICK x \in T : \A y \in T : ~(<<y, x>> \in R)
  BY <1>1, WFMin
<1>3. ASSUME NEW y \in T PROVE x <= y
  <2>1. <<y, x>> \notin R
    BY <1>2
  <2>2. ~(y < x)
    BY <2>1 DEF R, OpToRel
  <2> QED
    BY <2>2
<1> QED
  BY <1>3

LEMMA GreatestNat ==
    ASSUME NEW n \in Nat, NEW T, T \subseteq 0..n, T # {}
    PROVE  \E x \in T : \A y \in T : y <= x
<1> DEFINE D == {d \in 0..n : n - d \in T}
<1>1. \A y \in T : n - y \in D /\ n - (n - y) = y
  OBVIOUS
<1>2. \A d \in D : d \in 0..n /\ n - d \in T
  OBVIOUS
<1> HIDE DEF D
<1>3. D \subseteq Nat /\ D # {}
  <2>1. PICK y \in T : TRUE
    OBVIOUS
  <2>2. n - y \in D
    BY <1>1
  <2> QED
    BY <1>2, <2>2
<1>4. PICK d \in D : \A c \in D : d <= c
  BY <1>3, LeastNat
<1>5. PICK x \in T : x = n - d
  BY <1>2, <1>4
<1>6. ASSUME NEW y \in T PROVE y <= x
  <2>1. d <= n - y
    BY <1>1, <1>4
  <2> QED
    BY <1>2, <1>5, <2>1
<1> QED
  BY <1>6

LEMMA SeqEnds ==
    ASSUME NEW w, IsSeq(w)
    PROVE  /\ w \o <<>> = w /\ <<>> \o w = w
           /\ \A c : w \o <<c>> = Append(w, c)
<1> DEFINE T == {w[i] : i \in 1..Len(w)}
<1>1. w \in Seq(T)
  <2>1. PICK n \in Nat : n = Len(w)
    BY DEF IsSeq
  <2>2. w \in [1..n -> T]
    BY <2>1 DEF IsSeq, IsFun
  <2> QED
    BY <2>2, SeqDef
<1>2. w \o <<>> = w /\ <<>> \o w = w
  BY <1>1, ConcatEmptySeq
<1>3. ASSUME NEW c PROVE w \o <<c>> = Append(w, c)
  <2> DEFINE U == T \cup {c}
  <2>1. T \subseteq U
    OBVIOUS
  <2>2. w \in Seq(U) /\ <<c>> \in Seq(U)
    BY <1>1, <2>1, SeqMonotonic
  <2> HIDE DEF U
  <2> QED
    BY <2>2
<1> QED
  BY <1>2, <1>3

-----------------------------------------------------------------------------
(* What the generated code writes. *)

\* w has a cell for each field in N that e has, numbers before strings.
Carries(w, e, N) ==
    /\ IsSeq(w)
    /\ \A k \in 1..Len(w) : /\ w[k] = <<w[k][1], e[w[k][1]]>>
                            /\ w[k][1] \in N /\ Present(e, w[k][1])
    /\ \A f \in N : Present(e, f) => \E k \in 1..Len(w) : w[k][1] = f
    /\ \A k, l \in 1..Len(w) :
           k < l /\ w[l][1] \notin Strings => w[k][1] \notin Strings
    /\ IsFiniteSet({f \in N : Present(e, f)})
    /\ Len(w) = Cardinality({f \in N : Present(e, f)})

LEMMA CarriesNothing == ASSUME NEW e PROVE Carries(<<>>, e, {})
<1>1. {f \in {} : Present(e, f)} = {}
  OBVIOUS
<1> QED
  BY <1>1, EmptyIsSeq, FS_EmptySet DEF Carries

LEMMA CarriesCell ==
    ASSUME NEW w, NEW e, NEW N, Carries(w, e, N), NEW f, f \notin N,
           f \in Strings \/ N \cap Strings = {}
    PROVE  Carries(w \o Cell(e, f), e, N \cup {f})
<1> DEFINE P == {g \in N : Present(e, g)}
           Q == {g \in N \cup {f} : Present(e, g)}
<1>1. CASE ~Present(e, f)
  <2>1. w \o Cell(e, f) = w
    BY <1>1, SeqEnds DEF Carries, Cell
  <2>2. Q = P
    BY <1>1
  <2> HIDE DEF P, Q
  <2>3. /\ IsFiniteSet(Q) /\ Len(w) = Cardinality(Q)
    BY <2>2 DEF Carries, P
  <2>4. /\ IsSeq(w)
        /\ \A k \in 1..Len(w) : /\ w[k] = <<w[k][1], e[w[k][1]]>>
                                /\ w[k][1] \in N \cup {f} /\ Present(e, w[k][1])
        /\ \A k, l \in 1..Len(w) :
               k < l /\ w[l][1] \notin Strings => w[k][1] \notin Strings
    BY DEF Carries
  <2>5. \A g \in N \cup {f} : Present(e, g) => \E k \in 1..Len(w) : w[k][1] = g
    BY <1>1 DEF Carries
  <2> QED
    BY <2>1, <2>3, <2>4, <2>5 DEF Carries, Q
<1>2. CASE Present(e, f)
  <2> DEFINE c == <<f, e[f]>>
             v == Append(w, c)
  <2>1. w \o Cell(e, f) = v
    BY <1>2, SeqEnds DEF Carries, Cell
  <2>2. PICK L \in Nat : L = Len(w)
    BY DEF Carries, IsSeq
  <2>3. /\ IsSeq(v) /\ Len(v) = L + 1
        /\ \A k \in 1..L : v[k] = w[k]
        /\ v[L + 1] = c
        /\ \A k \in 1..(L + 1) : k \in 1..L \/ k = L + 1
    <3>1. IsSeq(w)
      BY DEF Carries
    <3>2. /\ IsSeq(v) /\ Len(v) = Len(w) + 1
          /\ \A k \in 1..Len(w) : v[k] = w[k]
          /\ v[Len(w) + 1] = c
          /\ \A k \in 1..(Len(w) + 1) : k \in 1..Len(w) \/ k = Len(w) + 1
      BY <3>1, AppendFacts
    <3> QED
      BY <2>2, <3>2
  <2>4. c[1] = f /\ c = <<c[1], e[c[1]]>>
    OBVIOUS
  <2> HIDE DEF v, c
  <2>5. \A k \in 1..(L + 1) : /\ v[k] = <<v[k][1], e[v[k][1]]>>
                              /\ v[k][1] \in N \cup {f} /\ Present(e, v[k][1])
    BY <1>2, <2>2, <2>3, <2>4 DEF Carries
  <2>6. \A g \in N \cup {f} : Present(e, g) => \E k \in 1..(L + 1) : v[k][1] = g
    <3>1. L + 1 \in 1..(L + 1) /\ v[L + 1][1] = f
      BY <2>3, <2>4
    <3>2. ASSUME NEW g \in N, Present(e, g) PROVE \E k \in 1..(L + 1) : v[k][1] = g
      <4>1. PICK k \in 1..L : w[k][1] = g
        BY <2>2, <3>2 DEF Carries
      <4> QED
        BY <2>3, <4>1
    <3> QED
      BY <3>1, <3>2
  <2>7. \A k, l \in 1..(L + 1) :
            k < l /\ v[l][1] \notin Strings => v[k][1] \notin Strings
    <3> SUFFICES ASSUME NEW k \in 1..(L + 1), NEW l \in 1..(L + 1), k < l,
                        v[l][1] \notin Strings
                 PROVE  v[k][1] \notin Strings
      OBVIOUS
    <3>1. k \in 1..L
      BY <2>3
    <3>2. CASE l \in 1..L
      BY <2>2, <2>3, <3>1, <3>2 DEF Carries
    <3>3. CASE l = L + 1
      BY <2>2, <2>3, <2>4, <3>1, <3>3 DEF Carries
    <3> QED
      BY <2>3, <3>2, <3>3
  <2>8. Q = P \cup {f} /\ f \notin P
    BY <1>2
  <2> HIDE DEF P, Q
  <2>9. IsFiniteSet(Q) /\ Cardinality(Q) = L + 1
    <3>1. IsFiniteSet(P) /\ Cardinality(P) = L
      BY <2>2 DEF Carries, P
    <3> QED
      BY <2>8, <3>1, FS_AddElement
  <2> QED
    BY <2>1, <2>3, <2>5, <2>6, <2>7, <2>9 DEF Carries, Q
<1> QED
  BY <1>1, <1>2

LEMMA Serialized ==
    ASSUME NEW e PROVE Carries(InternalSerialize(e), e, FieldNames)
<1>1. Carries(Cell(e, "level"), e, {"level"})
  <2>1. <<>> \o Cell(e, "level") = Cell(e, "level")
    <3>1. IsSeq(<<<<"level", e["level"]>>>>)
      <4> DEFINE c == <<"level", e["level"]>>
      <4> HIDE DEF c
      <4>1. <<c>> = Append(<<>>, c)
        OBVIOUS
      <4>2. IsSeq(Append(<<>>, c))
        BY EmptyIsSeq, AppendFacts
      <4>3. IsSeq(<<c>>)
        BY <4>1, <4>2
      <4> QED
        BY <4>3 DEF c
    <3> QED
      BY <3>1, EmptyIsSeq, SeqEnds DEF Cell
  <2>2. Carries(<<>> \o Cell(e, "level"), e, {} \cup {"level"})
    BY CarriesNothing, CarriesCell
  <2>3. {} \cup {"level"} = {"level"}
    OBVIOUS
  <2> QED
    BY <2>1, <2>2, <2>3
<1> DEFINE W1 == Cell(e, "level")           N1 == {"level"}
           W2 == W1 \o Cell(e, "timestamp") N2 == N1 \cup {"timestamp"}
           W3 == W2 \o Cell(e, "pid")       N3 == N2 \cup {"pid"}
           W4 == W3 \o Cell(e, "tid")       N4 == N3 \cup {"tid"}
           W5 == W4 \o Cell(e, "line")      N5 == N4 \cup {"line"}
           W6 == W5 \o Cell(e, "file_name") N6 == N5 \cup {"file_name"}
           W7 == W6 \o Cell(e, "func_name") N7 == N6 \cup {"func_name"}
           W8 == W7 \o Cell(e, "log_info")  N8 == N7 \cup {"log_info"}
<1>2. InternalSerialize(e) = W8
  BY DEF InternalSerialize
<1>3. N8 = FieldNames
  BY DEF FieldNames, Strings
<1>4. /\ "timestamp" \notin N1 /\ N1 \cap Strings = {}
      /\ "pid" \notin N2 /\ N2 \cap Strings = {}
      /\ "tid" \notin N3 /\ N3 \cap Strings = {}
      /\ "line" \notin N4 /\ N4 \cap Strings = {}
  BY DEF Strings
<1>5. /\ "file_name" \notin N5 /\ "file_name" \in Strings
      /\ "func_name" \notin N6 /\ "func_name" \in Strings
      /\ "log_info" \notin N7 /\ "log_info" \in Strings
  BY DEF Strings
<1>6. Carries(W2, e, N2)
  BY <1>1, <1>4, CarriesCell
<1>7. Carries(W3, e, N3)
  BY <1>4, <1>6, CarriesCell
<1>8. Carries(W4, e, N4)
  BY <1>4, <1>7, CarriesCell
<1>9. Carries(W5, e, N5)
  BY <1>4, <1>8, CarriesCell
<1>10. Carries(W6, e, N6)
  BY <1>5, <1>9, CarriesCell
<1>11. Carries(W7, e, N7)
  BY <1>5, <1>10, CarriesCell
<1>12. Carries(W8, e, N8)
  BY <1>5, <1>11, CarriesCell
<1> HIDE DEF W8, N8
<1> QED
  BY <1>2, <1>3, <1>12

\* The cells that ParseFromArray reads of what was written.
LEMMA ParsedField ==
    ASSUME NEW w, NEW e, Carries(w, e, FieldNames), NEW f \in FieldNames,
           \/ f \notin Strings
           \/ \A k \in 1..Len(w) : Valid(w[k])
    PROVE  ParseFromArray(w)[f] = e[f]
<1> DEFINE bad == {i \in 1..Len(w) : ~Valid(w[i])}
           end == IF bad = {} THEN Len(w)
                              ELSE CHOOSE i \in bad : \A j \in bad : i <= j
           of == {i \in 1..end : w[i][1] = f}
           last == CHOOSE i \in of : \A j \in of : j <= i
<1>1. ParseFromArray(w)[f] = IF of = {} THEN Default(f) ELSE w[last][2]
  BY Zenon DEF ParseFromArray
<1>2. Len(w) \in Nat
  BY DEF Carries, IsSeq
<1>3. /\ bad # {} => end \in bad
      /\ bad = {} => end = Len(w)
  <2>1. CASE bad # {}
    <3>1. bad \subseteq Nat
      BY <1>2
    <3> HIDE DEF bad
    <3>2. \E i \in bad : \A j \in bad : i <= j
      BY <2>1, <3>1, LeastNat
    <3> QED
      BY <2>1, <3>2
  <2>2. CASE bad = {}
    BY <2>2
  <2> QED
    BY <2>1, <2>2
<1> HIDE DEF end
<1>4. end \in 0..Len(w)
  BY <1>2, <1>3
<1>5. CASE ~Present(e, f)
  <2>1. ASSUME NEW i \in of PROVE FALSE
    <3>1. i \in 1..Len(w) /\ w[i][1] = f
      BY <1>2, <1>4, <2>1
    <3> QED
      BY <1>5, <3>1 DEF Carries
  <2> QED
    BY <1>1, <1>5, <2>1 DEF Present
<1>6. CASE Present(e, f)
  <2>1. PICK k \in 1..Len(w) : w[k][1] = f
    BY <1>6 DEF Carries
  <2>2. k <= end
    <3>1. CASE bad = {}
      BY <1>2, <1>3, <3>1
    <3>2. CASE bad # {}
      <4>1. end \in 1..Len(w) /\ ~Valid(w[end]) /\ w[end][1] \in FieldNames
        BY <1>3, <3>2 DEF Carries
      <4>2. w[end][1] \in Strings /\ f \notin Strings
        BY <4>1 DEF Valid
      <4>3. ~(end < k)
        BY <2>1, <4>1, <4>2 DEF Carries
      <4> QED
        BY <1>2, <4>1, <4>3
    <3> QED
      BY <3>1, <3>2
  <2>3. k \in of /\ of \subseteq 0..Len(w)
    BY <1>2, <1>4, <2>1, <2>2
  <2>4. \A i \in of : w[i][2] = e[f]
    <3>1. \A i \in of : i \in 1..Len(w) /\ w[i][1] = f
      BY <1>2, <1>4
    <3>2. \A i \in 1..Len(w) : w[i] = <<w[i][1], e[w[i][1]]>>
      BY DEF Carries
    <3>3. \A i \in 1..Len(w) : w[i][2] = e[w[i][1]]
      BY <3>2
    <3> HIDE DEF of
    <3> QED
      BY <3>1, <3>3
  <2> HIDE DEF of
  <2>5. \E i \in of : \A j \in of : j <= i
    BY <1>2, <2>3, GreatestNat
  <2>6. last \in of
    BY <2>5
  <2> HIDE DEF last
  <2> QED
    BY <1>1, <2>3, <2>4, <2>6
<1> QED
  BY <1>5, <1>6

\* What the buffer held does not matter: it has the size of what is written.
LEMMA FromatSerializes ==
    ASSUME NEW m, NEW dest
    PROVE  EffectiveFromat(m, dest) = InternalSerialize(ToEffectiveMsg(m))
<1> DEFINE e == ToEffectiveMsg(m)
           wire == InternalSerialize(e)
           room == Resize(dest, ByteSizeLong(e))
<1>1. EffectiveFromat(m, dest) =
          [i \in 1..Len(room) |-> IF i <= Len(wire) THEN wire[i] ELSE room[i]]
  BY DEF EffectiveFromat
<1>2. Carries(wire, e, FieldNames)
  BY Serialized
<1> HIDE DEF e, wire
<1>3. PICK n \in Nat : n = Len(wire) /\ n = ByteSizeLong(e)
  BY <1>2 DEF Carries, IsSeq, ByteSizeLong
<1>4. Len(room) = n
  <2>1. room = [i \in 1..n |-> IF i <= Len(dest) THEN dest[i] ELSE Zero]
    BY <1>3 DEF Resize
  <2> HIDE DEF room
  <2>2. IsFun(room, 1..n)
    BY <2>1 DEF IsFun
  <2> QED
    BY <2>2, LenOf
<1> HIDE DEF room
<1>5. EffectiveFromat(m, dest) = [i \in 1..n |-> wire[i]]
  BY <1>1, <1>3, <1>4
<1>6. wire = [i \in 1..n |-> wire[i]]
  BY <1>2, <1>3 DEF Carries, IsSeq, IsFun
<1> QED
  BY <1>5, <1>6 DEF e, wire

LEMMA FieldsOfMsg ==
    ASSUME NEW m
    PROVE  /\ ToEffectiveMsg(m) = [f \in FieldNames |-> ToEffectiveMsg(m)[f]]
           /\ ToEffectiveMsg(m)["file_name"] = FileName(m.path)
           /\ ToEffectiveMsg(m)["func_name"] = m.func
           /\ ToEffectiveMsg(m)["log_info"] = m.message
<1>1. DOMAIN ToEffectiveMsg(m) = FieldNames
  BY DEF ToEffectiveMsg, FieldNames, Strings
<1>2. ToEffectiveMsg(m) = [f \in DOMAIN ToEffectiveMsg(m) |-> ToEffectiveMsg(m)[f]]
  BY DEF ToEffectiveMsg
<1> QED
  BY <1>1, <1>2 DEF ToEffectiveMsg

LEMMA ValidCells ==
    ASSUME NEW m, IsValidUtf8(m), NEW w, Carries(w, ToEffectiveMsg(m), FieldNames)
    PROVE  \A k \in 1..Len(w) : Valid(w[k])
<1> SUFFICES ASSUME NEW k \in 1..Len(w) PROVE Valid(w[k])
  OBVIOUS
<1> DEFINE e == ToEffectiveMsg(m)
<1>1. /\ w[k] = <<w[k][1], e[w[k][1]]>>
      /\ w[k][1] \in FieldNames
  BY DEF Carries
<1>2. w[k][2] = e[w[k][1]]
  BY <1>1
<1>3. ASSUME w[k][1] \in Strings
      PROVE  w[k][2] \in {FileName(m.path), m.func, m.message}
  BY <1>2, <1>3, FieldsOfMsg DEF Strings
<1> QED
  BY <1>1, <1>3 DEF Valid, IsValidUtf8

\* The parser reads back what was serialized, or the numbers of it.
LEMMA ReadBack ==
    ASSUME NEW m
    PROVE  LET e == ToEffectiveMsg(m)
               w == InternalSerialize(e)
           IN  /\ IsValidUtf8(m) => ParseFromArray(w) = e
               /\ \A f \in FieldNames \ Strings : ParseFromArray(w)[f] = e[f]
<1> DEFINE e == ToEffectiveMsg(m)
           w == InternalSerialize(e)
<1>1. Carries(w, e, FieldNames)
  BY Serialized
<1> HIDE DEF w
<1>2. \A f \in FieldNames \ Strings : ParseFromArray(w)[f] = e[f]
  BY <1>1, ParsedField
<1>3. ASSUME IsValidUtf8(m) PROVE ParseFromArray(w) = e
  <2>1. \A f \in FieldNames : ParseFromArray(w)[f] = e[f]
    BY <1>1, <1>3, ValidCells, ParsedField
  <2>2. ParseFromArray(w) = [f \in FieldNames |-> ParseFromArray(w)[f]]
    BY DEF ParseFromArray
  <2>3. e = [f \in FieldNames |-> e[f]]
    BY FieldsOfMsg
  <2> HIDE DEF e
  <2> QED
    BY <2>1, <2>2, <2>3
<1> QED
  BY <1>2, <1>3 DEF w

-----------------------------------------------------------------------------
(* ReadInv. *)

\* b is what the formatter of that kind makes of m.
MadeOf(kind, m, b) ==
    IF kind = "effective" THEN b = InternalSerialize(ToEffectiveMsg(m))
                          ELSE Len(b) > 0 /\ b[Len(b)] = Line(m)

\* An item is one frame, with what the formatter made of its message.
GoodItem(item) ==
    LET b == Decompress(item.cipher) IN
    /\ IsSeq(b)
    /\ item.cipher = <<[magic |-> TRUE, data |-> b]>>
    /\ ~item.raced => MadeOf(item.kind, item.msg, b)

ReadInv ==
    /\ IsFun(buf, Threads)
    /\ \A t \in Threads : IsSeq(buf[t])
    /\ \A t \in Threads :
           pc[t] = "write" /\ t \notin raced => MadeOf(held[t], msg[t], buf[t])
    /\ \A s \in SinkSet : \A i \in 1..Len(cache[s]) : GoodItem(cache[s][i])

LEMMA ReadInit == Init => ReadInv
<1> SUFFICES ASSUME Init PROVE ReadInv
  OBVIOUS
<1>1. IsFun(buf, Threads) /\ \A t \in Threads : IsSeq(buf[t])
  BY EmptyIsSeq DEF Init, IsFun
<1>2. \A t \in Threads : pc[t] = "idle"
  BY DEF Init
<1>3. \A s \in SinkSet : \A i \in 1..Len(cache[s]) : FALSE
  BY EmptyIsSeq DEF Init
<1> QED
  BY <1>1, <1>2, <1>3 DEF ReadInv

\* Nothing is formatted or written.
LEMMA ReadRests ==
    ASSUME ReadInv, UNCHANGED <<buf, cache>>,
           \A u \in Threads :
              pc'[u] = "write" /\ u \notin raced' =>
                  /\ pc[u] = "write" /\ u \notin raced
                  /\ held'[u] = held[u] /\ msg'[u] = msg[u]
    PROVE  ReadInv'
<1>1. \A u \in Threads :
          pc'[u] = "write" /\ u \notin raced' => MadeOf(held'[u], msg'[u], buf'[u])
  BY DEF ReadInv
<1> QED
  BY <1>1 DEF ReadInv

LEMMA LeaveKeeps ==
    ASSUME TypesInv, NEW t \in Threads, pc[t] # "idle", NextSink(t) \/ Return(t)
    PROVE  \A u \in Threads :
              pc'[u] = "write" /\ u \notin raced' =>
                  /\ pc[u] = "write" /\ u \notin raced /\ u # t
                  /\ held'[u] = held[u] /\ msg'[u] = msg[u]
<1>1. LeaveSink(t)
  BY DEF NextSink, Return
<1>2. /\ pc'[t] # "write"
      /\ \A u \in Threads : u # t => pc'[u] = pc[u] /\ msg'[u] = msg[u]
  BY NextSinkFacts, ReturnFacts DEF Moves
<1>3. \A u \in Threads : u # t => held'[u] = held[u] /\ (u \in raced' <=> u \in raced)
  BY <1>1 DEF LeaveSink, TypesInv, TypeOK
<1> QED
  BY <1>2, <1>3

LEMMA FromatMade ==
    ASSUME NEW kind, NEW m, NEW dest, IsSeq(dest)
    PROVE  IsSeq(Fromat(kind, m, dest)) /\ MadeOf(kind, m, Fromat(kind, m, dest))
<1>1. CASE kind = "effective"
  <2>1. Fromat(kind, m, dest) = InternalSerialize(ToEffectiveMsg(m))
    BY <1>1, FromatSerializes DEF Fromat
  <2>2. IsSeq(InternalSerialize(ToEffectiveMsg(m)))
    BY Serialized DEF Carries
  <2> QED
    BY <1>1, <2>1, <2>2 DEF MadeOf
<1>2. CASE kind # "effective"
  <2>1. Fromat(kind, m, dest) = Append(dest, Line(m))
    BY <1>2 DEF Fromat, DefaultFromat
  <2>2. PICK L \in Nat : L = Len(dest)
    BY DEF IsSeq
  <2> DEFINE v == Append(dest, Line(m))
  <2>3. IsSeq(v) /\ Len(v) = Len(dest) + 1 /\ v[Len(dest) + 1] = Line(m)
    BY AppendFacts
  <2> HIDE DEF v
  <2>4. Len(v) > 0 /\ v[Len(v)] = Line(m)
    BY <2>2, <2>3
  <2> QED
    BY <1>2, <2>1, <2>3, <2>4 DEF MadeOf, v
<1> QED
  BY <1>1, <1>2

LEMMA ReadFormat ==
    ASSUME TypesInv, ReadInv, NEW t \in Threads, FormatItem(t)
    PROVE  ReadInv'
<1>1. PICK text \in Formatted(t, buf[t]) : buf' = [buf EXCEPT ![t] = text]
  BY DEF FormatItem
<1>2. /\ pc[t] = "format" /\ pc' = [pc EXCEPT ![t] = "write"]
      /\ UNCHANGED <<msg, held, cache, raced>>
  BY DEF FormatItem, output
<1>3. IsSeq(text) /\ (t \notin raced => MadeOf(held[t], msg[t], text))
  <2>1. IsSeq(buf[t])
    BY DEF ReadInv
  <2>2. CASE text = Fromat(held[t], msg[t], buf[t])
    BY <2>1, <2>2, FromatMade
  <2>3. CASE t \in raced /\ text = Append(buf[t], Junk)
    BY <2>1, <2>3, AppendFacts
  <2> QED
    BY <2>2, <2>3 DEF Formatted
<1>4. /\ IsFun(buf', Threads)
      /\ buf'[t] = text /\ \A u \in Threads : u # t => buf'[u] = buf[u]
  BY <1>1 DEF ReadInv, IsFun
<1>5. \A u \in Threads : IsSeq(buf'[u])
  BY <1>3, <1>4 DEF ReadInv
<1>6. ASSUME NEW u \in Threads, pc'[u] = "write", u \notin raced'
      PROVE  MadeOf(held'[u], msg'[u], buf'[u])
  <2>1. CASE u = t
    BY <1>2, <1>3, <1>4, <1>6, <2>1
  <2>2. CASE u # t
    <3>1. pc[u] = "write"
      BY <1>2, <1>6, <2>2 DEF TypesInv, TypeOK
    <3> QED
      BY <1>2, <1>4, <1>6, <2>2, <3>1 DEF ReadInv
  <2> QED
    BY <2>1, <2>2
<1> QED
  BY <1>2, <1>4, <1>5, <1>6 DEF ReadInv

LEMMA ReadWrite ==
    ASSUME TypesInv, ReadInv, NEW t \in Threads, WriteItem(t)
    PROVE  ReadInv'
<1> DEFINE item == [msg |-> msg[t], kind |-> held[t], raced |-> t \in raced,
                    cipher |-> EncryptItem(Compress(stream[At(t)], buf[t]),
                                           encryped_buf_[At(t)])]
<1>1. cache' = [cache EXCEPT ![At(t)] = Append(cache[At(t)], item)]
  BY Zenon DEF WriteItem
<1>2. /\ pc[t] = "write" /\ NextSink(t) /\ buf' = buf /\ At(t) \in SinkSet
  BY AtFacts DEF WriteItem
<1>3. GoodItem(item)
  <2>1. IsSeq(buf[t])
    BY DEF ReadInv
  <2>2. item.cipher = <<[magic |-> TRUE, data |-> buf[t]]>>
    <3>1. <<>> \o buf[t] = buf[t]
      BY <2>1, SeqEnds
    <3>2. Compress(stream[At(t)], buf[t]) = [magic |-> TRUE, data |-> buf[t]]
      BY <3>1 DEF Compress, StreamIn, ResetStream
    <3> DEFINE frame == [magic |-> TRUE, data |-> buf[t]]
    <3> HIDE DEF frame
    <3>3. Append(<<>>, frame) = <<frame>>
      OBVIOUS
    <3> QED
      BY <3>2, <3>3, Zenon DEF EncryptItem, Encrypt, frame
  <2>3. Decompress(item.cipher) = buf[t]
    BY <2>2 DEF Decompress
  <2>4. /\ item.msg = msg[t] /\ item.kind = held[t]
        /\ ~item.raced => t \notin raced
    BY Zenon
  <2> HIDE DEF item
  <2>5. ~item.raced => MadeOf(held[t], msg[t], buf[t])
    BY <1>2, <2>4 DEF ReadInv
  <2> QED
    BY <2>1, <2>2, <2>3, <2>4, <2>5 DEF GoodItem
<1> HIDE DEF item
<1>4. /\ cache'[At(t)] = Append(cache[At(t)], item)
      /\ \A s \in SinkSet : s # At(t) => cache'[s] = cache[s]
  BY <1>1, <1>2 DEF TypesInv, IsFun
<1>5. ASSUME NEW s \in SinkSet, NEW i \in 1..Len(cache'[s])
      PROVE  GoodItem(cache'[s][i])
  <2>1. CASE s = At(t)
    <3>1. /\ Len(cache'[s]) = Len(cache[s]) + 1
          /\ \A j \in 1..Len(cache[s]) : cache'[s][j] = cache[s][j]
          /\ cache'[s][Len(cache[s]) + 1] = item
          /\ \A j \in 1..(Len(cache[s]) + 1) :
                j \in 1..Len(cache[s]) \/ j = Len(cache[s]) + 1
      BY <1>4, <2>1, AppendFacts DEF TypesInv
    <3> QED
      BY <1>3, <1>5, <3>1 DEF ReadInv
  <2>2. CASE s # At(t)
    BY <1>4, <1>5, <2>2 DEF ReadInv
  <2> QED
    BY <2>1, <2>2
<1>6. \A u \in Threads :
          pc'[u] = "write" /\ u \notin raced' => MadeOf(held'[u], msg'[u], buf'[u])
  BY <1>2, LeaveKeeps DEF ReadInv
<1> QED
  BY <1>2, <1>5, <1>6 DEF ReadInv

LEMMA ReadStep == TypesInv /\ ReadInv /\ [Next]_vars => ReadInv'
<1> SUFFICES ASSUME TypesInv, ReadInv, [Next]_vars PROVE ReadInv'
  OBVIOUS
<1>1. CASE SetLevel
  BY <1>1, ReadRests DEF SetLevel, thread, codec, output
<1>2. CASE SetForMatter
  <2>1. UNCHANGED <<pc, msg, held, buf, cache>> /\ raced \subseteq raced'
    BY <1>2 DEF SetForMatter, thread, codec, output
  <2> QED
    BY <2>1, ReadRests
<1>3. ASSUME NEW t \in Threads, Log(t) PROVE ReadInv'
  <2>1. /\ UNCHANGED <<held, buf, cache, raced>> /\ pc[t] = "idle"
        /\ \/ UNCHANGED <<msg, pc>>
           \/ /\ pc' = [pc EXCEPT ![t] = "sink"]
              /\ \A u \in Threads : u # t => msg'[u] = msg[u]
    BY <1>3 DEF Log, codec, output, TypesInv, IsFun
  <2>2. \A u \in Threads : pc'[u] = "write" => pc[u] = "write" /\ msg'[u] = msg[u]
    BY <2>1 DEF TypesInv, TypeOK
  <2> QED
    BY <2>1, <2>2, ReadRests
<1>4. ASSUME NEW t \in Threads, NEW step, step # "write", pc' = [pc EXCEPT ![t] = step],
             UNCHANGED <<msg, buf, cache, raced>>,
             \A u \in Threads : u # t => held'[u] = held[u]
      PROVE  ReadInv'
  <2>1. \A u \in Threads : pc'[u] = "write" => pc[u] = "write" /\ u # t
    BY <1>4 DEF TypesInv, TypeOK
  <2> QED
    BY <1>4, <2>1, ReadRests
<1>5. ASSUME NEW t \in Threads, LoadFormatter(t) PROVE ReadInv'
  <2>1. \A u \in Threads : u # t => held'[u] = held[u]
    BY <1>5 DEF LoadFormatter, TypesInv, TypeOK
  <2> QED
    BY <1>4, <1>5, <2>1 DEF LoadFormatter, codec, output
<1>6. ASSUME NEW t \in Threads, ConsoleText(t) PROVE ReadInv'
  BY <1>4, <1>6 DEF ConsoleText, codec
<1>7. ASSUME NEW t \in Threads, pc[t] # "idle", NextSink(t) \/ Return(t),
             UNCHANGED <<buf, cache>>
      PROVE  ReadInv'
  BY <1>7, LeaveKeeps, ReadRests
<1>8. ASSUME NEW t \in Threads, ConsoleNewline(t) PROVE ReadInv'
  BY <1>7, <1>8 DEF ConsoleNewline, codec
<1>9. ASSUME NEW t \in Threads, FormatItem(t) PROVE ReadInv'
  BY <1>9, ReadFormat
<1>10. ASSUME NEW t \in Threads, WriteItem(t) PROVE ReadInv'
  BY <1>10, ReadWrite
<1>11. ASSUME NEW t \in Threads, CompressFails(t) PROVE ReadInv'
  BY <1>7, <1>11 DEF CompressFails, output
<1>12. ASSUME NEW t \in Threads, WriteThrows(t) PROVE ReadInv'
  BY <1>7, <1>12 DEF WriteThrows, output
<1>13. CASE UNCHANGED vars
  BY <1>13, ReadRests DEF vars, thread, codec, output
<1> QED
  BY <1>1, <1>2, <1>3, <1>5, <1>6, <1>8, <1>9, <1>10, <1>11, <1>12, <1>13 DEF Next

LEMMA ReadAlways == Spec => []ReadInv
  BY TypesAlways, ReadInit, ReadStep, PTL DEF Spec

LEMMA ItemsGood ==
    ASSUME ReadInv, NEW p \in Items
    PROVE  GoodItem(ItemAt(p))
<1>1. PICK s \in SinkSet : p \in {<<s, i>> : i \in 1..Len(cache[s])}
  BY DEF Items
<1>2. PICK i \in 1..Len(cache[s]) : p = <<s, i>>
  BY <1>1
<1>3. ItemAt(p) = cache[s][i]
  BY <1>2 DEF ItemAt
<1> QED
  BY <1>3 DEF ReadInv

(***************************************************************************)
(* Whatever earlier calls, failures and changes of formatters left in the  *)
(* thread's buffer, the stream and encryped_buf_, the parser reads back    *)
(* from every item the message of its call, and of one that is not UTF-8   *)
(* at least the numbers; for any message, and any number of threads and    *)
(* sinks.                                                                  *)
(***************************************************************************)
THEOREM ParserReadsItems == Spec => []ItemsReadBack
<1>1. ASSUME ReadInv PROVE ItemsReadBack
  <2> SUFFICES ASSUME NEW p \in Items, ~ItemAt(p).raced
               PROVE  LET item == ItemAt(p)
                          data == Decompress(item.cipher)
                          entry == ParseOne(item.cipher)
                          meant == ToEffectiveMsg(item.msg)
                      IN  /\ Decodable(item.cipher)
                          /\ item.kind = "effective" /\ IsValidUtf8(item.msg) =>
                                entry = meant
                          /\ item.kind = "effective" =>
                                \A f \in FieldNames \ Strings :
                                    entry[f] = meant[f]
                          /\ item.kind = "default" => data[Len(data)] = Line(item.msg)
    BY Zenon DEF ItemsReadBack
  <2> DEFINE item == ItemAt(p)
             b == Decompress(item.cipher)
  <2>1. GoodItem(item)
    BY <1>1, ItemsGood
  <2>2. item.cipher = <<[magic |-> TRUE, data |-> b]>> /\ MadeOf(item.kind, item.msg, b)
    BY <2>1, Zenon DEF GoodItem
  <2>3. Decodable(item.cipher)
    BY <2>2 DEF Decodable
  <2>4. ASSUME item.kind = "effective", IsValidUtf8(item.msg)
        PROVE  ParseOne(item.cipher) = ToEffectiveMsg(item.msg)
    BY <2>2, <2>4, ReadBack DEF ParseOne, MadeOf
  <2>5. ASSUME item.kind = "effective", NEW f \in FieldNames \ Strings
        PROVE  ParseOne(item.cipher)[f] = ToEffectiveMsg(item.msg)[f]
    BY <2>2, <2>5, ReadBack DEF ParseOne, MadeOf
  <2>6. item.kind = "default" => b[Len(b)] = Line(item.msg)
    BY <2>2 DEF MadeOf
  <2> QED
    BY <2>3, <2>4, <2>6, <2>5
<1> QED
  BY <1>1, ReadAlways, PTL
=============================================================================
