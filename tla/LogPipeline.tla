---------------------------- MODULE LogPipeline ----------------------------
(***************************************************************************)
(* LogHandle with its sinks: threads that log through one handle while     *)
(* others change its level and the formatters of its sinks.  ConsoleSink   *)
(* writes to stdout; EffectiveSink formats into a thread_local buffer and  *)
(* then, under its mtx_, compresses, encrypts and pushes the item.  The    *)
(* caches behind that push are EffectiveSink and MMapAux; here a cache is  *)
(* the sequence of the items pushed.                                       *)
(***************************************************************************)
EXTENDS EffectiveMsg

CONSTANTS
    Threads,         \* threads that log
    Sinks,           \* sinks_: the sequence of the handle's sinks
    Consoles,        \* those of them that are ConsoleSinks
    Messages,        \* what Log is called with: level, path, line, func, message
    Levels,          \* arguments of SetLevel
    MaxCalls,        \* bound: calls of Log
    MaxLevelChanges, \* bound: calls of SetLevel
    MaxSwaps,        \* bound: calls of SetForMatter
    MaxFailures      \* bound: compressions, encryptions and pushes that fail

ASSUME PipelineAssumption ==
    /\ Sinks \in Seq({Sinks[i] : i \in 1..Len(Sinks)})
    /\ Levels \subseteq 0..6
    /\ MaxCalls \in Nat /\ MaxLevelChanges \in Nat /\ MaxSwaps \in Nat
    /\ MaxFailures \in Nat

SinkSet == {Sinks[i] : i \in 1..Len(Sinks)}

Kinds == {"default", "effective"}

VARIABLES
    level_,          \* LogHandle: the level, an atomic
    pc,              \* where each thread is in Log
    msg,             \* the LogMsg of each thread's call
    idx,             \* Log_: the sink the thread is at; 0: not in the loop
    buf,             \* EffectiveSink::Log: the static thread_local buf
    held,            \* kind of the formatter a thread is calling
    formatter_,      \* each sink's formatter
    stream,          \* compress_: input left in the stream
    encryped_buf_,   \* each EffectiveSink's
    cache,           \* items pushed, with the call they are from
    stdout,          \* what fwrite was called with
    calls,           \* calls of Log so far
    changes,         \* calls of SetLevel so far
    swaps,           \* calls of SetForMatter so far
    failures,        \* failures so far
    accepted,        \* history: calls at or above the level
    raced            \* history: threads whose formatter was replaced meanwhile

handle == <<level_, changes>>
thread == <<pc, msg, idx, held>>
codec  == <<buf, stream, encryped_buf_>>
output == <<cache, stdout>>
vars   == <<handle, thread, codec, output, formatter_, calls, swaps, failures,
            accepted, raced>>

NoMsg == [n |-> 0]

TypeOK ==
    /\ level_ \in 0..6
    /\ pc \in [Threads -> {"idle", "sink", "format", "newline", "write"}]
    /\ \A t \in Threads : msg[t].n \in 0..calls
    /\ idx \in [Threads -> 0..Len(Sinks)]
    /\ \A t \in Threads : idx[t] = 0 <=> pc[t] = "idle"
    /\ held \in [Threads -> Kinds \cup {"none"}]
    /\ formatter_ \in [SinkSet -> Kinds]
    /\ \A s \in SinkSet : Len(encryped_buf_[s]) <= 1
    /\ \A s \in SinkSet : s \in Consoles => cache[s] = <<>>
    /\ calls \in 0..MaxCalls
    /\ failures \in 0..MaxFailures
    /\ accepted \subseteq 1..calls
    /\ raced \subseteq Threads

Init ==
    /\ level_ = 2
    /\ pc = [t \in Threads |-> "idle"]
    /\ msg = [t \in Threads |-> NoMsg]
    /\ idx = [t \in Threads |-> 0]
    /\ buf = [t \in Threads |-> <<>>]
    /\ held = [t \in Threads |-> "none"]
    /\ formatter_ = [s \in SinkSet |-> IF s \in Consoles THEN "default"
                                                         ELSE "effective"]
    /\ stream = [s \in SinkSet |-> <<>>]
    /\ encryped_buf_ = [s \in SinkSet |-> <<>>]
    /\ cache = [s \in SinkSet |-> <<>>]
    /\ stdout = <<>>
    /\ calls = 0 /\ changes = 0 /\ swaps = 0 /\ failures = 0
    /\ accepted = {} /\ raced = {}

-----------------------------------------------------------------------------
(* LogHandle *)

SetLevel ==
    /\ changes < MaxLevelChanges
    /\ changes' = changes + 1
    /\ level_' \in Levels
    /\ UNCHANGED <<thread, codec, output, formatter_, calls, swaps, failures,
                   accepted, raced>>

\* Mutant: only what is above the level.
ShouldLog_Above(lvl) == lvl > level_ /\ Sinks # <<>>

ShouldLog(lvl) == lvl >= level_ /\ Sinks # <<>>

\* A call that is filtered out returns at once; another enters the loop.
Log(t) ==
    /\ pc[t] = "idle"
    /\ calls < MaxCalls
    /\ calls' = calls + 1
    /\ \E m \in Messages :
        /\ accepted' = IF m.level >= level_ THEN accepted \cup {calls'}
                                            ELSE accepted
        /\ IF ShouldLog(m.level)
           THEN /\ msg' = [msg EXCEPT ![t] =
                              [level |-> m.level, path |-> m.path, line |-> m.line,
                               func |-> m.func, message |-> m.message,
                               tid |-> t, n |-> calls']]
                /\ idx' = [idx EXCEPT ![t] = 1]
                /\ pc' = [pc EXCEPT ![t] = "sink"]
           ELSE UNCHANGED <<msg, idx, pc>>
    /\ UNCHANGED <<handle, held, codec, output, formatter_, swaps, failures, raced>>

At(t) == Sinks[idx[t]]

\* sink->Log is over, for whatever reason.
LeaveSink(t) ==
    /\ held' = [held EXCEPT ![t] = "none"]
    /\ raced' = raced \ {t}

\* The call is over: the loop has ended, or an exception leaves it.
Return(t) ==
    /\ LeaveSink(t)
    /\ idx' = [idx EXCEPT ![t] = 0]
    /\ pc' = [pc EXCEPT ![t] = "idle"]
    /\ msg' = [msg EXCEPT ![t] = NoMsg]

\* Mutant: the loop goes on behind the last sink.
NextSink_NoEnd(t) ==
    /\ LeaveSink(t)
    /\ idx' = [idx EXCEPT ![t] = @ + 1]
    /\ pc' = [pc EXCEPT ![t] = "sink"]
    /\ UNCHANGED msg

\* Mutant: the last sink is left out.
NextSink_StopEarly(t) ==
    IF idx[t] + 1 >= Len(Sinks)
    THEN Return(t)
    ELSE /\ LeaveSink(t)
         /\ idx' = [idx EXCEPT ![t] = @ + 1]
         /\ pc' = [pc EXCEPT ![t] = "sink"]
         /\ UNCHANGED msg

\* The loop of Log_, when sink->Log returns.
NextSink(t) ==
    IF idx[t] = Len(Sinks)
    THEN Return(t)
    ELSE /\ LeaveSink(t)
         /\ idx' = [idx EXCEPT ![t] = @ + 1]
         /\ pc' = [pc EXCEPT ![t] = "sink"]
         /\ UNCHANGED msg

-----------------------------------------------------------------------------
(* The sinks *)

\* Both sinks' Log: the pointer to the formatter is read ...
LoadFormatter(t) ==
    /\ pc[t] = "sink"
    /\ held' = [held EXCEPT ![t] = formatter_[At(t)]]
    /\ pc' = [pc EXCEPT ![t] = "format"]
    /\ UNCHANGED <<handle, msg, idx, codec, output, formatter_, calls, swaps,
                   failures, accepted, raced>>

\* SetForMatter frees the formatter others may be calling.
SetForMatter ==
    /\ swaps < MaxSwaps
    /\ swaps' = swaps + 1
    /\ \E s \in SinkSet, k \in Kinds :
        /\ formatter_' = [formatter_ EXCEPT ![s] = k]
        /\ raced' = raced \cup
                       {t \in Threads : pc[t] = "format" /\ At(t) = s}
    /\ UNCHANGED <<handle, thread, codec, output, calls, failures, accepted>>

\* ... and used: a formatter that was freed meanwhile may do its work or not.
Formatted(t, dest) ==
    {Fromat(held[t], msg[t], dest)} \cup
        (IF t \in raced THEN {Append(dest, Junk)} ELSE {})

\* ConsoleSink::Log: format into a buffer of its own, then the first fwrite.
ConsoleText(t) ==
    /\ pc[t] = "format"
    /\ At(t) \in Consoles
    /\ \E text \in Formatted(t, <<>>) :
          stdout' = Append(stdout, [by |-> t, n |-> msg[t].n, text |-> text])
    /\ pc' = [pc EXCEPT ![t] = "newline"]
    /\ UNCHANGED <<handle, msg, idx, held, codec, cache, formatter_, calls,
                   swaps, failures, accepted, raced>>

\* Mutant: the second fwrite is missing.
ConsoleNewline_None(t) ==
    /\ pc[t] = "newline"
    /\ NextSink(t)
    /\ UNCHANGED <<handle, codec, output, formatter_, calls, swaps, failures,
                   accepted>>

\* The second fwrite.
ConsoleNewline(t) ==
    /\ pc[t] = "newline"
    /\ stdout' = Append(stdout, [by |-> t, n |-> 0, text |-> <<>>])
    /\ NextSink(t)
    /\ UNCHANGED <<handle, codec, cache, formatter_, calls, swaps, failures,
                   accepted>>

\* Mutant: buf is static but not thread_local.
FormatItem_Shared(t) ==
    /\ pc[t] = "format"
    /\ At(t) \notin Consoles
    /\ \E text \in Formatted(t, buf[t]) : buf' = [u \in Threads |-> text]
    /\ pc' = [pc EXCEPT ![t] = "write"]
    /\ UNCHANGED <<handle, msg, idx, held, stream, encryped_buf_, output,
                   formatter_, calls, swaps, failures, accepted, raced>>

\* EffectiveSink::Log, before the lock.
FormatItem(t) ==
    /\ pc[t] = "format"
    /\ At(t) \notin Consoles
    /\ \E text \in Formatted(t, buf[t]) : buf' = [buf EXCEPT ![t] = text]
    /\ pc' = [pc EXCEPT ![t] = "write"]
    /\ UNCHANGED <<handle, msg, idx, held, stream, encryped_buf_, output,
                   formatter_, calls, swaps, failures, accepted, raced>>

\* EffectiveSink::Log, the part under mtx_: what only this part touches may
\* change in one step.
WriteItem(t) ==
    LET s == At(t)
        cipher == EncryptItem(Compress(stream[s], buf[t]), encryped_buf_[s])
    IN  /\ pc[t] = "write"
        /\ stream' = [stream EXCEPT ![s] = <<>>]
        /\ encryped_buf_' = [encryped_buf_ EXCEPT ![s] = cipher]
        /\ cache' = [cache EXCEPT ![s] = Append(@,
                        [msg |-> msg[t], kind |-> held[t], raced |-> t \in raced,
                         cipher |-> cipher])]
        /\ NextSink(t)
        /\ UNCHANGED <<handle, buf, stdout, formatter_, calls, swaps, failures,
                       accepted>>

Fails == failures < MaxFailures /\ failures' = failures + 1

\* Compress returns 0: the item is dropped, its input stays in the stream.
CompressFails(t) ==
    LET s == At(t) IN
    /\ pc[t] = "write"
    /\ Fails
    /\ stream' = [stream EXCEPT ![s] = StreamIn(@, buf[t])]
    /\ NextSink(t)
    /\ UNCHANGED <<handle, buf, encryped_buf_, output, formatter_, calls, swaps,
                   accepted>>

\* Encrypt throws, with a part of its output written, or Push does (after which
\* MMapAux may be unusable: LogPipeline lets the sink go on).  The exception
\* leaves Log, and the sinks behind this one do not get the message.
WriteThrows(t) ==
    LET s == At(t) IN
    /\ pc[t] = "write"
    /\ Fails
    /\ stream' = [stream EXCEPT ![s] = <<>>]
    /\ encryped_buf_' = [encryped_buf_ EXCEPT ![s] = <<Torn>>]
    /\ Return(t)
    /\ UNCHANGED <<handle, buf, output, formatter_, calls, swaps, accepted>>

Next ==
    \/ SetLevel
    \/ SetForMatter
    \/ \E t \in Threads :
        \/ Log(t) \/ LoadFormatter(t)
        \/ ConsoleText(t) \/ ConsoleNewline(t)
        \/ FormatItem(t) \/ WriteItem(t) \/ CompressFails(t) \/ WriteThrows(t)

Spec == Init /\ [][Next]_vars

-----------------------------------------------------------------------------
(* Properties. *)

Items == UNION {{<<s, i>> : i \in 1..Len(cache[s])} : s \in SinkSet}
ItemAt(p) == cache[p[1]][p[2]]

IsValidUtf8(m) ==
    \A v \in {FileName(m.path), m.func, m.message} :
        \A i \in 1..Len(v) : v[i] # Bad

(***************************************************************************)
(* The parser reads back from every item the message of the call it is     *)
(* from, whatever earlier calls left in the thread's buffer, which all     *)
(* EffectiveSinks share, in the stream and in encryped_buf_, also when     *)
(* they failed or a formatter was freed under them, or the buffer was      *)
(* filled by a DefaultFormatter.  With a DefaultFormatter the buffer is    *)
(* never cleared: the message is still in the item, as its last line.  A   *)
(* string that is not UTF-8 ends the parsing, and the result is not looked *)
(* at: it costs strings, but the numbers of the entry are right.           *)
(***************************************************************************)
ItemsReadBack ==
    \A p \in Items :
        LET item == ItemAt(p)
            data == Decompress(item.cipher)
            entry == ParseOne(item.cipher)
            meant == ToEffectiveMsg(item.msg)
        IN  ~item.raced =>
                /\ Decodable(item.cipher)
                /\ item.kind = "effective" /\ IsValidUtf8(item.msg) =>
                      entry = meant
                /\ item.kind = "effective" =>
                      \A f \in FieldNames \ Strings : entry[f] = meant[f]
                /\ item.kind = "default" => data[Len(data)] = Line(item.msg)

\* What a sink got: the thread and the number of the call; 0 for a newline.
Numbers(s) ==
    IF s \in Consoles
    THEN [i \in 1..Len(stdout) |-> <<stdout[i].by, stdout[i].n>>]
    ELSE [i \in 1..Len(cache[s]) |-> <<cache[s][i].msg.tid, cache[s][i].msg.n>>]

(***************************************************************************)
(* Every sink gets the messages of a thread in the order they were logged, *)
(* none twice and none below the level; and those it does not get, once no *)
(* call is in progress for them, are no more than there were failures: a   *)
(* failure costs one message at most at this or a later sink.              *)
(***************************************************************************)
Delivered ==
    \A s \in SinkSet :
        LET got == Numbers(s)
            texts == {i \in 1..Len(got) : got[i][2] # 0}
            seen == {got[i][2] : i \in texts}
            pending == {msg[t].n : t \in Threads}
        IN  /\ \A i, j \in texts :
                  i < j /\ got[i][1] = got[j][1] => got[i][2] < got[j][2]
            /\ seen \subseteq accepted
            /\ Cardinality((accepted \ seen) \ pending) <= failures

(***************************************************************************)
(* Lines of several threads may share a line of stdout, as text and        *)
(* newline are written separately, but not two of one thread, and when all *)
(* is quiet there are as many newlines as texts.                           *)
(***************************************************************************)
LinesMixBounded ==
    LET n == Len(stdout) IN
    /\ \A i, j \in 1..n :
          i < j /\ stdout[i].by = stdout[j].by /\ stdout[i].n # 0
                /\ stdout[j].n # 0 =>
              \E k \in i..j : stdout[k].n = 0 /\ stdout[k].by = stdout[i].by
    /\ (\A t \in Threads : pc[t] = "idle") =>
          Cardinality({i \in 1..n : stdout[i].n = 0}) * 2 = n
=============================================================================
