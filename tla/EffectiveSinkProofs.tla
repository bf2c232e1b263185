------------------------ MODULE EffectiveSinkProofs ------------------------
(***************************************************************************)
(* Theorems about EffectiveSink, for any number of threads, items, flushes *)
(* and crashes and for any page size and capacity: SinkInv, which holds of *)
(* the threads, the worker and the two caches together, and on top of it   *)
(* what the sink guarantees its callers.  Flush is durable, items are      *)
(* neither torn apart nor reordered, and the sink implements DurableLog.   *)
(***************************************************************************)
EXTENDS EffectiveSink, FiniteSetTheorems, TLAPS

-----------------------------------------------------------------------------
(* The operations of the cache files keep them well-typed. *)

\* Rounding up to pages yields a size.
LEMMA CapacityType ==
    ASSUME NEW size \in Nat
    PROVE  GetValidCapacity(size) \in Nat
<1>1. PageSize \in Nat /\ PageSize > 0
  BY BufferAssumption
<1>2. size + PageSize - 1 \in Nat
  BY <1>1
<1>3. (size + PageSize - 1) \div PageSize \in Nat
  BY <1>1, <1>2
<1> DEFINE q == (size + PageSize - 1) \div PageSize
<1>4. q * PageSize \in Nat
  <2> HIDE DEF q
  <2> QED
    BY <1>1, <1>3 DEF q
<1> QED
  BY <1>4 DEF GetValidCapacity

\* Mapping a file keeps its content.
LEMMA OpenType ==
    ASSUME NEW b \in Buffer
    PROVE  /\ Open(b) \in Buffer
           /\ Open(b).data = b.data
<1>1. (IF b.cap > DefaultCapacity THEN b.cap ELSE DefaultCapacity) \in Nat
  BY BufferAssumption DEF Buffer
<1>2. GetValidCapacity(IF b.cap > DefaultCapacity
                       THEN b.cap ELSE DefaultCapacity) \in Nat
  BY <1>1, CapacityType
<1> HIDE DEF GetValidCapacity
<1> QED
  BY <1>2 DEF Open, Buffer

\* Push appends and, where it has to, grows.
LEMMA PushType ==
    ASSUME NEW b \in Buffer, NEW x \in Token
    PROVE  /\ Push(b, x) \in Buffer
           /\ Push(b, x).data = Append(b.data, x)
<1>1. HeaderSize + Size(b) + 1 \in Nat
  BY BufferAssumption DEF Size, Buffer
<1>2. GetValidCapacity(HeaderSize + Size(b) + 1) \in Nat
  BY <1>1, CapacityType
<1> DEFINE n == HeaderSize + Size(b) + 1
<1>3. /\ Reserve(b, n) \in Buffer
      /\ Reserve(b, n).data = b.data
  <2> HIDE DEF n
  <2> QED
    BY <1>1, <1>2 DEF n, Reserve, Buffer
<1> DEFINE r == Reserve(b, n)
<1>4. Push(b, x) = [r EXCEPT !.data = Append(@, x)]
  BY DEF Push
<1>5. [r EXCEPT !.data = Append(@, x)] \in Buffer
  <2> HIDE DEF r
  <2>1. r \in [data : Seq(Token), cap : Nat]
    BY <1>3 DEF r, Buffer
  <2>2. Append(r.data, x) \in Seq(Token)
    BY <2>1
  <2> QED
    BY <2>1, <2>2 DEF Buffer
<1>6. [r EXCEPT !.data = Append(@, x)].data = Append(b.data, x)
  <2> HIDE DEF n
  <2> QED
    BY <1>3 DEF Buffer
<1> QED
  BY <1>4, <1>5, <1>6

\* What is read out of a cache is a sequence of tokens, and the whole
\* content when its length is the size of the cache.
LEMMA ReadOutType ==
    ASSUME NEW b \in Buffer, NEW n \in Nat
    PROVE  /\ ReadOut(b, n, Stale) \in Seq(Token)
           /\ n = Size(b) => ReadOut(b, n, Stale) = b.data
<1>1. Stale \in Token
  BY DEF Stale, Token
<1>2. b.data \in Seq(Token)
  BY DEF Buffer
<1>3. \A i \in 1..n :
        (IF i <= Size(b) THEN b.data[i] ELSE Stale) \in Token
  BY <1>1, <1>2 DEF Size
<1>4. ReadOut(b, n, Stale) \in Seq(Token)
  BY <1>3 DEF ReadOut
<1>5. ASSUME n = Size(b)
      PROVE  ReadOut(b, n, Stale) = b.data
  BY <1>2, <1>5 DEF ReadOut, Size
<1> QED
  BY <1>4, <1>5

-----------------------------------------------------------------------------
(* Type correctness. *)

\* The two kinds of task are tasks, and an idle task names its thread.
LEMMA TaskType ==
    /\ CacheTask \in Task
    /\ \A t \in Procs : IdleTask(t) \in Task
    /\ \A x \in Task : x.task = "idle" => x.who \in Procs
<1>1. CacheTask \in Task
  BY DEF Task
<1>2. \A t \in Procs : IdleTask(t) \in Task
  BY DEF Task
<1>3. ASSUME NEW x \in Task, x.task = "idle"
      PROVE  x.who \in Procs
  <2>1. CASE x = CacheTask
    BY <1>3, <2>1 DEF CacheTask
  <2>2. ASSUME NEW t \in Procs, x = IdleTask(t)
        PROVE  x.who \in Procs
    BY <2>2 DEF IdleTask
  <2> QED
    BY <2>1, <2>2 DEF Task
<1> QED
  BY <1>1, <1>2, <1>3

\* What Log pushes are tokens.
LEMMA TokenType ==
    ASSUME key \in Nat, nextId \in Nat
    PROVE  ItemHeader(nextId) \in Token /\ ItemBody(nextId) \in Token
BY DEF Token, ItemHeader, ItemBody

\* A buffer stored in buf keeps buf well-typed.
LEMMA BufType ==
    ASSUME buf \in [Caches -> Buffer], NEW c \in Caches, NEW b \in Buffer
    PROVE  [buf EXCEPT ![c] = b] \in [Caches -> Buffer]
OBVIOUS

\* Clear keeps the capacity.
LEMMA ClearType ==
    ASSUME NEW b \in Buffer
    PROVE  Clear(b) \in Buffer /\ Clear(b).data = <<>>
<1>1. <<>> \in Seq(Token)
  OBVIOUS
<1>2. b \in [data : Seq(Token), cap : Nat]
  BY DEF Buffer
<1> DEFINE e == <<>>
<1> HIDE DEF e
<1>3. [b EXCEPT !.data = e] \in [data : Seq(Token), cap : Nat]
  BY <1>1, <1>2 DEF e
<1>4. [b EXCEPT !.data = e].data = e
  BY <1>2
<1> QED
  BY <1>3, <1>4 DEF Clear, Buffer, e

\* A chunk begins without data.
LEMMA NewChunkType ==
    ASSUME key \in Nat, chunk_size \in Nat
    PROVE  NewChunk \in Chunk /\ NewChunk.data = <<>>
<1> DEFINE e == <<>>
<1>1. e \in Seq(Token)
  OBVIOUS
<1> HIDE DEF e
<1>2. [key |-> key, size |-> chunk_size, data |-> e] \in Chunk
  BY <1>1 DEF Chunk
<1>3. [key |-> key, size |-> chunk_size, data |-> e].data = e
  OBVIOUS
<1> QED
  BY <1>2, <1>3 DEF e, NewChunk

\* Giving the last chunk its data keeps the file well-typed, its length and
\* the other chunks.
LEMMA SetDataType ==
    ASSUME file \in Seq(Chunk), NEW d \in Seq(Token)
    PROVE  LET f == [file EXCEPT ![Len(file)].data = d]
           IN  /\ f \in Seq(Chunk)
               /\ Len(f) = Len(file)
               /\ \A n \in 1..Len(file) :
                     f[n].data = IF n = Len(file) THEN d ELSE file[n].data
<1> DEFINE f == [file EXCEPT ![Len(file)].data = d]
<1>1. ASSUME NEW n \in 1..Len(file)
      PROVE  f[n] \in Chunk /\ f[n].data = IF n = Len(file) THEN d
                                                         ELSE file[n].data
  <2>1. file[n] \in Chunk
    OBVIOUS
  <2>2. file[n] \in [key : Nat, size : Nat, data : Seq(Token)]
    BY <2>1 DEF Chunk
  <2> DEFINE g == [file[n] EXCEPT !.data = d]
  <2>3. g \in Chunk /\ g.data = d
    BY <2>2 DEF Chunk
  <2>4. f[n] = IF n = Len(file) THEN g ELSE file[n]
    OBVIOUS
  <2> HIDE DEF f, g
  <2> QED
    BY <2>1, <2>3, <2>4
<1>2. f \in Seq(Chunk) /\ Len(f) = Len(file)
  <2>1. DOMAIN f = 1..Len(file) /\ Len(file) \in Nat
    OBVIOUS
  <2>2. f = [n \in 1..Len(file) |-> f[n]]
    BY <2>1
  <2> HIDE DEF f
  <2> QED
    BY <1>1, <2>1, <2>2
<1> HIDE DEF f
<1> QED
  BY <1>1, <1>2 DEF f

\* Every step keeps the types.
LEMMA TypeStep ==
    TypeOK /\ [Next]_vars => TypeOK'
<1> SUFFICES ASSUME TypeOK, [Next]_vars
             PROVE  TypeOK'
  OBVIOUS
<1> USE DEF TypeOK, Goto, RunnerGoto, caches, runner, history, PCs, RunnerPCs,
            Procs
<1>1. CASE Construct
  <2>1. buf' \in [Caches -> Buffer]
    BY <1>1, OpenType DEF Construct
  <2> QED
    BY <1>1, <2>1 DEF Construct
<1>2. CASE RecoverSlave
  BY <1>2 DEF RecoverSlave
<1>3. CASE RecoverMaster
  BY <1>3 DEF RecoverMaster
<1>4. CASE TakeTask
  <2>1. Head(queue) \in Task /\ Tail(queue) \in Seq(Task)
    BY <1>4 DEF TakeTask
  <2>2. done' \in SUBSET Procs
    BY <1>4, <2>1, TaskType DEF TakeTask
  <2> QED
    BY <1>4, <2>1, <2>2 DEF TakeTask
<1>5. CASE CheckFree
  BY <1>5 DEF CheckFree
<1>6. CASE CheckEmpty
  BY <1>6 DEF CheckEmpty
<1>7. CASE ReadSize
  <2>1. Size(buf[slave]) \in Nat
    BY DEF Size, Buffer
  <2> QED
    BY <1>7, <2>1 DEF ReadSize
<1>8. CASE UpdateFilePath
  BY <1>8 DEF UpdateFilePath
<1>9. CASE WriteHeader
  <2>1. NewChunk \in Chunk
    BY NewChunkType
  <2>2. Append(file, NewChunk) \in Seq(Chunk)
    BY <2>1
  <2>3. file' \in Seq(Chunk)
    BY <1>9, <2>2 DEF WriteHeader
  <2> QED
    BY <1>9, <2>3 DEF WriteHeader
<1>10. CASE WriteData
  <2>1. PICK n \in 0..chunk_size :
          file' = [file EXCEPT ![Len(file)].data = ReadOut(buf[slave], n, Stale)]
    BY <1>10 DEF WriteData
  <2> DEFINE d == ReadOut(buf[slave], n, Stale)
  <2>2. d \in Seq(Token)
    BY ReadOutType
  <2>3. [file EXCEPT ![Len(file)].data = d] \in Seq(Chunk)
    <3> HIDE DEF d
    <3> QED
      BY <2>2, SetDataType
  <2>4. file' \in Seq(Chunk)
    BY <2>1, <2>3
  <2> QED
    BY <1>10, <2>4 DEF WriteData
<1>11. CASE ClearSlave
  <2>1. buf' \in [Caches -> Buffer]
    BY <1>11, BufType, ClearType DEF ClearSlave
  <2> QED
    BY <1>11, <2>1 DEF ClearSlave
<1>12. CASE StoreFree
  BY <1>12 DEF StoreFree
<1>13. CASE Crash
  <2>1. /\ pc' \in [Procs -> PCs]
        /\ op' \in [Procs -> {"ctor", "log", "flush"}]
        /\ base' \in [Procs -> SUBSET Nat]
    BY <1>13 DEF Crash
  <2>2. master' \in Caches /\ slave' \in Caches
    BY <1>13 DEF Crash, Caches
  <2>3. queue' \in Seq(Task)
    BY <1>13 DEF Crash
  <2> QED
    BY <1>13, <2>1, <2>2, <2>3 DEF Crash
<1>14. ASSUME NEW t \in Threads, LogCall(t)
      PROVE  TypeOK'
  BY <1>14 DEF LogCall
<1>15. ASSUME NEW t \in Procs, Encode(t)
      PROVE  TypeOK'
  BY <1>15 DEF Encode
<1>16. ASSUME NEW t \in Procs, PushHeader(t)
      PROVE  TypeOK'
  <2>1. Push(buf[master], ItemHeader(nextId)) \in Buffer
    BY TokenType, PushType
  <2>2. buf' \in [Caches -> Buffer]
    BY <1>16, <2>1, BufType DEF PushHeader
  <2> QED
    BY <1>16, <2>2 DEF PushHeader
<1>17. ASSUME NEW t \in Procs, PushBody(t)
      PROVE  TypeOK'
  <2>1. Push(buf[master], ItemBody(nextId)) \in Buffer
    BY TokenType, PushType
  <2>2. buf' \in [Caches -> Buffer]
    BY <1>17, <2>1, BufType DEF PushBody
  <2> QED
    BY <1>17, <2>2 DEF PushBody
<1>18. ASSUME NEW t \in Procs, NeedCacheToFile(t)
      PROVE  TypeOK'
  BY <1>18 DEF NeedCacheToFile
<1>19. ASSUME NEW t \in Procs, LoadSlaveFree(t)
      PROVE  TypeOK'
  BY <1>19 DEF LoadSlaveFree
<1>20. ASSUME NEW t \in Procs, StoreSlaveFree(t)
      PROVE  TypeOK'
  BY <1>20 DEF StoreSlaveFree
<1>21. ASSUME NEW t \in Procs, SwapCache(t)
      PROVE  TypeOK'
  BY <1>21 DEF SwapCache
<1>22. ASSUME NEW t \in Procs, PrepareToFile(t)
      PROVE  TypeOK'
  <2>1. queue' \in Seq(Task)
    BY <1>22, TaskType DEF PrepareToFile
  <2>2. pc' \in [Procs -> PCs]
    BY <1>22 DEF PrepareToFile
  <2> QED
    BY <1>22, <2>1, <2>2 DEF PrepareToFile
<1>23. ASSUME NEW t \in Threads, FlushCall(t)
      PROVE  TypeOK'
  BY <1>23 DEF FlushCall
<1>24. ASSUME NEW t \in Procs, PrepareSlave(t)
      PROVE  TypeOK'
  <2>1. queue' \in Seq(Task)
    BY <1>24, TaskType DEF PrepareSlave
  <2>2. pc' \in [Procs -> PCs]
    BY <1>24 DEF PrepareSlave
  <2> QED
    BY <1>24, <2>1, <2>2 DEF PrepareSlave
<1>25. ASSUME NEW t \in Procs, PostIdle(t)
      PROVE  TypeOK'
  <2>1. queue' \in Seq(Task)
    BY <1>25, TaskType DEF PostIdle
  <2>2. pc' \in [Procs -> PCs]
    BY <1>25 DEF PostIdle
  <2> QED
    BY <1>25, <2>1, <2>2 DEF PostIdle
<1>26. ASSUME NEW t \in Procs, AwaitSlave(t)
      PROVE  TypeOK'
  BY <1>26 DEF AwaitSlave
<1>27. ASSUME NEW t \in Procs, AwaitMaster(t)
      PROVE  TypeOK'
  BY <1>27 DEF AwaitMaster
<1>28. CASE UNCHANGED vars
  BY <1>28 DEF vars
<1> QED
  BY <1>1, <1>2, <1>3, <1>4, <1>5, <1>6, <1>7, <1>8, <1>9, <1>10, <1>11, <1>12, <1>13, <1>14, <1>15, <1>16, <1>17, <1>18, <1>19, <1>20, <1>21, <1>22, <1>23, <1>24, <1>25, <1>26, <1>27, <1>28
     DEF Next, Recover, Continue, CacheToFile

\* The initial state is well-typed.
LEMMA TypeInit ==
    Init => TypeOK
<1> SUFFICES ASSUME Init
             PROVE  TypeOK
  OBVIOUS
<1>1. NoFile \in Buffer
  <2> DEFINE e == <<>>
  <2>1. e \in Seq(Token)
    OBVIOUS
  <2> HIDE DEF e
  <2>2. [data |-> e, cap |-> 0] \in Buffer
    BY <2>1 DEF Buffer
  <2> QED
    BY <2>2 DEF NoFile, e
<1>2. /\ pc \in [Procs -> PCs]
      /\ op \in [Procs -> {"ctor", "log", "flush"}]
      /\ base \in [Procs -> SUBSET Nat]
  BY DEF Init, PCs, Procs
<1>3. /\ buf \in [Caches -> Buffer]
      /\ master \in Caches
      /\ slave \in Caches
  BY <1>1 DEF Init, Caches
<1>4. queue \in Seq(Task) /\ file \in Seq(Chunk)
  BY DEF Init
<1> QED
  BY <1>2, <1>3, <1>4 DEF Init, TypeOK, RunnerPCs

\* Type correctness: every variable of the sink keeps its type, in every
\* interleaving of Log, Flush, the constructor and CacheToFile_.
THEOREM TypeCorrect == Spec => []TypeOK
<1> QED
  BY TypeInit, TypeStep, PTL DEF Spec

-----------------------------------------------------------------------------
(* Nothing is lost. *)

\* The initial state satisfies the invariant.
LEMMA SinkInit ==
    Init => SinkInv
<1> SUFFICES ASSUME Init
             PROVE  SinkInv
  OBVIOUS
<1>1. TypeOK
  BY TypeInit
<1>2. /\ master # slave
      /\ BusyWhileActive
      /\ NothingLost
      /\ ChunkIsSlave
      /\ WrittenBeforeClear
  BY DEF Init, BusyWhileActive, Active, NothingLost, ChunkIsSlave,
         WrittenBeforeClear
<1>3. pc[Ctor] = "open" /\ \A t \in Threads : pc[t] = "idle"
  BY SinkAssumption DEF Init, Procs
<1>4. CtorFirst /\ RecoveryStart
  BY <1>3 DEF CtorFirst, RecoveryStart, Init
<1>5. WindowHoldsSlave /\ FreeIsEmpty
  BY <1>3 DEF WindowHoldsSlave, Window, FreeIsEmpty, Init, Procs
<1> QED
  BY <1>1, <1>2, <1>4, <1>5 DEF SinkInv

\* A step that leaves the caches, the worker and the log file alone and
\* moves no thread into or out of the window.
LEMMA QuietStep ==
    ASSUME SinkInv, TypeOK', CtorFirst', RecoveryStart',
           UNCHANGED <<caches, slave_free, rpc, chunk_size, file, accepted,
                       raced, ioFailed>>,
           \A t \in Procs : /\ pc'[t] = "store" <=> pc[t] = "store"
                            /\ pc'[t] = "swap" <=> pc[t] = "swap",
           pc'[Ctor] \in {"open", "recover_slave"}
               <=> pc[Ctor] \in {"open", "recover_slave"}
    PROVE  SinkInv'
<1> USE DEF SinkInv, caches
<1>1. (master # slave)' /\ BusyWhileActive'
  BY DEF BusyWhileActive
<1>2. WindowHoldsSlave'
  BY DEF WindowHoldsSlave, Window
<1>3. FreeIsEmpty'
  BY DEF FreeIsEmpty
<1>4. ChunkIsSlave'
  BY DEF ChunkIsSlave
<1>5. WrittenBeforeClear'
  BY DEF WrittenBeforeClear, Undisturbed, OnFile, HasBody
<1>6. NothingLost'
  BY DEF NothingLost, Undisturbed, OnFile, InCache, HasBody
<1> QED
  BY <1>1, <1>2, <1>3, <1>4, <1>5, <1>6

\* A thread that moves and is not idle started after the constructor, and
\* no thread moves while the constructor begins.
LEMMA MovePC ==
    ASSUME SinkInv, NEW t \in Procs, NEW from, NEW to, Goto(t, from, to),
           t \in Threads => from # "idle" \/ pc[Ctor] = "done",
           from # "done", to # "open"
    PROVE  /\ t \in Threads => pc[Ctor] = "done"
           /\ CtorFirst'
           /\ \A u \in Procs : u # t => pc'[u] = pc[u]
           /\ pc[t] = from
           /\ pc'[t] = to
<1> USE DEF SinkInv, TypeOK, Goto
<1>1. /\ \A u \in Procs : u # t => pc'[u] = pc[u]
      /\ pc[t] = from
      /\ pc'[t] = to
  OBVIOUS
<1>2. t \in Threads => pc[Ctor] = "done"
  BY <1>1 DEF CtorFirst
<1>3. CtorFirst'
  BY <1>1, <1>2, SinkAssumption DEF CtorFirst, Procs
<1> QED
  BY <1>1, <1>2, <1>3

\* The steps of the callers that only move on, post a task or wait.
LEMMA CallerStep ==
    ASSUME SinkInv, TypeOK', NEW t \in Procs,
           \/ Encode(t) \/ NeedCacheToFile(t) \/ PrepareToFile(t)
           \/ PrepareSlave(t) \/ PostIdle(t) \/ AwaitSlave(t)
           \/ AwaitMaster(t)
           \/ t \in Threads /\ (LogCall(t) \/ FlushCall(t))
    PROVE  SinkInv'
<1> DEFINE Outside == {"done", "open", "recover_slave", "store", "swap"}
<1> DEFINE from == pc[t]
           to   == pc'[t]
<1>1. /\ Goto(t, from, to)
      /\ t \in Threads => from # "idle" \/ pc[Ctor] = "done"
      /\ from \notin Outside
      /\ to \notin Outside \ {"done"}
  <2> USE DEF SinkInv, TypeOK, Goto
  <2>1. CASE Encode(t)
    BY <2>1 DEF Encode
  <2>2. CASE NeedCacheToFile(t)
    BY <2>2 DEF NeedCacheToFile
  <2>3. CASE PrepareToFile(t)
    BY <2>3 DEF PrepareToFile
  <2>4. CASE PrepareSlave(t)
    BY <2>4 DEF PrepareSlave
  <2>5. CASE PostIdle(t)
    BY <2>5 DEF PostIdle
  <2>6. CASE AwaitSlave(t)
    BY <2>6 DEF AwaitSlave
  <2>7. CASE AwaitMaster(t)
    BY <2>7 DEF AwaitMaster
  <2>8. CASE LogCall(t)
    BY <2>8 DEF LogCall
  <2>9. CASE FlushCall(t)
    BY <2>9 DEF FlushCall
  <2> QED
    BY <2>1, <2>2, <2>3, <2>4, <2>5, <2>6, <2>7, <2>8, <2>9
<1>2. UNCHANGED <<caches, slave_free, rpc, chunk_size, file, raced, ioFailed,
                  accepted>>
  BY DEF Encode, NeedCacheToFile, PrepareToFile, PrepareSlave, PostIdle,
         AwaitSlave, AwaitMaster, LogCall, FlushCall, runner, history
<1>3. /\ t \in Threads => pc[Ctor] = "done"
      /\ CtorFirst'
      /\ \A u \in Procs : u # t => pc'[u] = pc[u]
      /\ pc[t] = from
      /\ pc'[t] = to
  BY <1>1, MovePC
<1>4. pc'[Ctor] \notin {"open", "recover_slave"}
  BY <1>1, <1>3, SinkAssumption DEF Procs
<1>5. pc[Ctor] \notin {"open", "recover_slave"}
  BY <1>1, <1>3, SinkAssumption DEF Procs
<1>6. RecoveryStart'
  BY <1>4 DEF RecoveryStart
<1> QED
  BY <1>1, <1>2, <1>3, <1>4, <1>5, <1>6, QuietStep

\* Mapping the two cache files keeps what they hold.
LEMMA ConstructStep ==
    ASSUME SinkInv, TypeOK', Construct
    PROVE  SinkInv'
<1>1. \A c \in Caches : buf'[c].data = buf[c].data
  BY OpenType DEF Construct, SinkInv, TypeOK
<1>2. /\ pc[Ctor] = "open"
      /\ pc'[Ctor] = "recover_slave"
      /\ \A t \in Threads : pc'[t] = pc[t]
  BY SinkAssumption DEF Construct, Goto, SinkInv, TypeOK, Procs
<1>3. UNCHANGED <<master, slave, slave_free, queue, rpc, chunk_size, file,
                  accepted, raced, ioFailed>>
  BY DEF Construct, runner, history
<1>4. CtorFirst' /\ RecoveryStart'
  BY <1>2, <1>3 DEF SinkInv, CtorFirst, RecoveryStart
<1>5. (master # slave)' /\ BusyWhileActive'
  BY <1>3 DEF SinkInv, BusyWhileActive
<1>6. slave_free' /\ rpc' = "idle" /\ \A t \in Threads : pc'[t] = "idle"
  BY <1>2, <1>3 DEF SinkInv, CtorFirst, RecoveryStart
<1>7. WindowHoldsSlave' /\ FreeIsEmpty'
  BY <1>2, <1>6 DEF WindowHoldsSlave, Window, FreeIsEmpty, Procs
<1>8. ChunkIsSlave' /\ WrittenBeforeClear'
  BY <1>6 DEF ChunkIsSlave, WrittenBeforeClear
<1>9. NothingLost'
  BY <1>1, <1>3
     DEF SinkInv, NothingLost, Undisturbed, OnFile, InCache, HasBody
<1> QED
  BY <1>4, <1>5, <1>7, <1>8, <1>9 DEF SinkInv

\* The constructor claims a slave that is not empty; nobody else runs yet.
LEMMA RecoverSlaveStep ==
    ASSUME SinkInv, TypeOK', RecoverSlave
    PROVE  SinkInv'
<1>1. /\ pc[Ctor] = "recover_slave"
      /\ pc'[Ctor] \in {"post1", "recover_master"}
      /\ \A t \in Threads : pc'[t] = pc[t]
  BY SinkAssumption DEF RecoverSlave, Goto, SinkInv, TypeOK, Procs
<1>2. UNCHANGED <<caches, rpc, chunk_size, file, accepted, raced, ioFailed>>
  BY DEF RecoverSlave, runner, history
<1>3. rpc' = "idle" /\ \A t \in Threads : pc'[t] = "idle"
  BY <1>1, <1>2 DEF SinkInv, CtorFirst, RecoveryStart
<1>4. CtorFirst' /\ RecoveryStart'
  BY <1>1, <1>3 DEF CtorFirst, RecoveryStart
<1>5. (master # slave)' /\ BusyWhileActive'
  BY <1>2, <1>3 DEF SinkInv, BusyWhileActive, Active, caches
<1>6. WindowHoldsSlave'
  BY <1>1, <1>3 DEF WindowHoldsSlave, Window, Procs
<1>7. slave_free' => Empty(buf[slave])
  BY DEF RecoverSlave
<1>8. FreeIsEmpty'
  BY <1>2, <1>3, <1>7 DEF FreeIsEmpty, caches
<1>9. ChunkIsSlave' /\ WrittenBeforeClear'
  BY <1>3 DEF ChunkIsSlave, WrittenBeforeClear
<1>10. NothingLost'
  BY <1>2
     DEF SinkInv, NothingLost, Undisturbed, OnFile, InCache, HasBody, caches
<1> QED
  BY <1>4, <1>5, <1>6, <1>8, <1>9, <1>10 DEF SinkInv

\* Looking at the master changes nothing but the place in the constructor.
LEMMA RecoverMasterStep ==
    ASSUME SinkInv, TypeOK', RecoverMaster
    PROVE  SinkInv'
<1>1. /\ pc[Ctor] = "recover_master"
      /\ pc'[Ctor] \in {"load", "done"}
      /\ \A t \in Threads : pc'[t] = pc[t]
  BY SinkAssumption DEF RecoverMaster, Goto, SinkInv, TypeOK, Procs
<1>2. UNCHANGED <<caches, slave_free, rpc, chunk_size, file, accepted, raced,
                  ioFailed>>
  BY DEF RecoverMaster, runner, history
<1>3. CtorFirst' /\ RecoveryStart'
  BY <1>1 DEF SinkInv, CtorFirst, RecoveryStart
<1> QED
  BY <1>1, <1>2, <1>3, QuietStep DEF Procs

\* Appending to the master leaves the slave alone and forgets nothing.
LEMMA PushStep ==
    ASSUME SinkInv, TypeOK', NEW t \in Procs, PushHeader(t) \/ PushBody(t)
    PROVE  SinkInv'
<1>1. PICK x \in Token :
        /\ buf' = [buf EXCEPT ![master] = Push(buf[master], x)]
        /\ accepted' \subseteq accepted
             \cup (IF x.part = "body" THEN {x.id} ELSE {})
  <2>1. ItemHeader(nextId) \in Token /\ ItemBody(nextId) \in Token
    BY TokenType DEF SinkInv, TypeOK
  <2>2. CASE PushHeader(t)
    BY <2>1, <2>2 DEF PushHeader, history
  <2>3. CASE PushBody(t)
    <3>1. ItemBody(nextId).part = "body" /\ ItemBody(nextId).id = nextId
      BY DEF ItemBody
    <3> QED
      BY <2>1, <2>3, <3>1 DEF PushBody
  <2> QED
    BY <2>2, <2>3
<1>2. /\ buf[master] \in Buffer
      /\ buf'[master].data = Append(buf[master].data, x)
      /\ buf'[slave] = buf[slave]
  BY <1>1, PushType DEF SinkInv, TypeOK
<1>3. \A c \in Caches : c = master \/ c = slave
  BY DEF SinkInv, TypeOK, Caches
<1>4. UNCHANGED <<master, slave, slave_free, queue, rpc, chunk_size, file,
                  raced, ioFailed>>
  BY DEF PushHeader, PushBody, runner, history
<1>5. /\ t \in Threads => pc[Ctor] = "done"
      /\ CtorFirst'
      /\ \A u \in Procs : u # t => pc'[u] = pc[u]
      /\ pc[t] \in {"push_header", "push_body"}
      /\ pc'[t] \in {"push_body", "need"}
  BY MovePC DEF PushHeader, PushBody
<1>6. pc[Ctor] \notin {"open", "recover_slave"}
  BY <1>5, SinkAssumption DEF Procs
<1>7. pc'[Ctor] \notin {"open", "recover_slave"}
  BY <1>5, <1>6, SinkAssumption DEF Procs
<1>8. RecoveryStart'
  BY <1>7 DEF RecoveryStart
<1>9. (master # slave)' /\ BusyWhileActive'
  BY <1>4 DEF SinkInv, BusyWhileActive
<1>10. WindowHoldsSlave'
  BY <1>2, <1>4, <1>5 DEF SinkInv, WindowHoldsSlave, Window
<1>11. FreeIsEmpty'
  BY <1>2, <1>4, <1>6 DEF SinkInv, FreeIsEmpty
<1>12. ChunkIsSlave'
  BY <1>2, <1>4 DEF SinkInv, ChunkIsSlave
<1>13. WrittenBeforeClear'
  BY <1>2, <1>4
     DEF SinkInv, WrittenBeforeClear, Undisturbed, OnFile, HasBody
<1>14. NothingLost'
  <2> SUFFICES ASSUME Undisturbed', NEW i \in accepted'
               PROVE  OnFile(i)' \/ InCache(i)'
    BY DEF NothingLost
  <2>1. Undisturbed
    BY <1>4 DEF Undisturbed
  <2>2. buf[master].data \in Seq(Token)
    BY <1>2 DEF Buffer
  <2>3. master \in Caches /\ slave \in Caches
    BY DEF SinkInv, TypeOK
  <2>4. CASE i \in accepted
    <3>1. OnFile(i) \/ InCache(i)
      BY <2>1, <2>4 DEF SinkInv, NothingLost
    <3>2. CASE OnFile(i)
      BY <1>4, <3>2 DEF OnFile, HasBody
    <3>3. CASE HasBody(buf[slave].data, i)
      BY <1>2, <1>4, <2>3, <3>3 DEF InCache, HasBody
    <3>4. CASE HasBody(buf[master].data, i)
      BY <1>2, <1>4, <2>2, <2>3, <3>4 DEF InCache, HasBody
    <3> QED
      BY <1>3, <3>1, <3>2, <3>3, <3>4 DEF InCache
  <2>5. CASE i \notin accepted
    <3>1. x.part = "body" /\ x.id = i
      BY <1>1, <2>5
    <3>2. HasBody(buf'[master].data, i)
      BY <1>2, <2>2, <3>1 DEF HasBody
    <3> QED
      BY <1>4, <2>3, <3>2 DEF InCache, HasBody
  <2> QED
    BY <2>4, <2>5
<1> QED
  BY <1>5, <1>8, <1>9, <1>10, <1>11, <1>12, <1>13, <1>14 DEF SinkInv

\* Entering the window: a second thread in it would set raced.
LEMMA LoadStep ==
    ASSUME SinkInv, TypeOK', NEW t \in Procs, LoadSlaveFree(t)
    PROVE  SinkInv'
<1>1. UNCHANGED <<caches, slave_free, rpc, chunk_size, file, accepted,
                  ioFailed>>
  BY DEF LoadSlaveFree, runner
<1>2. /\ t \in Threads => pc[Ctor] = "done"
      /\ CtorFirst'
      /\ \A u \in Procs : u # t => pc'[u] = pc[u]
      /\ pc[t] = "load"
      /\ pc'[t] \in {"store", "post"}
  BY MovePC DEF LoadSlaveFree
<1>3. /\ pc[Ctor] \notin {"open", "recover_slave"}
      /\ pc'[Ctor] \notin {"open", "recover_slave"}
  BY <1>2, SinkAssumption DEF Procs
<1>4. ~raced' => ~raced
  BY DEF LoadSlaveFree, SinkInv, TypeOK
<1>5. ~raced' /\ pc'[t] = "store" =>
        slave_free /\ \A u \in Procs \ {t} : ~Window(u)
  <2>1. pc'[t] = "store" =>
          slave_free /\ raced' = (raced \/ \E u \in Procs \ {t} : Window(u))
    BY DEF LoadSlaveFree, Goto, SinkInv, TypeOK
  <2> QED
    BY <2>1
<1>6. RecoveryStart' /\ (master # slave)' /\ BusyWhileActive'
  BY <1>1, <1>3 DEF RecoveryStart, SinkInv, BusyWhileActive, caches
<1>7. WindowHoldsSlave'
  BY <1>1, <1>2, <1>4, <1>5 DEF SinkInv, WindowHoldsSlave, Window, caches
<1>8. FreeIsEmpty' /\ ChunkIsSlave'
  BY <1>1, <1>3, <1>4 DEF SinkInv, FreeIsEmpty, ChunkIsSlave, caches
<1>9. WrittenBeforeClear'
  BY <1>1, <1>4
     DEF SinkInv, WrittenBeforeClear, Undisturbed, OnFile, HasBody, caches
<1>10. NothingLost'
  BY <1>1, <1>4
     DEF SinkInv, NothingLost, Undisturbed, OnFile, InCache, HasBody, caches
<1> QED
  BY <1>2, <1>6, <1>7, <1>8, <1>9, <1>10 DEF SinkInv

\* Claiming the slave: it was free, so it is empty and the worker is not at
\* it.
LEMMA StoreStep ==
    ASSUME SinkInv, TypeOK', NEW t \in Procs, StoreSlaveFree(t)
    PROVE  SinkInv'
<1>1. UNCHANGED <<caches, rpc, chunk_size, file, accepted, raced, ioFailed>>
  BY DEF StoreSlaveFree, runner, history
<1>2. /\ t \in Threads => pc[Ctor] = "done"
      /\ CtorFirst'
      /\ \A u \in Procs : u # t => pc'[u] = pc[u]
      /\ pc[t] = "store"
      /\ pc'[t] = "swap"
      /\ slave_free' = FALSE
  BY MovePC DEF StoreSlaveFree
<1>3. /\ pc[Ctor] \notin {"open", "recover_slave"}
      /\ pc'[Ctor] \notin {"open", "recover_slave"}
  BY <1>2, SinkAssumption DEF Procs
<1>4. ~raced => slave_free /\ Empty(buf[slave]) /\ rpc \notin Active
  BY <1>2, <1>3
     DEF SinkInv, WindowHoldsSlave, FreeIsEmpty, BusyWhileActive
<1>5. RecoveryStart' /\ (master # slave)' /\ BusyWhileActive'
  BY <1>1, <1>2, <1>3 DEF RecoveryStart, SinkInv, BusyWhileActive, caches
<1>6. WindowHoldsSlave'
  BY <1>1, <1>2, <1>4 DEF SinkInv, WindowHoldsSlave, Window, caches
<1>7. FreeIsEmpty' /\ ChunkIsSlave'
  BY <1>1, <1>2, <1>3 DEF SinkInv, FreeIsEmpty, ChunkIsSlave, caches
<1>8. WrittenBeforeClear'
  BY <1>1
     DEF SinkInv, WrittenBeforeClear, Undisturbed, OnFile, HasBody, caches
<1>9. NothingLost'
  BY <1>1
     DEF SinkInv, NothingLost, Undisturbed, OnFile, InCache, HasBody, caches
<1> QED
  BY <1>2, <1>5, <1>6, <1>7, <1>8, <1>9 DEF SinkInv

\* Swapping the roles while the worker is not at the slave.
LEMMA SwapStep ==
    ASSUME SinkInv, TypeOK', NEW t \in Procs, SwapCache(t)
    PROVE  SinkInv'
<1>1. UNCHANGED <<buf, slave_free, rpc, chunk_size, file, accepted, raced,
                  ioFailed>>
  BY DEF SwapCache, runner, history
<1>2. /\ t \in Threads => pc[Ctor] = "done"
      /\ CtorFirst'
      /\ \A u \in Procs : u # t => pc'[u] = pc[u]
      /\ pc[t] = "swap"
      /\ pc'[t] = "post"
      /\ master' = slave
      /\ slave' = master
  BY MovePC DEF SwapCache
<1>3. /\ pc[Ctor] \notin {"open", "recover_slave"}
      /\ pc'[Ctor] \notin {"open", "recover_slave"}
  BY <1>2, SinkAssumption DEF Procs
<1>4. ~raced => ~slave_free /\ rpc \notin Active
  BY <1>2 DEF SinkInv, WindowHoldsSlave
<1>5. RecoveryStart' /\ (master # slave)' /\ BusyWhileActive'
  BY <1>1, <1>2, <1>3 DEF RecoveryStart, SinkInv, BusyWhileActive
<1>6. ~raced => \A u \in Procs : ~(pc'[u] \in {"store", "swap"})
  BY <1>2 DEF SinkInv, WindowHoldsSlave, Window
<1>7. WindowHoldsSlave'
  BY <1>1, <1>6 DEF WindowHoldsSlave, Window
<1>8. FreeIsEmpty' /\ ChunkIsSlave'
  BY <1>1, <1>4 DEF SinkInv, FreeIsEmpty, ChunkIsSlave, Active
<1>9. WrittenBeforeClear'
  BY <1>1, <1>4 DEF WrittenBeforeClear, Undisturbed, Active
<1>10. NothingLost'
  BY <1>1 DEF SinkInv, NothingLost, Undisturbed, OnFile, InCache, HasBody
<1> QED
  BY <1>2, <1>5, <1>7, <1>8, <1>9, <1>10 DEF SinkInv

\* The worker looks at the slave without touching caches and log file.
LEMMA LookStep ==
    ASSUME SinkInv, TypeOK',
           \/ TakeTask \/ CheckFree \/ CheckEmpty \/ ReadSize
           \/ UpdateFilePath
    PROVE  SinkInv'
<1>1. UNCHANGED <<pc, caches, slave_free, file, accepted, ioFailed>>
  BY DEF TakeTask, CheckFree, CheckEmpty, ReadSize, UpdateFilePath, history
<1>2. ~raced' => ~raced
  BY DEF TakeTask, CheckFree, CheckEmpty, ReadSize, UpdateFilePath, history,
         SinkInv, TypeOK
<1>3. /\ rpc' \in Active => ~slave_free
      /\ rpc' \notin {"write_data", "clear"}
      /\ rpc' = "store_free" => Empty(buf[slave])
      /\ rpc' = "update_path" => chunk_size' = Size(buf[slave])
      /\ rpc' = "write_header" =>
            rpc = "update_path" /\ chunk_size' = chunk_size
  BY DEF TakeTask, CheckFree, CheckEmpty, ReadSize, UpdateFilePath,
         RunnerGoto, SinkInv, BusyWhileActive, Active
<1>4. rpc' \in Active =>
        rpc \in Active \/ (~raced' => \A t \in Procs : ~Window(t))
  BY DEF TakeTask, CheckFree, CheckEmpty, ReadSize, UpdateFilePath,
         RunnerGoto, Active
<1>5. RecoveryStart'
  BY <1>1
     DEF TakeTask, CheckFree, CheckEmpty, ReadSize, UpdateFilePath,
         RunnerGoto, SinkInv, RecoveryStart
<1>6. CtorFirst' /\ (master # slave)' /\ BusyWhileActive'
  BY <1>1, <1>3 DEF SinkInv, CtorFirst, BusyWhileActive, caches
<1>7. WindowHoldsSlave'
  BY <1>1, <1>2, <1>4 DEF SinkInv, WindowHoldsSlave, Window, caches
<1>8. FreeIsEmpty'
  BY <1>1, <1>2, <1>3 DEF SinkInv, FreeIsEmpty, caches
<1>9. ChunkIsSlave'
  BY <1>1, <1>2, <1>3 DEF SinkInv, ChunkIsSlave, caches
<1>10. WrittenBeforeClear'
  BY <1>3 DEF WrittenBeforeClear
<1>11. NothingLost'
  BY <1>1, <1>2
     DEF SinkInv, NothingLost, Undisturbed, OnFile, InCache, HasBody, caches
<1> QED
  BY <1>5, <1>6, <1>7, <1>8, <1>9, <1>10, <1>11 DEF SinkInv

\* A step of the worker that writes: the log file forgets nothing and what
\* the step leaves for Clear is in it.
LEMMA GrowStep ==
    ASSUME SinkInv, TypeOK',
           UNCHANGED <<pc, caches, slave_free, queue, accepted, raced>>,
           ~ioFailed' => ~ioFailed,
           rpc \in Active, rpc' \in {"write_data", "clear"},
           \A i \in Nat : OnFile(i) => OnFile(i)',
           ChunkIsSlave', WrittenBeforeClear'
    PROVE  SinkInv'
<1>1. rpc' \in Active /\ rpc' # "store_free" /\ rpc' # "idle"
  BY DEF Active
<1>2. CtorFirst' /\ (master # slave)' /\ BusyWhileActive'
  BY DEF SinkInv, CtorFirst, BusyWhileActive, caches
<1>3. RecoveryStart'
  BY DEF SinkInv, RecoveryStart, Active
<1>4. WindowHoldsSlave'
  BY DEF SinkInv, WindowHoldsSlave, Window, caches
<1>5. FreeIsEmpty'
  BY <1>1 DEF SinkInv, FreeIsEmpty, caches
<1>6. NothingLost'
  <2> SUFFICES ASSUME Undisturbed', NEW i \in accepted'
               PROVE  OnFile(i)' \/ InCache(i)'
    BY DEF NothingLost
  <2>1. i \in Nat /\ i \in accepted /\ Undisturbed
    BY DEF SinkInv, TypeOK, Undisturbed
  <2>2. OnFile(i) \/ InCache(i)
    BY <2>1 DEF SinkInv, NothingLost
  <2>3. InCache(i) => InCache(i)'
    BY DEF InCache, HasBody, caches
  <2> QED
    BY <2>1, <2>2, <2>3
<1> QED
  BY <1>2, <1>3, <1>4, <1>5, <1>6 DEF SinkInv

\* The chunk header: a chunk without data is added, or nothing at all.
LEMMA WriteHeaderStep ==
    ASSUME SinkInv, TypeOK', WriteHeader
    PROVE  SinkInv'
<1>1. /\ UNCHANGED <<pc, caches, slave_free, queue, chunk_size, accepted,
                     raced>>
      /\ rpc = "write_header"
      /\ \/ rpc' = "write_data" /\ file' = Append(file, NewChunk)
            /\ ioFailed' = ioFailed
         \/ rpc' = "clear" /\ file' = file /\ ioFailed' = TRUE
  BY DEF WriteHeader, RunnerGoto
<1>2. file \in Seq(Chunk) /\ NewChunk \in Chunk /\ NewChunk.data = <<>>
  BY NewChunkType DEF SinkInv, TypeOK
<1>3. ASSUME NEW i \in Nat, OnFile(i)
      PROVE  OnFile(i)'
  <2>1. PICK n \in 1..Len(file) : HasBody(file[n].data, i)
    BY <1>3 DEF OnFile
  <2>2. n \in 1..Len(file') /\ file'[n] = file[n]
    BY <1>1, <1>2
  <2> QED
    BY <2>1, <2>2 DEF OnFile, HasBody
<1>4. ChunkIsSlave'
  <2>1. rpc' = "write_data" =>
          Len(file') > 0 /\ file'[Len(file')].data = <<>>
    BY <1>1, <1>2
  <2> QED
    BY <1>1, <2>1 DEF SinkInv, ChunkIsSlave, caches
<1>5. WrittenBeforeClear'
  BY <1>1 DEF WrittenBeforeClear, Undisturbed
<1>6. ~ioFailed' => ~ioFailed
  BY <1>1
<1> QED
  BY <1>1, <1>3, <1>4, <1>5, <1>6, GrowStep DEF Active

\* The data: the last chunk, which had none, holds what the slave holds.
LEMMA WriteDataStep ==
    ASSUME SinkInv, TypeOK', WriteData
    PROVE  SinkInv'
<1>1. /\ UNCHANGED <<pc, caches, slave_free, queue, chunk_size, accepted,
                     raced>>
      /\ rpc = "write_data"
      /\ rpc' = "clear"
  BY DEF WriteData, RunnerGoto
<1>2. PICK n \in 0..chunk_size :
        /\ file' = [file EXCEPT ![Len(file)].data = ReadOut(buf[slave], n, Stale)]
        /\ \/ n = chunk_size /\ ioFailed' = ioFailed
           \/ ioFailed' = TRUE
  BY DEF WriteData
<1> DEFINE d == ReadOut(buf[slave], n, Stale)
<1>3. file \in Seq(Chunk) /\ buf[slave] \in Buffer /\ chunk_size \in Nat
  BY DEF SinkInv, TypeOK
<1>4. d \in Seq(Token) /\ (n = Size(buf[slave]) => d = buf[slave].data)
  BY <1>3, ReadOutType
<1>5. Len(file) > 0 /\ file[Len(file)].data = <<>>
  BY <1>1 DEF SinkInv, ChunkIsSlave
<1>6. ~raced => chunk_size = Size(buf[slave])
  BY <1>1 DEF SinkInv, ChunkIsSlave
<1>7. file' = [file EXCEPT ![Len(file)].data = d]
  BY <1>2
<1> HIDE DEF d
<1>8. /\ Len(file') = Len(file)
      /\ \A m \in 1..Len(file) :
           file'[m].data = IF m = Len(file) THEN d ELSE file[m].data
  BY <1>3, <1>4, <1>7, SetDataType
<1>9. ASSUME NEW i \in Nat, OnFile(i)
      PROVE  OnFile(i)'
  <2>1. PICK m \in 1..Len(file) : HasBody(file[m].data, i)
    BY <1>9 DEF OnFile
  <2>2. m # Len(file)
    BY <1>5, <2>1 DEF HasBody
  <2>3. m \in 1..Len(file') /\ file'[m].data = file[m].data
    BY <1>8, <2>2
  <2> QED
    BY <2>1, <2>3 DEF OnFile, HasBody
<1>10. ChunkIsSlave'
  BY <1>1 DEF ChunkIsSlave
<1>11. WrittenBeforeClear'
  <2> SUFFICES ASSUME Undisturbed', NEW j \in 1..Len(buf[slave].data),
                      buf[slave].data[j].part = "body"
               PROVE  OnFile(buf[slave].data[j].id)'
    BY <1>1 DEF WrittenBeforeClear, caches
  <2>1. n = chunk_size /\ ~raced
    BY <1>1, <1>2 DEF Undisturbed
  <2>2. Len(file) \in 1..Len(file') /\ file'[Len(file)].data = buf[slave].data
    BY <1>3, <1>4, <1>5, <1>6, <1>8, <2>1
  <2>3. HasBody(buf[slave].data, buf[slave].data[j].id)
    BY DEF HasBody
  <2>4. HasBody(file'[Len(file)].data, buf[slave].data[j].id)
    BY <2>2, <2>3
  <2>5. \E m \in 1..Len(file') :
          HasBody(file'[m].data, buf[slave].data[j].id)
    BY <2>2, <2>4
  <2> QED
    BY <1>1, <2>5 DEF OnFile, HasBody, caches
<1>12. ~ioFailed' => ~ioFailed
  BY <1>2
<1> QED
  BY <1>1, <1>9, <1>10, <1>11, <1>12, GrowStep DEF Active

\* Clear: what goes is in the log file.
LEMMA ClearStep ==
    ASSUME SinkInv, TypeOK', ClearSlave
    PROVE  SinkInv'
<1>1. /\ UNCHANGED <<pc, master, slave, slave_free, queue, chunk_size, file,
                     accepted, raced, ioFailed>>
      /\ rpc = "clear"
      /\ rpc' = "store_free"
      /\ buf' = [buf EXCEPT ![slave] = Clear(buf[slave])]
  BY DEF ClearSlave, RunnerGoto, history
<1>2. /\ buf'[slave].data = <<>>
      /\ \A c \in Caches : c # slave => buf'[c] = buf[c]
  BY <1>1, ClearType DEF SinkInv, TypeOK
<1>3. Empty(buf[slave])'
  BY <1>1, <1>2 DEF Empty, Size
<1>4. CtorFirst' /\ (master # slave)' /\ BusyWhileActive'
  BY <1>1 DEF SinkInv, CtorFirst, BusyWhileActive, Active
<1>5. RecoveryStart'
  BY <1>1 DEF SinkInv, RecoveryStart
<1>6. WindowHoldsSlave'
  BY <1>1 DEF SinkInv, WindowHoldsSlave, Window, Active
<1>7. FreeIsEmpty' /\ ChunkIsSlave' /\ WrittenBeforeClear'
  BY <1>1, <1>3 DEF FreeIsEmpty, ChunkIsSlave, WrittenBeforeClear
<1>8. NothingLost'
  <2> SUFFICES ASSUME Undisturbed', NEW i \in accepted'
               PROVE  OnFile(i)' \/ InCache(i)'
    BY DEF NothingLost
  <2>1. Undisturbed /\ i \in accepted
    BY <1>1 DEF Undisturbed
  <2>2. OnFile(i) => OnFile(i)'
    BY <1>1 DEF OnFile, HasBody
  <2>3. ASSUME NEW c \in Caches, HasBody(buf[c].data, i)
        PROVE  OnFile(i) \/ InCache(i)'
    <3>1. CASE c = slave
      BY <1>1, <2>1, <2>3, <3>1 DEF SinkInv, WrittenBeforeClear, HasBody
    <3>2. CASE c # slave
      BY <1>2, <2>3, <3>2 DEF InCache, HasBody
    <3> QED
      BY <3>1, <3>2
  <2> QED
    BY <2>1, <2>2, <2>3 DEF SinkInv, NothingLost, InCache
<1> QED
  BY <1>4, <1>5, <1>6, <1>7, <1>8 DEF SinkInv

\* Handing the slave back: it is empty.
LEMMA StoreFreeStep ==
    ASSUME SinkInv, TypeOK', StoreFree
    PROVE  SinkInv'
<1>1. /\ UNCHANGED <<pc, caches, queue, chunk_size, file, accepted, raced,
                     ioFailed>>
      /\ rpc = "store_free"
      /\ rpc' = "idle"
      /\ slave_free' = TRUE
  BY DEF StoreFree, RunnerGoto, history
<1>2. CtorFirst' /\ (master # slave)' /\ BusyWhileActive'
  BY <1>1 DEF SinkInv, CtorFirst, BusyWhileActive, Active, caches
<1>3. RecoveryStart'
  BY <1>1 DEF SinkInv, RecoveryStart
<1>4. WindowHoldsSlave'
  BY <1>1 DEF SinkInv, WindowHoldsSlave, Window, Active, caches
<1>5. FreeIsEmpty' /\ ChunkIsSlave' /\ WrittenBeforeClear'
  BY <1>1 DEF SinkInv, FreeIsEmpty, ChunkIsSlave, WrittenBeforeClear, caches
<1>6. NothingLost'
  BY <1>1
     DEF SinkInv, NothingLost, Undisturbed, OnFile, InCache, HasBody, caches
<1> QED
  BY <1>2, <1>3, <1>4, <1>5, <1>6 DEF SinkInv

\* The crash: files stay, the rest starts anew.
LEMMA CrashStep ==
    ASSUME SinkInv, TypeOK', Crash
    PROVE  SinkInv'
<1>1. /\ UNCHANGED <<buf, file, accepted, raced, ioFailed>>
      /\ rpc' = "idle" /\ slave_free' = TRUE /\ queue' = <<>>
      /\ master' = "master_cache" /\ slave' = "slave_cache"
  BY DEF Crash
<1>2. pc'[Ctor] = "open" /\ \A t \in Threads : pc'[t] = "idle"
  BY SinkAssumption DEF Crash, Procs
<1>3. CtorFirst' /\ RecoveryStart' /\ (master # slave)' /\ BusyWhileActive'
  BY <1>1, <1>2 DEF CtorFirst, RecoveryStart, BusyWhileActive, Active
<1>4. WindowHoldsSlave' /\ FreeIsEmpty'
  BY <1>1, <1>2 DEF WindowHoldsSlave, Window, FreeIsEmpty, Procs
<1>5. ChunkIsSlave' /\ WrittenBeforeClear'
  BY <1>1 DEF ChunkIsSlave, WrittenBeforeClear
<1>6. NothingLost'
  BY <1>1 DEF SinkInv, NothingLost, Undisturbed, OnFile, InCache, HasBody
<1> QED
  BY <1>3, <1>4, <1>5, <1>6 DEF SinkInv

\* Every step keeps the invariant.
LEMMA SinkStep ==
    SinkInv /\ [Next]_vars => SinkInv'
<1> SUFFICES ASSUME SinkInv, [Next]_vars
             PROVE  SinkInv'
  OBVIOUS
<1>1. TypeOK'
  BY TypeStep DEF SinkInv
<1>2. CASE Recover
  BY <1>1, <1>2, ConstructStep, RecoverSlaveStep, RecoverMasterStep
     DEF Recover
<1>3. ASSUME NEW t \in Threads, LogCall(t) \/ FlushCall(t)
      PROVE  SinkInv'
  BY <1>1, <1>3, CallerStep DEF Procs
<1>4. ASSUME NEW t \in Procs, Continue(t)
      PROVE  SinkInv'
  BY <1>1, <1>4, CallerStep, PushStep, LoadStep, StoreStep, SwapStep
     DEF Continue
<1>5. CASE CacheToFile
  BY <1>1, <1>5, LookStep, WriteHeaderStep, WriteDataStep, ClearStep,
     StoreFreeStep DEF CacheToFile
<1>6. CASE Crash
  BY <1>1, <1>6, CrashStep
<1>7. CASE UNCHANGED vars
  <2>1. CtorFirst' /\ RecoveryStart'
    BY <1>7 DEF SinkInv, CtorFirst, RecoveryStart, vars, runner
  <2> QED
    BY <1>1, <1>7, <2>1, QuietStep DEF vars, runner, history
<1> QED
  BY <1>2, <1>3, <1>4, <1>5, <1>6, <1>7 DEF Next

\* The discipline behind slave_free_ holds in every reachable state.
THEOREM SinkInvariant == Spec => []SinkInv
<1> QED
  BY SinkInit, SinkStep, PTL DEF Spec

\* No log item that Log accepted is ever lost, for any number of callers and
\* crashes, unless the unguarded window was overlapped or a write failed.
THEOREM NothingIsLost == Spec => []NothingLost
<1>1. SinkInv => NothingLost
  BY DEF SinkInv
<1> QED
  BY SinkInvariant, <1>1, PTL

-----------------------------------------------------------------------------
(* The inductive invariants. *)

\* Who can be where: the constructor and the callers share only the steps
\* around the swap, and Log and Flush only those and "idle".
CtorPCs   == {"open", "recover_slave", "post1", "drain1", "wait1",
              "recover_master", "load", "store", "swap", "post", "done"}
LogPCs    == {"idle", "encode", "push_header", "push_body", "need", "load",
              "store", "swap", "post"}
FlushPCs  == {"idle", "post1", "drain1", "wait1", "load", "store", "swap",
              "post", "drain2", "wait2"}

PlacesOK ==
    /\ op[Ctor] = "ctor" /\ pc[Ctor] \in CtorPCs
    /\ \A t \in Threads :
          \/ op[t] = "log" /\ pc[t] \in LogPCs
          \/ op[t] = "flush" /\ pc[t] \in FlushPCs

\* A future belongs to the one empty task its thread waits for.
FuturesOK ==
    /\ \A t \in done : pc[t] \in {"wait1", "wait2"}
    /\ \A q \in 1..Len(queue) : \A t \in Procs :
          queue[q] = IdleTask(t) => pc[t] \in {"wait1", "wait2"} /\ t \notin done
    /\ \A q, r \in 1..Len(queue) :
          queue[q] = queue[r] /\ queue[q] # CacheTask => q = r

\* mtx_ is held exactly between Encode and PushBody, by one thread.
LockOK == \A t \in Procs : mtx = t <=> pc[t] \in {"push_header", "push_body"}

\* The number of the item in progress is new.
NumbersOK ==
    /\ accepted \subseteq 1..nextId
    /\ mtx # NoThread => nextId > 0 /\ nextId \notin accepted
    /\ \A t \in Procs : base[t] \subseteq accepted

Encoding == {u \in Threads : pc[u] = "encode"}

\* The bound on the items counts those that are not numbered yet.
BoundOK ==
    /\ IsFiniteSet(Encoding)
    /\ nextId + Cardinality(Encoding) <= MaxItems

\* Nothing but accepted items is in caches and file, and none is from the
\* future.
TokenOK(x) ==
    /\ x.part = "body" => x.id \in accepted
    /\ x.key <= key

TokensOK ==
    /\ \A c \in Caches : \A j \in 1..Len(buf[c].data) : TokenOK(buf[c].data[j])
    /\ \A n \in 1..Len(file) : \A j \in 1..Len(file[n].data) :
          file[n].data[j].part = "body" => file[n].data[j].id \in accepted

CallInv ==
    /\ PlacesOK
    /\ FuturesOK
    /\ LockOK
    /\ NumbersOK
    /\ BoundOK
    /\ TokensOK

-----------------------------------------------------------------------------
(* Flush. *)

\* Somebody has claimed the slave and is about to swap.
Claimed == \E u \in Procs : pc[u] = "swap"

\* The next CacheToFile_ that gets to work writes the item.
Scheduled(i) == OnFile(i) \/ HasBody(buf[slave].data, i) \/ Claimed

\* Whoever finds the slave free schedules the item.
Ready(i) == Scheduled(i) \/ slave_free

\* CacheToFile_ has begun and not yet written.
Working == {"check_free", "check_empty", "read_size", "update_path", "spin",
            "write_header", "write_data"}

\* One of the first n tasks is a CacheToFile_.
Queued(n) == \E p \in 1..n : queue[p] = CacheTask

\* The first half of Flush makes its items ready; n tasks come before its
\* empty task.
FirstHalf(i, n) == Ready(i) \/ rpc # "idle" \/ Queued(n)

\* The second half writes them.
SecondHalf(i, n) ==
    Scheduled(i) /\ (OnFile(i) \/ rpc \in Working \/ Queued(n))

FlushOf(t, i) ==
    /\ pc[t] = "drain1" => FirstHalf(i, Len(queue))
    /\ pc[t] = "wait1" =>
          /\ t \in done => Ready(i)
          /\ \A q \in 1..Len(queue) :
                queue[q] = IdleTask(t) => FirstHalf(i, q - 1)
    /\ pc[t] = "load" => Ready(i)
    /\ pc[t] = "post" => Scheduled(i)
    /\ pc[t] = "drain2" => SecondHalf(i, Len(queue))
    /\ pc[t] = "wait2" =>
          /\ t \in done => OnFile(i)
          /\ \A q \in 1..Len(queue) :
                queue[q] = IdleTask(t) => SecondHalf(i, q - 1)

FlushInv ==
    /\ Undisturbed => \A t \in Threads : op[t] = "flush" =>
                          \A i \in base[t] : FlushOf(t, i)
    /\ FlushDurable

-----------------------------------------------------------------------------
(* The constructor waits until the slave is free again. *)

CtorFree(n) == slave_free \/ rpc # "idle" \/ Queued(n)

RecoveryInv ==
    /\ pc[Ctor] = "drain1" => CtorFree(Len(queue))
    /\ pc[Ctor] = "wait1" =>
          /\ Ctor \in done => slave_free
          /\ \A q \in 1..Len(queue) :
                queue[q] = IdleTask(Ctor) => CtorFree(q - 1)
    /\ pc[Ctor] \in {"recover_master", "load", "store"} => slave_free

-----------------------------------------------------------------------------
(* Framing. *)

\* The last item is complete.
Complete(data) == data # <<>> => data[Len(data)].part # "header"

FramingInv ==
    ~raced =>
        /\ \A c \in Caches : Framed(buf[c].data)
        /\ pc[Ctor] \in {"post", "done"} /\ mtx = NoThread =>
               Complete(buf[master].data)
        /\ \A t \in Threads : pc[t] = "push_header" =>
               Complete(buf[master].data)
        /\ \A t \in Threads : pc[t] = "push_body" =>
               /\ buf[master].data # <<>>
               /\ buf[master].data[Len(buf[master].data)] = ItemHeader(nextId)
        /\ ItemFraming

-----------------------------------------------------------------------------
(* Order. *)

Bodies(data) == {j \in 1..Len(data) : data[j].part = "body"}

Sorted(data) == \A j, k \in Bodies(data) : j < k => data[j].id < data[k].id

\* What data holds was accepted before what process p has put into later.
Before(p, data, later) ==
    \A j \in Bodies(data), k \in Bodies(later) :
        later[k].key = p => data[j].id < later[k].id

\* WrittenInOrder, of any sequence of chunks.
Ordered(f) ==
    \A m, n \in 1..Len(f) :
        \A j \in 1..Len(f[m].data), k \in 1..Len(f[n].data) :
            (/\ m < n \/ (m = n /\ j < k)
             /\ f[m].data[j].part = "body"
             /\ f[n].data[k].part = "body")
            => \/ f[m].data[j].id < f[n].data[k].id
               \/ m < n /\ f[n].key > f[n].data[k].key

OrderInv ==
    ~raced =>
        /\ \A c \in Caches : Sorted(buf[c].data)
        /\ pc[Ctor] # "open" =>
              /\ Before(key, buf[slave].data, buf[master].data)
              /\ \A n \in 1..Len(file) :
                    /\ Before(key, file[n].data, buf[master].data)
                    /\ rpc # "clear" => Before(key, file[n].data, buf[slave].data)
              /\ rpc = "write_data" => file[Len(file)].key = key
        /\ Ordered(file)

-----------------------------------------------------------------------------
(* Queue and threads. *)

\* The empty tasks of different threads are different, and none is a
\* CacheToFile_.
LEMMA TasksApart ==
    /\ \A t \in Procs : IdleTask(t) # CacheTask
    /\ \A t, u \in Procs : IdleTask(t) = IdleTask(u) => t = u
BY DEF IdleTask, CacheTask

\* What Append does to the queue.
LEMMA QueueAppend ==
    ASSUME queue \in Seq(Task), NEW x \in Task, queue' = Append(queue, x)
    PROVE  /\ Len(queue) \in Nat
           /\ Len(queue') = Len(queue) + 1
           /\ \A q \in 1..Len(queue) : queue'[q] = queue[q]
           /\ queue'[Len(queue) + 1] = x
OBVIOUS

\* What Tail does to the queue.
LEMMA QueueTail ==
    ASSUME queue \in Seq(Task), queue # <<>>, queue' = Tail(queue)
    PROVE  /\ Len(queue) \in Nat \ {0}
           /\ Len(queue') = Len(queue) - 1
           /\ \A q \in 1..Len(queue') : queue'[q] = queue[q + 1]
           /\ Head(queue) = queue[1]
OBVIOUS

\* A task is a CacheToFile_ or the empty task of the thread it names.
LEMMA TaskKinds ==
    ASSUME NEW x \in Task
    PROVE  /\ x.task = "cache_to_file" => x = CacheTask
           /\ x.task = "idle" => x.who \in Procs /\ x = IdleTask(x.who)
<1>1. CASE x = CacheTask
  BY <1>1 DEF CacheTask
<1>2. ASSUME NEW t \in Procs, x = IdleTask(t)
      PROVE  x.who = t /\ x.task = "idle"
  BY <1>2 DEF IdleTask
<1> QED
  BY <1>1, <1>2 DEF Task

\* A step of a thread moves no other thread.
LEMMA OneMoves ==
    ASSUME TypeOK, NEW t \in Procs, Continue(t) \/ LogCall(t) \/ FlushCall(t)
    PROVE  /\ \A u \in Procs : u # t => pc'[u] = pc[u] /\ op'[u] = op[u]
           /\ UNCHANGED <<rpc, chunk_size, file, key, ioFailed>>
<1> USE DEF TypeOK, Goto, runner, history
<1>1. CASE LogCall(t) \/ FlushCall(t)
  BY <1>1 DEF LogCall, FlushCall
<1>2. CASE Encode(t) \/ PushHeader(t) \/ PushBody(t) \/ NeedCacheToFile(t)
  BY <1>2 DEF Encode, PushHeader, PushBody, NeedCacheToFile
<1>3. CASE LoadSlaveFree(t) \/ StoreSlaveFree(t) \/ SwapCache(t)
  BY <1>3 DEF LoadSlaveFree, StoreSlaveFree, SwapCache
<1>4. CASE PrepareToFile(t) \/ PrepareSlave(t) \/ PostIdle(t)
  BY <1>4 DEF PrepareToFile, PrepareSlave, PostIdle
<1>5. CASE AwaitSlave(t) \/ AwaitMaster(t)
  BY <1>5 DEF AwaitSlave, AwaitMaster
<1> QED
  BY <1>1, <1>2, <1>3, <1>4, <1>5 DEF Continue

\* The worker moves no thread.
LEMMA WorkerMovesNone ==
    ASSUME CacheToFile
    PROVE  UNCHANGED <<pc, op, mtx, master, slave, key, nextId, flushes,
                       accepted, base, promised>>
BY DEF CacheToFile, TakeTask, CheckFree, CheckEmpty, ReadSize, UpdateFilePath,
       WriteHeader, WriteData, ClearSlave, StoreFree, caches, history

-----------------------------------------------------------------------------
(* Callers, numbers and tokens: CallInv. *)

\* A thread stays within the operation it has begun.
LEMMA PlacesStep ==
    ASSUME TypeOK, PlacesOK, [Next]_vars
    PROVE  PlacesOK'
<1> USE SinkAssumption
        DEF PlacesOK, TypeOK, Goto, CtorPCs, LogPCs, FlushPCs, Procs
<1>1. CASE Recover
  BY <1>1 DEF Recover, Construct, RecoverSlave, RecoverMaster
<1>2. ASSUME NEW t \in Threads, LogCall(t) \/ FlushCall(t)
      PROVE  PlacesOK'
  BY <1>2 DEF LogCall, FlushCall
<1>3. ASSUME NEW t \in Procs, Continue(t)
      PROVE  PlacesOK'
  <2>1. /\ \A u \in Procs : u # t => pc'[u] = pc[u] /\ op'[u] = op[u]
        /\ op' = op
    BY <1>3, OneMoves
       DEF Continue, Encode, PushHeader, PushBody, NeedCacheToFile,
           LoadSlaveFree, StoreSlaveFree, SwapCache, PrepareToFile,
           PrepareSlave, PostIdle, AwaitSlave, AwaitMaster
  <2>2. CASE Encode(t) \/ PushHeader(t) \/ PushBody(t) \/ NeedCacheToFile(t)
    BY <2>1, <2>2 DEF Encode, PushHeader, PushBody, NeedCacheToFile
  <2>3. CASE LoadSlaveFree(t) \/ StoreSlaveFree(t) \/ SwapCache(t)
    BY <2>1, <2>3 DEF LoadSlaveFree, StoreSlaveFree, SwapCache
  <2>4. CASE PrepareToFile(t)
    BY <2>1, <2>4 DEF PrepareToFile
  <2>5. CASE PrepareSlave(t) \/ PostIdle(t)
    BY <2>1, <2>5 DEF PrepareSlave, PostIdle
  <2>6. CASE AwaitSlave(t) \/ AwaitMaster(t)
    BY <2>1, <2>6 DEF AwaitSlave, AwaitMaster
  <2> QED
    BY <1>3, <2>2, <2>3, <2>4, <2>5, <2>6 DEF Continue
<1>4. CASE CacheToFile
  BY <1>4, WorkerMovesNone
<1>5. CASE Crash
  BY <1>5 DEF Crash
<1>6. CASE UNCHANGED vars
  BY <1>6 DEF vars
<1> QED
  BY <1>1, <1>2, <1>3, <1>4, <1>5, <1>6 DEF Next

\* A thread has at most one empty task in the queue, and waits for it.
LEMMA FuturesStep ==
    ASSUME TypeOK, FuturesOK, [Next]_vars
    PROVE  FuturesOK'
<1> USE DEF FuturesOK, TypeOK, Goto
<1> DEFINE Keep == queue' = queue /\ done' = done
           Stay == \A u \in Procs : pc[u] \in {"wait1", "wait2"} =>
                                        pc'[u] \in {"wait1", "wait2"}
           Post == queue' = Append(queue, CacheTask) /\ done' = done
<1>1. ASSUME Keep, Stay
      PROVE  FuturesOK'
  BY <1>1
<1>2. ASSUME Post, Stay
      PROVE  FuturesOK'
  <2>1. /\ Len(queue) \in Nat
        /\ Len(queue') = Len(queue) + 1
        /\ \A q \in 1..Len(queue) : queue'[q] = queue[q]
        /\ queue'[Len(queue) + 1] = CacheTask
    BY <1>2, QueueAppend, TaskType
  <2>2. ASSUME NEW q \in 1..Len(queue'), queue'[q] # CacheTask
        PROVE  q \in 1..Len(queue) /\ queue'[q] = queue[q]
    BY <2>1, <2>2
  <2>3. \A q \in 1..Len(queue') : \A t \in Procs :
          queue'[q] = IdleTask(t) =>
              pc'[t] \in {"wait1", "wait2"} /\ t \notin done'
    BY <1>2, <2>2, TasksApart
  <2>4. \A q, r \in 1..Len(queue') :
          queue'[q] = queue'[r] /\ queue'[q] # CacheTask => q = r
    BY <2>2
  <2> QED
    BY <1>2, <2>3, <2>4
<1>3. CASE Recover
  <2>1. Keep /\ Stay
    BY <1>3 DEF Recover, Construct, RecoverSlave, RecoverMaster
  <2> QED
    BY <1>1, <2>1
<1>4. ASSUME NEW t \in Threads, LogCall(t) \/ FlushCall(t)
      PROVE  FuturesOK'
  <2>1. Keep /\ Stay
    BY <1>4 DEF LogCall, FlushCall
  <2> QED
    BY <1>1, <2>1
<1>5. ASSUME NEW t \in Procs, Continue(t)
      PROVE  FuturesOK'
  <2>1. CASE \/ Encode(t) \/ PushHeader(t) \/ PushBody(t)
             \/ NeedCacheToFile(t) \/ LoadSlaveFree(t) \/ StoreSlaveFree(t)
             \/ SwapCache(t)
    <3>1. Keep /\ Stay
      BY <2>1 DEF Encode, PushHeader, PushBody, NeedCacheToFile,
                  LoadSlaveFree, StoreSlaveFree, SwapCache
    <3> QED
      BY <1>1, <3>1
  <2>2. CASE PrepareToFile(t) \/ PrepareSlave(t)
    <3>1. Post /\ Stay
      BY <2>2 DEF PrepareToFile, PrepareSlave
    <3> QED
      BY <1>2, <3>1
  <2>3. CASE PostIdle(t)
    <3>1. /\ Stay
          /\ pc[t] \notin {"wait1", "wait2"} /\ pc'[t] \in {"wait1", "wait2"}
          /\ done' = done /\ queue' = Append(queue, IdleTask(t))
      BY <2>3 DEF PostIdle
    <3>2. /\ Len(queue) \in Nat
          /\ Len(queue') = Len(queue) + 1
          /\ \A q \in 1..Len(queue) : queue'[q] = queue[q]
          /\ queue'[Len(queue) + 1] = IdleTask(t)
      BY <3>1, QueueAppend, TaskType
    <3>3. \A q \in 1..Len(queue) : queue[q] # IdleTask(t)
      BY <3>1
    <3>4. \A q \in 1..Len(queue') :
            \/ q \in 1..Len(queue) /\ queue'[q] = queue[q]
            \/ q = Len(queue) + 1 /\ queue'[q] = IdleTask(t)
      BY <3>2
    <3>5. \A q \in 1..Len(queue') : \A u \in Procs :
            queue'[q] = IdleTask(u) =>
                pc'[u] \in {"wait1", "wait2"} /\ u \notin done'
      BY <3>1, <3>4, TasksApart
    <3>6. \A q, r \in 1..Len(queue') :
            queue'[q] = queue'[r] /\ queue'[q] # CacheTask => q = r
      BY <3>3, <3>4
    <3> QED
      BY <3>1, <3>5, <3>6
  <2>4. CASE AwaitSlave(t) \/ AwaitMaster(t)
    <3>1. /\ queue' = queue /\ t \in done /\ done' = done \ {t}
          /\ \A u \in Procs : u # t => pc'[u] = pc[u]
      BY <2>4 DEF AwaitSlave, AwaitMaster
    <3>2. \A q \in 1..Len(queue) : queue[q] # IdleTask(t)
      BY <3>1
    <3> QED
      BY <3>1, <3>2
  <2> QED
    BY <1>5, <2>1, <2>2, <2>3, <2>4 DEF Continue
<1>6. CASE TakeTask
  <2>1. /\ Len(queue) \in Nat \ {0}
        /\ Len(queue') = Len(queue) - 1
        /\ \A q \in 1..Len(queue') : queue'[q] = queue[q + 1]
        /\ Head(queue) = queue[1]
    BY <1>6, QueueTail DEF TakeTask
  <2>2. pc' = pc /\ queue[1] \in Task
    BY <1>6, <2>1 DEF TakeTask
  <2>3. ASSUME NEW q \in 1..Len(queue')
        PROVE  q + 1 \in 1..Len(queue) /\ queue'[q] = queue[q + 1]
    <3>1. Len(queue) \in Nat /\ q \in Nat /\ 1 <= q /\ q <= Len(queue) - 1
      BY <2>1
    <3> QED
      BY <2>1, <3>1
  <2>4. \A q, r \in 1..Len(queue') :
          queue'[q] = queue'[r] /\ queue'[q] # CacheTask => q = r
    <3> SUFFICES ASSUME NEW q \in 1..Len(queue'), NEW r \in 1..Len(queue'),
                        queue'[q] = queue'[r], queue'[q] # CacheTask
                 PROVE  q = r
      OBVIOUS
    <3>1. q + 1 = r + 1
      BY <2>3
    <3> QED
      BY <3>1
  <2>5. CASE done' = done
    BY <2>2, <2>3, <2>4, <2>5
  <2>6. CASE queue[1].task = "idle" /\ done' = done \cup {queue[1].who}
    <3>1. PICK t \in Procs : queue[1] = IdleTask(t) /\ done' = done \cup {t}
      BY <2>2, <2>6, TaskKinds
    <3>2. 1 \in 1..Len(queue)
      BY <2>1
    <3>3. pc'[t] \in {"wait1", "wait2"}
      BY <2>2, <3>1, <3>2
    <3>4. \A q \in 1..Len(queue') : queue'[q] # IdleTask(t)
      <4> SUFFICES ASSUME NEW q \in 1..Len(queue'), queue'[q] = IdleTask(t)
                   PROVE  FALSE
        OBVIOUS
      <4>1. q + 1 = 1
        BY <2>3, <3>1, <3>2, TasksApart
      <4> QED
        BY <4>1
    <3>5. \A u \in done' : pc'[u] \in {"wait1", "wait2"}
      BY <2>2, <3>1, <3>3
    <3>6. \A q \in 1..Len(queue') : \A u \in Procs :
            queue'[q] = IdleTask(u) =>
                pc'[u] \in {"wait1", "wait2"} /\ u \notin done'
      BY <2>2, <2>3, <3>1, <3>4
    <3> QED
      BY <2>4, <3>5, <3>6
  <2> QED
    BY <1>6, <2>1, <2>5, <2>6 DEF TakeTask
<1>7. CASE CacheToFile /\ ~TakeTask
  <2>1. Keep /\ Stay
    BY <1>7 DEF CacheToFile, CheckFree, CheckEmpty, ReadSize, UpdateFilePath,
                WriteHeader, WriteData, ClearSlave, StoreFree
  <2> QED
    BY <1>1, <2>1
<1>8. CASE Crash
  BY <1>8 DEF Crash
<1>9. CASE UNCHANGED vars
  <2>1. Keep /\ Stay
    BY <1>9 DEF vars
  <2> QED
    BY <1>1, <2>1
<1> QED
  BY <1>3, <1>4, <1>5, <1>6, <1>7, <1>8, <1>9 DEF Next

\* Only Encode takes mtx_, only PushBody releases it.
LEMMA LockStep ==
    ASSUME TypeOK, LockOK, [Next]_vars
    PROVE  LockOK'
<1> USE SinkAssumption DEF LockOK, TypeOK, Goto, Procs
<1>1. CASE Recover
  BY <1>1 DEF Recover, Construct, RecoverSlave, RecoverMaster
<1>2. ASSUME NEW t \in Threads, LogCall(t) \/ FlushCall(t)
      PROVE  LockOK'
  BY <1>2 DEF LogCall, FlushCall
<1>3. ASSUME NEW t \in Procs, Continue(t)
      PROVE  LockOK'
  <2>1. CASE Encode(t) \/ PushHeader(t) \/ PushBody(t) \/ NeedCacheToFile(t)
    BY <2>1 DEF Encode, PushHeader, PushBody, NeedCacheToFile
  <2>2. CASE LoadSlaveFree(t) \/ StoreSlaveFree(t) \/ SwapCache(t)
    BY <2>2 DEF LoadSlaveFree, StoreSlaveFree, SwapCache
  <2>3. CASE PrepareToFile(t) \/ PrepareSlave(t) \/ PostIdle(t)
    BY <2>3 DEF PrepareToFile, PrepareSlave, PostIdle
  <2>4. CASE AwaitSlave(t) \/ AwaitMaster(t)
    BY <2>4 DEF AwaitSlave, AwaitMaster
  <2> QED
    BY <1>3, <2>1, <2>2, <2>3, <2>4 DEF Continue
<1>4. CASE CacheToFile
  BY <1>4, WorkerMovesNone
<1>5. CASE Crash
  BY <1>5 DEF Crash
<1>6. CASE UNCHANGED vars
  BY <1>6 DEF vars
<1> QED
  BY <1>1, <1>2, <1>3, <1>4, <1>5, <1>6 DEF Next

\* Numbers are given out in order and accepted under mtx_.
LEMMA NumbersStep ==
    ASSUME TypeOK, LockOK, NumbersOK, [Next]_vars
    PROVE  NumbersOK'
<1> USE SinkAssumption DEF NumbersOK, TypeOK, Goto, Procs
<1>1. CASE Recover
  BY <1>1 DEF Recover, Construct, RecoverSlave, RecoverMaster, history
<1>2. ASSUME NEW t \in Threads, LogCall(t) \/ FlushCall(t)
      PROVE  NumbersOK'
  BY <1>2 DEF LogCall, FlushCall, history
<1>3. ASSUME NEW t \in Procs, Continue(t)
      PROVE  NumbersOK'
  <2>1. CASE Encode(t)
    BY <2>1 DEF Encode, history
  <2>2. CASE PushBody(t)
    <3>1. mtx # NoThread
      BY <2>2 DEF PushBody, LockOK
    <3> QED
      BY <2>2, <3>1 DEF PushBody
  <2>3. CASE PushHeader(t) \/ NeedCacheToFile(t)
    BY <2>3 DEF PushHeader, NeedCacheToFile, history
  <2>4. CASE LoadSlaveFree(t) \/ StoreSlaveFree(t) \/ SwapCache(t)
    BY <2>4 DEF LoadSlaveFree, StoreSlaveFree, SwapCache, history
  <2>5. CASE PrepareToFile(t) \/ PrepareSlave(t) \/ PostIdle(t)
    BY <2>5 DEF PrepareToFile, PrepareSlave, PostIdle, history
  <2>6. CASE AwaitSlave(t) \/ AwaitMaster(t)
    BY <2>6 DEF AwaitSlave, AwaitMaster, history
  <2> QED
    BY <1>3, <2>1, <2>2, <2>3, <2>4, <2>5, <2>6 DEF Continue
<1>4. CASE CacheToFile
  BY <1>4, WorkerMovesNone
<1>5. CASE Crash
  BY <1>5 DEF Crash
<1>6. CASE UNCHANGED vars
  BY <1>6 DEF vars, history
<1> QED
  BY <1>1, <1>2, <1>3, <1>4, <1>5, <1>6 DEF Next

\* Calls of Log are counted from the moment they begin, so that the numbers
\* stay within the bound.
LEMMA BoundStep ==
    ASSUME TypeOK, PlacesOK, BoundOK, [Next]_vars
    PROVE  BoundOK'
<1> USE SinkAssumption DEF TypeOK, Goto, Procs
<1>1. IsFiniteSet(Encoding) /\ nextId + Cardinality(Encoding) <= MaxItems
  BY DEF BoundOK
<1>2. Cardinality(Encoding) \in Nat /\ nextId \in Nat /\ MaxItems \in Nat
  BY <1>1, FS_CardinalityType
<1> DEFINE Same == Encoding' = Encoding /\ nextId' = nextId
<1>3. ASSUME Same
      PROVE  BoundOK'
  BY <1>1, <1>3 DEF BoundOK
<1>4. CASE Recover
  <2>1. Same
    BY <1>4 DEF Recover, Construct, RecoverSlave, RecoverMaster, Encoding
  <2> QED
    BY <1>3, <2>1
<1>5. ASSUME NEW t \in Threads, LogCall(t)
      PROVE  BoundOK'
  <2>1. /\ Encoding' = Encoding \cup {t}
        /\ t \notin Encoding
        /\ nextId' = nextId
        /\ nextId + Cardinality(Encoding) < MaxItems
    BY <1>5 DEF LogCall, Encoding
  <2>2. /\ IsFiniteSet(Encoding')
        /\ Cardinality(Encoding') = Cardinality(Encoding) + 1
    BY <1>1, <2>1, FS_AddElement
  <2> QED
    BY <1>2, <2>1, <2>2 DEF BoundOK
<1>6. ASSUME NEW t \in Threads, FlushCall(t)
      PROVE  BoundOK'
  <2>1. Same
    BY <1>6 DEF FlushCall, Encoding
  <2> QED
    BY <1>3, <2>1
<1>7. ASSUME NEW t \in Procs, Encode(t)
      PROVE  BoundOK'
  <2>1. /\ Encoding' = Encoding \ {t}
        /\ t \in Encoding
        /\ nextId' = nextId + 1
    BY <1>7 DEF Encode, Encoding, PlacesOK, CtorPCs
  <2>2. /\ IsFiniteSet(Encoding')
        /\ Cardinality(Encoding') = Cardinality(Encoding) - 1
    BY <1>1, <2>1, FS_RemoveElement
  <2> QED
    BY <1>1, <1>2, <2>1, <2>2 DEF BoundOK
<1>8. ASSUME NEW t \in Procs, Continue(t), ~Encode(t)
      PROVE  BoundOK'
  <2>1. Same
    <3>1. CASE PushHeader(t) \/ PushBody(t) \/ NeedCacheToFile(t)
      BY <3>1 DEF PushHeader, PushBody, NeedCacheToFile, Encoding
    <3>2. CASE LoadSlaveFree(t) \/ StoreSlaveFree(t) \/ SwapCache(t)
      BY <3>2 DEF LoadSlaveFree, StoreSlaveFree, SwapCache, Encoding
    <3>3. CASE PrepareToFile(t) \/ PrepareSlave(t) \/ PostIdle(t)
      BY <3>3 DEF PrepareToFile, PrepareSlave, PostIdle, Encoding
    <3>4. CASE AwaitSlave(t) \/ AwaitMaster(t)
      BY <3>4 DEF AwaitSlave, AwaitMaster, Encoding
    <3> QED
      BY <1>8, <3>1, <3>2, <3>3, <3>4 DEF Continue
  <2> QED
    BY <1>3, <2>1
<1>9. CASE CacheToFile
  <2>1. Same
    BY <1>9, WorkerMovesNone DEF Encoding
  <2> QED
    BY <1>3, <2>1
<1>10. CASE Crash
  <2>1. Encoding' = {} /\ nextId' = nextId
    BY <1>10 DEF Crash, Encoding
  <2> QED
    BY <1>1, <1>2, <2>1, FS_EmptySet DEF BoundOK
<1>11. CASE UNCHANGED vars
  <2>1. Same
    BY <1>11 DEF vars, Encoding
  <2> QED
    BY <1>3, <2>1
<1> QED
  BY <1>4, <1>5, <1>6, <1>7, <1>8, <1>9, <1>10, <1>11 DEF Next

-----------------------------------------------------------------------------
(* What the steps do to the caches and the log file. *)

\* The steps that touch neither.
Still == \/ RecoverSlave \/ RecoverMaster \/ TakeTask \/ CheckFree
         \/ CheckEmpty \/ ReadSize \/ UpdateFilePath \/ StoreFree
         \/ \E t \in Threads : LogCall(t) \/ FlushCall(t)
         \/ \E t \in Procs :
               \/ Encode(t) \/ NeedCacheToFile(t) \/ LoadSlaveFree(t)
               \/ StoreSlaveFree(t) \/ PrepareToFile(t) \/ PrepareSlave(t)
               \/ PostIdle(t) \/ AwaitSlave(t) \/ AwaitMaster(t)
         \/ UNCHANGED vars

\* They leave everything the data depend on alone.
LEMMA StillData ==
    ASSUME Still
    PROVE  /\ UNCHANGED <<master, slave, buf, file, key, accepted, ioFailed>>
           /\ rpc' \in {"clear", "write_data"} \/ rpc = "clear" => rpc' = rpc
BY DEF Still, RecoverSlave, RecoverMaster, TakeTask, CheckFree, CheckEmpty,
       ReadSize, UpdateFilePath, StoreFree, LogCall, FlushCall, Encode,
       NeedCacheToFile, LoadSlaveFree, StoreSlaveFree, PrepareToFile,
       PrepareSlave, PostIdle, AwaitSlave, AwaitMaster, vars, caches, runner,
       history, RunnerGoto

\* All other steps, by what they do to the data.
LEMMA DataCases ==
    ASSUME [Next]_vars
    PROVE  \/ Still
           \/ Construct
           \/ \E t \in Procs : PushHeader(t) \/ PushBody(t)
           \/ \E t \in Procs : SwapCache(t)
           \/ WriteHeader \/ WriteData \/ ClearSlave
           \/ Crash
BY DEF Next, Recover, Continue, CacheToFile, Still

\* Once disturbed, always disturbed, and nothing accepted is forgotten.
LEMMA OneWay ==
    ASSUME TypeOK, [Next]_vars
    PROVE  /\ raced => raced'
           /\ ioFailed => ioFailed'
           /\ accepted \subseteq accepted'
           /\ key <= key' /\ key \in Nat /\ key' \in Nat
<1> USE DEF TypeOK, history
<1>1. CASE Recover
  BY <1>1 DEF Recover, Construct, RecoverSlave, RecoverMaster
<1>2. ASSUME NEW t \in Threads, LogCall(t) \/ FlushCall(t)
      PROVE  /\ raced => raced'
             /\ ioFailed => ioFailed'
             /\ accepted \subseteq accepted'
             /\ key' = key
  BY <1>2 DEF LogCall, FlushCall
<1>3. ASSUME NEW t \in Procs, Continue(t)
      PROVE  /\ raced => raced'
             /\ ioFailed => ioFailed'
             /\ accepted \subseteq accepted'
             /\ key' = key
  BY <1>3
     DEF Continue, Encode, PushHeader, PushBody, NeedCacheToFile,
         LoadSlaveFree, StoreSlaveFree, SwapCache, PrepareToFile,
         PrepareSlave, PostIdle, AwaitSlave, AwaitMaster
<1>4. CASE CacheToFile
  BY <1>4
     DEF CacheToFile, TakeTask, CheckFree, CheckEmpty, ReadSize,
         UpdateFilePath, WriteHeader, WriteData, ClearSlave, StoreFree
<1>5. CASE Crash
  BY <1>5 DEF Crash
<1>6. CASE UNCHANGED vars
  BY <1>6 DEF vars
<1> QED
  BY <1>1, <1>2, <1>3, <1>4, <1>5, <1>6 DEF Next

\* The types of what a cache and a chunk hold.
LEMMA TokenTypes ==
    ASSUME NEW d \in Seq(Token)
    PROVE  /\ Len(d) \in Nat
           /\ \A j \in 1..Len(d) : d[j].id \in Nat /\ d[j].key \in Nat
<1>1. \A j \in 1..Len(d) : d[j] \in Token
  OBVIOUS
<1>2. \A x \in Token : x.id \in Nat /\ x.key \in Nat
  BY DEF Token
<1> QED
  BY <1>1, <1>2

\* Caches and chunks hold tokens.
LEMMA DataTypes ==
    ASSUME TypeOK
    PROVE  /\ \A c \in Caches : /\ buf[c].data \in Seq(Token)
                                /\ Size(buf[c]) = Len(buf[c].data)
           /\ \A n \in 1..Len(file) : file[n].data \in Seq(Token)
           /\ Len(file) \in Nat
<1>1. \A c \in Caches : buf[c] \in Buffer
  BY DEF TypeOK
<1>2. \A n \in 1..Len(file) : file[n] \in Chunk
  BY DEF TypeOK
<1>3. Len(file) \in Nat
  BY DEF TypeOK
<1> QED
  BY <1>1, <1>2, <1>3 DEF Buffer, Chunk, Size

\* Push appends one token to the master.
LEMMA PushData ==
    ASSUME TypeOK, NEW t \in Procs, NEW x \in Token,
           buf' = [buf EXCEPT ![master] = Push(@, x)]
    PROVE  /\ buf[master].data \in Seq(Token)
           /\ buf'[master].data = Append(buf[master].data, x)
           /\ \A c \in Caches \ {master} : buf'[c] = buf[c]
<1>1. buf[master] \in Buffer
  BY DEF TypeOK
<1>2. buf'[master] = Push(buf[master], x)
  BY DEF TypeOK
<1> QED
  BY <1>1, <1>2, PushType DEF TypeOK, Buffer

\* Clear empties the slave.
LEMMA ClearData ==
    ASSUME TypeOK, ClearSlave
    PROVE  /\ buf'[slave].data = <<>>
           /\ \A c \in Caches \ {slave} : buf'[c] = buf[c]
BY ClearType DEF ClearSlave, TypeOK

\* Mapping the caches keeps their data.
LEMMA ConstructData ==
    ASSUME TypeOK, Construct
    PROVE  \A c \in Caches : buf'[c].data = buf[c].data
BY OpenType DEF Construct, TypeOK

\* A chunk header adds a chunk without data, unless the write fails.
LEMMA HeaderData ==
    ASSUME TypeOK, WriteHeader
    PROVE  /\ UNCHANGED <<buf, master, slave, pc, key>>
           /\ \/ file' = file /\ ioFailed' /\ rpc' = "clear"
              \/ /\ rpc' = "write_data"
                 /\ Len(file) \in Nat
                 /\ Len(file') = Len(file) + 1
                 /\ \A n \in 1..Len(file) : file'[n] = file[n]
                 /\ file'[Len(file) + 1].data = <<>>
                 /\ file'[Len(file) + 1].key = key
                 /\ file'[Len(file) + 1].size = chunk_size
<1>1. /\ NewChunk \in Chunk /\ NewChunk.data = <<>>
      /\ NewChunk.key = key /\ NewChunk.size = chunk_size
  BY NewChunkType DEF TypeOK, NewChunk
<1>2. file \in Seq(Chunk)
  BY DEF TypeOK
<1>3. CASE file' = Append(file, NewChunk) /\ rpc' = "write_data"
  <2>1. /\ Len(file) \in Nat
        /\ Len(file') = Len(file) + 1
        /\ \A n \in 1..Len(file) : file'[n] = file[n]
        /\ file'[Len(file) + 1] = NewChunk
    <3> HIDE DEF NewChunk
    <3> QED
      BY <1>1, <1>2, <1>3
  <2> QED
    BY <1>1, <1>3, <2>1 DEF WriteHeader, caches
<1> QED
  BY <1>3 DEF WriteHeader, RunnerGoto, caches

\* The data of the last chunk, which had none, are the first n tokens read
\* out of the slave; all of them unless the write fails.
LEMMA WriteDataData ==
    ASSUME SinkInv, WriteData
    PROVE  /\ UNCHANGED <<buf, master, slave, pc, key>>
           /\ rpc = "write_data" /\ rpc' = "clear"
           /\ Len(file) \in Nat \ {0}
           /\ Len(file') = Len(file)
           /\ file[Len(file)].data = <<>>
           /\ \A m \in 1..Len(file) :
                 file'[m].key = file[m].key /\ file'[m].size = file[m].size
           /\ \A m \in 1..(Len(file) - 1) : file'[m] = file[m]
           /\ \E n \in 0..chunk_size :
                 /\ Len(file'[Len(file)].data) = n
                 /\ \A j \in 1..n :
                       file'[Len(file)].data[j] =
                           IF j <= Size(buf[slave]) THEN buf[slave].data[j]
                                                    ELSE Stale
                 /\ ~raced => n <= Size(buf[slave])
                 /\ ~raced /\ ~ioFailed' =>
                       file'[Len(file)].data = buf[slave].data
<1>1. UNCHANGED <<buf, master, slave, pc, key>> /\ rpc = "write_data"
        /\ rpc' = "clear"
  BY DEF WriteData, RunnerGoto, caches
<1>2. PICK n \in 0..chunk_size :
        /\ file' = [file EXCEPT ![Len(file)].data = ReadOut(buf[slave], n, Stale)]
        /\ n = chunk_size \/ ioFailed'
  BY DEF WriteData
<1> DEFINE d == ReadOut(buf[slave], n, Stale)
<1>3. file \in Seq(Chunk) /\ buf[slave] \in Buffer /\ chunk_size \in Nat
  BY DEF SinkInv, TypeOK
<1>4. d \in Seq(Token) /\ (n = Size(buf[slave]) => d = buf[slave].data)
  BY <1>3, ReadOutType
<1>5. /\ Len(d) = n
      /\ \A j \in 1..n : d[j] = IF j <= Size(buf[slave])
                                THEN buf[slave].data[j] ELSE Stale
  BY <1>3 DEF ReadOut
<1>6. Len(file) \in Nat \ {0} /\ file[Len(file)].data = <<>>
  BY <1>1, <1>3 DEF SinkInv, ChunkIsSlave
<1>7. ~raced => chunk_size = Size(buf[slave])
  BY <1>1 DEF SinkInv, ChunkIsSlave
<1>8. file' = [file EXCEPT ![Len(file)].data = d]
  BY <1>2
<1> HIDE DEF d
<1>9. Len(file') = Len(file) /\ file'[Len(file)].data = d
  BY <1>3, <1>4, <1>6, <1>8, SetDataType
<1>10. /\ \A m \in 1..(Len(file) - 1) : file'[m] = file[m]
       /\ file'[Len(file)] = [file[Len(file)] EXCEPT !.data = d]
  BY <1>3, <1>6, <1>8
<1>11. /\ file'[Len(file)].key = file[Len(file)].key
       /\ file'[Len(file)].size = file[Len(file)].size
  <2>1. Len(file) \in 1..Len(file)
    BY <1>6
  <2>2. file[Len(file)] \in Chunk
    BY <1>3, <2>1
  <2> QED
    BY <1>10, <2>2 DEF Chunk
<1>12. ASSUME NEW m \in 1..Len(file)
       PROVE  file'[m].key = file[m].key /\ file'[m].size = file[m].size
  <2>1. m = Len(file) \/ m \in 1..(Len(file) - 1)
    BY <1>6
  <2> QED
    BY <1>10, <1>11, <2>1
<1>13. ~raced => n <= Size(buf[slave])
  BY <1>3, <1>7
<1>14. ~raced /\ ~ioFailed' => d = buf[slave].data
  BY <1>2, <1>4, <1>7
<1> QED
  BY <1>1, <1>5, <1>6, <1>9, <1>10, <1>12, <1>13, <1>14

\* What Log pushes was numbered by this process.
LEMMA TokensStep ==
    ASSUME SinkInv, TypeOK', NumbersOK, TokensOK, [Next]_vars
    PROVE  TokensOK'
<1> USE DEF SinkInv
<1>1. /\ accepted \subseteq accepted'
      /\ key <= key' /\ key \in Nat /\ key' \in Nat
  BY OneWay
<1>3. \A c \in Caches : \A j \in 1..Len(buf[c].data) :
        /\ buf[c].data[j].part = "body" => buf[c].data[j].id \in accepted'
        /\ buf[c].data[j].key <= key'
  <2> SUFFICES ASSUME NEW c \in Caches, NEW j \in 1..Len(buf[c].data)
               PROVE  /\ buf[c].data[j].part = "body" =>
                            buf[c].data[j].id \in accepted'
                      /\ buf[c].data[j].key <= key'
    OBVIOUS
  <2>1. TokenOK(buf[c].data[j])
    BY DEF TokensOK
  <2>2. buf[c].data \in Seq(Token)
    BY DataTypes
  <2>3. buf[c].data[j].key \in Nat
    BY <2>2, TokenTypes
  <2> QED
    BY <1>1, <2>1, <2>3 DEF TokenOK
<1>4. \A n \in 1..Len(file) : \A j \in 1..Len(file[n].data) :
        file[n].data[j].part = "body" => file[n].data[j].id \in accepted'
  BY <1>1 DEF TokensOK
<1>5. ASSUME file' = file, \A c \in Caches : buf'[c].data = buf[c].data
      PROVE  TokensOK'
  BY <1>3, <1>4, <1>5 DEF TokensOK, TokenOK
<1>6. CASE Still
  BY <1>5, <1>6, StillData
<1>7. CASE Construct
  BY <1>5, <1>7, ConstructData DEF Construct, runner
<1>8. ASSUME NEW t \in Procs, PushHeader(t) \/ PushBody(t)
      PROVE  TokensOK'
  <2>1. PICK x \in Token :
          /\ buf' = [buf EXCEPT ![master] = Push(@, x)]
          /\ x.part = "body" => x.id \in accepted'
          /\ x.key = key'
    <3>1. ItemHeader(nextId) \in Token /\ ItemBody(nextId) \in Token
      BY TokenType DEF TypeOK
    <3>2. CASE PushHeader(t)
      BY <3>1, <3>2 DEF PushHeader, ItemHeader
    <3>3. CASE PushBody(t)
      BY <3>1, <3>3 DEF PushBody, ItemBody
    <3> QED
      BY <1>8, <3>2, <3>3
  <2>2. /\ buf[master].data \in Seq(Token)
        /\ buf'[master].data = Append(buf[master].data, x)
        /\ \A c \in Caches \ {master} : buf'[c] = buf[c]
    BY <2>1, PushData
  <2>3. file' = file
    BY <1>8 DEF PushHeader, PushBody, runner
  <2>4. ASSUME NEW c \in Caches, NEW j \in 1..Len(buf'[c].data)
        PROVE  TokenOK(buf[c].data[j])'
    <3>1. CASE c = master /\ j = Len(buf[master].data) + 1
      <4>1. buf'[c].data[j] = x
        BY <2>2, <3>1
      <4> QED
        BY <1>1, <2>1, <4>1 DEF TokenOK
    <3>2. CASE c = master /\ j # Len(buf[master].data) + 1
      <4>1. j \in 1..Len(buf[c].data) /\ buf'[c].data[j] = buf[c].data[j]
        BY <2>2, <2>4, <3>2
      <4> QED
        BY <1>3, <4>1 DEF TokenOK
    <3>3. CASE c # master
      BY <1>3, <2>2, <2>4, <3>3 DEF TokenOK
    <3> QED
      BY <3>1, <3>2, <3>3
  <2> QED
    BY <1>4, <2>3, <2>4 DEF TokensOK
<1>9. ASSUME NEW t \in Procs, SwapCache(t)
      PROVE  TokensOK'
  BY <1>5, <1>9 DEF SwapCache, runner
<1>10. CASE WriteHeader
  <2>1. CASE file' = file
    BY <1>5, <1>10, <2>1, HeaderData
  <2>2. CASE file' # file
    <3>1. /\ buf' = buf
          /\ Len(file) \in Nat
          /\ Len(file') = Len(file) + 1
          /\ \A n \in 1..Len(file) : file'[n] = file[n]
          /\ file'[Len(file) + 1].data = <<>>
      BY <1>10, <2>2, HeaderData
    <3>2. ASSUME NEW n \in 1..Len(file'), NEW j \in 1..Len(file'[n].data)
          PROVE  n \in 1..Len(file) /\ file'[n] = file[n]
      BY <3>1, <3>2
    <3> QED
      BY <1>3, <1>4, <3>1, <3>2 DEF TokensOK, TokenOK
  <2> QED
    BY <2>1, <2>2
<1>11. CASE WriteData
  <2>1. /\ buf' = buf
        /\ Len(file) \in Nat \ {0}
        /\ Len(file') = Len(file)
        /\ \A m \in 1..(Len(file) - 1) : file'[m] = file[m]
    BY <1>11, WriteDataData
  <2>2. PICK n \in 0..chunk_size :
          /\ Len(file'[Len(file)].data) = n
          /\ \A j \in 1..n :
                file'[Len(file)].data[j] =
                    IF j <= Size(buf[slave]) THEN buf[slave].data[j]
                                             ELSE Stale
    BY <1>11, WriteDataData
  <2>3. slave \in Caches /\ Size(buf[slave]) = Len(buf[slave].data)
          /\ Len(buf[slave].data) \in Nat
    <3>1. slave \in Caches
      BY DEF TypeOK
    <3> QED
      BY <3>1, DataTypes, TokenTypes
  <2>4. ASSUME NEW j \in 1..n, file'[Len(file)].data[j].part = "body"
        PROVE  file'[Len(file)].data[j].id \in accepted'
    <3>1. Stale.part # "body"
      BY DEF Stale
    <3>2. j <= Size(buf[slave])
            /\ file'[Len(file)].data[j] = buf[slave].data[j]
      BY <2>2, <2>4, <3>1
    <3>3. j \in 1..Len(buf[slave].data)
      BY <2>3, <3>2
    <3> QED
      BY <1>3, <2>3, <2>4, <3>2, <3>3
  <2>5. ASSUME NEW m \in 1..Len(file'), NEW j \in 1..Len(file'[m].data),
               file'[m].data[j].part = "body"
        PROVE  file'[m].data[j].id \in accepted'
    <3>1. CASE m = Len(file)
      BY <2>2, <2>4, <2>5, <3>1
    <3>2. CASE m # Len(file)
      <4>1. m \in 1..(Len(file) - 1) /\ m \in 1..Len(file)
        BY <2>1, <3>2
      <4> QED
        BY <1>4, <2>1, <2>5, <4>1
    <3> QED
      BY <3>1, <3>2
  <2> QED
    BY <1>3, <2>1, <2>5 DEF TokensOK, TokenOK
<1>12. CASE ClearSlave
  <2>1. /\ file' = file
        /\ buf'[slave].data = <<>>
        /\ \A c \in Caches \ {slave} : buf'[c] = buf[c]
    BY <1>12, ClearData DEF ClearSlave
  <2>2. ASSUME NEW c \in Caches, NEW j \in 1..Len(buf'[c].data)
        PROVE  c # slave
    BY <2>1, <2>2
  <2> QED
    BY <1>3, <1>4, <2>1, <2>2 DEF TokensOK, TokenOK
<1>13. CASE Crash
  BY <1>5, <1>13 DEF Crash
<1> QED
  BY <1>6, <1>7, <1>8, <1>9, <1>10, <1>11, <1>12, <1>13, DataCases

\* The initial state.
LEMMA CallInit ==
    Init => CallInv
<1> SUFFICES ASSUME Init
             PROVE  CallInv
  OBVIOUS
<1>1. PlacesOK /\ LockOK /\ NumbersOK
  BY SinkAssumption
     DEF Init, PlacesOK, CtorPCs, LogPCs, LockOK, NumbersOK, Procs
<1>2. FuturesOK
  BY DEF Init, FuturesOK
<1>3. BoundOK
  <2>1. Encoding = {} /\ nextId = 0 /\ MaxItems \in Nat
    BY SinkAssumption DEF Init, Encoding, Procs
  <2> QED
    BY <2>1, FS_EmptySet DEF BoundOK
<1>4. TokensOK
  BY DEF Init, TokensOK, NoFile
<1> QED
  BY <1>1, <1>2, <1>3, <1>4 DEF CallInv

\* Every step keeps CallInv.
LEMMA CallStep ==
    ASSUME SinkInv, TypeOK', CallInv, [Next]_vars
    PROVE  CallInv'
<1> USE DEF CallInv
<1>1. TypeOK
  BY DEF SinkInv
<1>2. PlacesOK' /\ FuturesOK' /\ LockOK'
  BY <1>1, PlacesStep, FuturesStep, LockStep
<1>3. NumbersOK' /\ BoundOK' /\ TokensOK'
  BY <1>1, NumbersStep, BoundStep, TokensStep
<1> QED
  BY <1>2, <1>3

-----------------------------------------------------------------------------
(* Flush is durable. *)

\* The log file forgets nothing.
LEMMA FileGrows ==
    ASSUME SinkInv, [Next]_vars, NEW i \in Nat, OnFile(i)
    PROVE  OnFile(i)'
<1>1. PICK n \in 1..Len(file) : HasBody(file[n].data, i)
  BY DEF OnFile
<1>2. ASSUME n \in 1..Len(file'), file'[n].data = file[n].data
      PROVE  OnFile(i)'
  BY <1>1, <1>2 DEF OnFile, HasBody
<1>3. TypeOK
  BY DEF SinkInv
<1>4. CASE file' = file
  BY <1>2, <1>4
<1>5. CASE Still
  BY <1>4, <1>5, StillData
<1>6. CASE \/ Construct \/ ClearSlave \/ Crash
           \/ \E t \in Procs : PushHeader(t) \/ PushBody(t) \/ SwapCache(t)
  <2>1. file' = file
    BY <1>6 DEF Construct, ClearSlave, Crash, PushHeader, PushBody, SwapCache,
                runner
  <2> QED
    BY <1>4, <2>1
<1>7. CASE WriteHeader
  <2>1. \/ file' = file
        \/ /\ Len(file) \in Nat /\ Len(file') = Len(file) + 1
           /\ file'[n] = file[n]
    BY <1>3, <1>7, HeaderData
  <2> QED
    BY <1>2, <1>4, <2>1
<1>8. CASE WriteData
  <2>1. /\ Len(file) \in Nat \ {0}
        /\ Len(file') = Len(file)
        /\ file[Len(file)].data = <<>>
        /\ \A m \in 1..(Len(file) - 1) : file'[m] = file[m]
    BY <1>8, WriteDataData
  <2>2. n # Len(file)
    BY <1>1, <2>1 DEF HasBody
  <2>3. n \in 1..(Len(file) - 1)
    BY <2>1, <2>2
  <2> QED
    BY <1>2, <2>1, <2>3
<1> QED
  BY <1>5, <1>6, <1>7, <1>8, DataCases

\* What is scheduled stays so until it is on file: the slave loses an item
\* only when it is cleared, and then it has been written.
LEMMA ScheduledStays ==
    ASSUME SinkInv, SinkInv', [Next]_vars, ~Crash, pc[Ctor] = "done",
           Undisturbed', NEW i \in accepted
    PROVE  /\ Scheduled(i) => Scheduled(i)'
           /\ Ready(i) => Ready(i)'
<1>1. TypeOK /\ TypeOK' /\ i \in Nat /\ Undisturbed
  <2>1. TypeOK
    BY DEF SinkInv
  <2> QED
    BY <2>1, OneWay DEF SinkInv, TypeOK, Undisturbed
<1>2. OnFile(i) => OnFile(i)'
  BY <1>1, FileGrows
<1>3. ASSUME UNCHANGED <<buf, slave, slave_free>>, Claimed => Claimed'
      PROVE  /\ Scheduled(i) => Scheduled(i)'
             /\ Ready(i) => Ready(i)'
  BY <1>2, <1>3 DEF Scheduled, Ready, HasBody
<1>4. ASSUME UNCHANGED <<buf, slave>>, Claimed => Claimed', slave_free'
      PROVE  /\ Scheduled(i) => Scheduled(i)'
             /\ Ready(i) => Ready(i)'
  BY <1>2, <1>4 DEF Scheduled, Ready, HasBody
<1>5. ASSUME NEW t \in Procs,
             Continue(t) \/ LogCall(t) \/ FlushCall(t), pc[t] # "swap"
      PROVE  Claimed => Claimed'
  BY <1>1, <1>5, OneMoves DEF Claimed
<1>6. CASE Recover
  BY <1>6 DEF Recover, Construct, RecoverSlave, RecoverMaster, Goto
<1>7. ASSUME NEW t \in Procs,
             \/ Encode(t) \/ NeedCacheToFile(t) \/ LoadSlaveFree(t)
             \/ PrepareToFile(t) \/ PrepareSlave(t) \/ PostIdle(t)
             \/ AwaitSlave(t) \/ AwaitMaster(t)
             \/ LogCall(t) \/ FlushCall(t)
      PROVE  /\ Scheduled(i) => Scheduled(i)'
             /\ Ready(i) => Ready(i)'
  <2>1. UNCHANGED <<buf, slave, slave_free>> /\ pc[t] # "swap"
    BY <1>7
       DEF Encode, NeedCacheToFile, LoadSlaveFree, PrepareToFile,
           PrepareSlave, PostIdle, AwaitSlave, AwaitMaster, LogCall,
           FlushCall, caches, Goto
  <2>2. Claimed => Claimed'
    BY <1>5, <1>7, <2>1 DEF Continue
  <2> QED
    BY <1>3, <2>1, <2>2
<1>8. ASSUME NEW t \in Procs, PushHeader(t) \/ PushBody(t)
      PROVE  /\ Scheduled(i) => Scheduled(i)'
             /\ Ready(i) => Ready(i)'
  <2>1. UNCHANGED <<slave, slave_free>> /\ pc[t] # "swap"
    BY <1>8 DEF PushHeader, PushBody, Goto
  <2>2. buf'[slave] = buf[slave]
    BY <1>8 DEF PushHeader, PushBody, SinkInv, TypeOK
  <2>3. Claimed => Claimed'
    BY <1>5, <1>8, <2>1 DEF Continue
  <2> QED
    BY <1>2, <2>1, <2>2, <2>3 DEF Scheduled, Ready, HasBody
<1>9. ASSUME NEW t \in Procs, StoreSlaveFree(t)
      PROVE  Scheduled(i)'
  <2>1. pc'[t] = "swap"
    BY <1>1, <1>9 DEF StoreSlaveFree, Goto, TypeOK
  <2> QED
    BY <2>1 DEF Scheduled, Claimed
<1>10. ASSUME NEW t \in Procs, SwapCache(t)
       PROVE  Scheduled(i)'
  <2>1. /\ pc[t] = "swap" /\ slave' = master /\ buf' = buf
    BY <1>10 DEF SwapCache, Goto
  <2>2. Empty(buf[slave])
    BY <1>1, <2>1 DEF SinkInv, WindowHoldsSlave, Undisturbed
  <2>3. ~HasBody(buf[slave].data, i)
    BY <2>2 DEF HasBody, Empty, Size
  <2>4. OnFile(i) \/ HasBody(buf[master].data, i)
    <3>1. OnFile(i) \/ InCache(i)
      BY <1>1 DEF SinkInv, NothingLost
    <3>2. \A c \in Caches : c = master \/ c = slave
      BY <1>1 DEF SinkInv, TypeOK, Caches
    <3> QED
      BY <2>3, <3>1, <3>2 DEF InCache
  <2> QED
    BY <1>2, <2>1, <2>4 DEF Scheduled, HasBody
<1>11. CASE CacheToFile /\ ~ClearSlave
  <2>1. UNCHANGED <<buf, slave, pc>> /\ (slave_free => slave_free')
    BY <1>11
       DEF CacheToFile, TakeTask, CheckFree, CheckEmpty, ReadSize,
           UpdateFilePath, WriteHeader, WriteData, StoreFree, caches
  <2> QED
    BY <1>2, <2>1 DEF Scheduled, Ready, HasBody, Claimed
<1>12. CASE ClearSlave
  <2>1. UNCHANGED <<slave, pc, slave_free, file>> /\ rpc = "clear"
    BY <1>12 DEF ClearSlave, RunnerGoto
  <2>2. HasBody(buf[slave].data, i) => OnFile(i)
    BY <1>1, <2>1 DEF SinkInv, WrittenBeforeClear, HasBody
  <2> QED
    BY <1>2, <2>1, <2>2 DEF Scheduled, Ready, Claimed
<1>13. CASE UNCHANGED vars
  BY <1>3, <1>13 DEF vars, caches, Claimed
<1> QED
  BY <1>6, <1>7, <1>8, <1>9, <1>10, <1>11, <1>12, <1>13
     DEF Next, Continue, Ready, Procs

\* A CacheToFile_ stays among the first n tasks while tasks are added.
LEMMA QueuedStays ==
    ASSUME NEW n \in Nat, n <= Len(queue), Len(queue) \in Nat,
           \A q \in 1..Len(queue) : queue'[q] = queue[q], Queued(n)
    PROVE  Queued(n)'
<1>1. PICK p \in 1..n : queue[p] = CacheTask
  BY DEF Queued
<1>2. p \in 1..Len(queue)
  OBVIOUS
<1> QED
  BY <1>1, <1>2 DEF Queued

\* Taking the oldest task brings the others forward; a CacheToFile_ that
\* was among the first n + 1 is running or among the first n.
LEMMA QueuedShifts ==
    ASSUME TypeOK, TakeTask, NEW n \in Nat, n + 1 <= Len(queue),
           Queued(n + 1)
    PROVE  rpc' = "check_free" \/ Queued(n)'
<1>1. /\ Len(queue) \in Nat \ {0}
      /\ Len(queue') = Len(queue) - 1
      /\ \A q \in 1..Len(queue') : queue'[q] = queue[q + 1]
      /\ Head(queue) = queue[1]
  BY QueueTail DEF TakeTask, TypeOK
<1>2. PICK p \in 1..(n + 1) : queue[p] = CacheTask
  BY DEF Queued
<1>3. CASE p = 1
  <2>1. Head(queue).task # "idle"
    BY <1>1, <1>2, <1>3 DEF CacheTask
  <2> QED
    BY <2>1 DEF TakeTask
<1>4. CASE p # 1
  <2>1. p - 1 \in 1..n /\ p - 1 \in 1..Len(queue') /\ (p - 1) + 1 = p
    BY <1>1, <1>4
  <2>2. queue'[p - 1] = CacheTask
    BY <1>1, <1>2, <2>1
  <2> QED
    BY <2>1, <2>2 DEF Queued
<1> QED
  BY <1>3, <1>4

\* Steps of the constructor and of other threads, and adding tasks of
\* others, do not disturb a Flush in progress.
LEMMA FlushByOthers ==
    ASSUME SinkInv, CallInv, NEW t \in Threads, NEW i \in accepted,
           FlushOf(t, i),
           pc'[t] = pc[t], rpc' = rpc, t \in done' => t \in done,
           \/ queue' = queue
           \/ \E x \in Task \ {IdleTask(t)} : queue' = Append(queue, x),
           OnFile(i) => OnFile(i)',
           Scheduled(i) => Scheduled(i)',
           Ready(i) => Ready(i)'
    PROVE  FlushOf(t, i)'
<1>1. queue \in Seq(Task) /\ Len(queue) \in Nat
  BY DEF SinkInv, TypeOK
<1>2. /\ Len(queue') \in Nat /\ Len(queue) <= Len(queue')
      /\ \A q \in 1..Len(queue) : queue'[q] = queue[q]
      /\ \A q \in 1..Len(queue') :
            queue'[q] = IdleTask(t) =>
                q \in 1..Len(queue) /\ queue[q] = IdleTask(t)
  <2>1. CASE queue' = queue
    BY <1>1, <2>1
  <2>2. ASSUME NEW x \in Task \ {IdleTask(t)}, queue' = Append(queue, x)
        PROVE  /\ Len(queue') = Len(queue) + 1
               /\ \A q \in 1..Len(queue) : queue'[q] = queue[q]
               /\ queue'[Len(queue) + 1] = x
    BY <1>1, <2>2, QueueAppend
  <2> QED
    BY <1>1, <2>1, <2>2
<1>3. ASSUME NEW n \in Nat, n <= Len(queue)
      PROVE  Queued(n) => Queued(n)'
  BY <1>1, <1>2, <1>3, QueuedStays
<1>4. Queued(Len(queue)) => \E p \in 1..Len(queue') : queue'[p] = CacheTask
  BY <1>1, <1>2 DEF Queued
<1>5. ASSUME NEW n \in Nat, n <= Len(queue)
      PROVE  /\ FirstHalf(i, n) => FirstHalf(i, n)'
             /\ SecondHalf(i, n) => SecondHalf(i, n)'
  BY <1>3, <1>5 DEF FirstHalf, SecondHalf
<1>6. /\ pc[t] = "drain1" => FirstHalf(i, Len(queue))'
      /\ pc[t] = "drain2" => SecondHalf(i, Len(queue))'
  BY <1>4 DEF FlushOf, FirstHalf, SecondHalf, Queued
<1>7. ASSUME NEW q \in 1..Len(queue'), queue'[q] = IdleTask(t)
      PROVE  /\ pc[t] = "wait1" => FirstHalf(i, q - 1)'
             /\ pc[t] = "wait2" => SecondHalf(i, q - 1)'
  <2>1. q \in 1..Len(queue) /\ queue[q] = IdleTask(t)
    BY <1>2, <1>7
  <2>2. q - 1 \in Nat /\ q - 1 <= Len(queue)
    BY <1>1, <2>1
  <2>3. /\ pc[t] = "wait1" => FirstHalf(i, q - 1)
        /\ pc[t] = "wait2" => SecondHalf(i, q - 1)
    BY <2>1 DEF FlushOf
  <2> QED
    BY <1>5, <2>2, <2>3
<1> QED
  BY <1>6, <1>7 DEF FlushOf

\* The steps of Flush itself.
LEMMA FlushByItself ==
    ASSUME SinkInv, CallInv, NEW t \in Threads, op[t] = "flush",
           NEW i \in accepted, FlushOf(t, i), Continue(t),
           Scheduled(i) => Scheduled(i)',
           Ready(i) => Ready(i)'
    PROVE  FlushOf(t, i)'
<1>1. /\ TypeOK /\ queue \in Seq(Task) /\ Len(queue) \in Nat
      /\ pc \in [Procs -> PCs] /\ t \in Procs /\ t # Ctor
  BY SinkAssumption DEF SinkInv, TypeOK, Procs
<1>2. pc[t] \in FlushPCs
  BY DEF CallInv, PlacesOK
<1>3. rpc' = rpc
  BY <1>1, OneMoves
<1>4. CASE Encode(t) \/ PushHeader(t) \/ PushBody(t) \/ NeedCacheToFile(t)
  BY <1>2, <1>4
     DEF Encode, PushHeader, PushBody, NeedCacheToFile, Goto, FlushPCs
<1>5. CASE PrepareSlave(t)
  <2>1. /\ pc'[t] = "drain1"
        /\ queue' = Append(queue, CacheTask)
    BY <1>1, <1>5 DEF PrepareSlave, Goto
  <2>2. Len(queue') \in 1..Len(queue') /\ queue'[Len(queue')] = CacheTask
    BY <1>1, <2>1, QueueAppend, TaskType
  <2> QED
    BY <2>1, <2>2 DEF FlushOf, FirstHalf, Queued
<1>6. CASE PostIdle(t)
  <2>1. /\ \/ pc[t] = "drain1" /\ pc'[t] = "wait1"
           \/ pc[t] = "drain2" /\ pc'[t] = "wait2"
        /\ queue' = Append(queue, IdleTask(t))
        /\ UNCHANGED <<done, buf, slave, slave_free>>
    BY <1>1, <1>6 DEF PostIdle, Goto, caches
  <2>2. t \notin done' /\ \A q \in 1..Len(queue) : queue[q] # IdleTask(t)
    BY <1>1, <2>1 DEF CallInv, FuturesOK
  <2>3. /\ Len(queue') = Len(queue) + 1
        /\ \A q \in 1..Len(queue) : queue'[q] = queue[q]
    BY <1>1, <2>1, QueueAppend, TaskType
  <2>4. Queued(Len(queue)) => \E p \in 1..Len(queue) : queue'[p] = CacheTask
    BY <2>3 DEF Queued
  <2>5. OnFile(i) => OnFile(i)'
    BY <1>1, OneMoves DEF OnFile, HasBody
  <2>6. ASSUME NEW q \in 1..Len(queue'), queue'[q] = IdleTask(t)
        PROVE  /\ pc'[t] = "wait1" => FirstHalf(i, q - 1)'
               /\ pc'[t] = "wait2" => SecondHalf(i, q - 1)'
    <3>1. q = Len(queue) + 1
      BY <1>1, <2>2, <2>3, <2>6
    <3>2. q - 1 = Len(queue)
      BY <1>1, <3>1
    <3>3. Queued(Len(queue)) => Queued(q - 1)'
      BY <2>4, <3>2 DEF Queued
    <3>4. /\ pc'[t] = "wait1" => FirstHalf(i, Len(queue))
          /\ pc'[t] = "wait2" => SecondHalf(i, Len(queue))
      BY <2>1 DEF FlushOf
    <3> QED
      BY <1>3, <2>5, <3>3, <3>4 DEF FirstHalf, SecondHalf
  <2> QED
    BY <2>1, <2>2, <2>6 DEF FlushOf
<1>7. CASE AwaitSlave(t)
  <2>1. pc[t] = "wait1" /\ t \in done /\ pc'[t] = "load"
    BY <1>1, <1>7 DEF AwaitSlave, Goto
  <2> QED
    BY <2>1 DEF FlushOf
<1>8. CASE LoadSlaveFree(t)
  <2>1. /\ pc[t] = "load"
        /\ pc'[t] = "store" \/ (pc'[t] = "post" /\ ~slave_free)
    BY <1>1, <1>8 DEF LoadSlaveFree, Goto
  <2> QED
    BY <2>1 DEF FlushOf, Ready
<1>9. CASE StoreSlaveFree(t)
  <2>1. pc'[t] = "swap"
    BY <1>1, <1>9 DEF StoreSlaveFree, Goto
  <2> QED
    BY <2>1 DEF FlushOf
<1>10. CASE SwapCache(t)
  <2>1. pc[t] = "swap" /\ pc'[t] = "post"
    BY <1>1, <1>10 DEF SwapCache, Goto
  <2>2. Scheduled(i)
    BY <1>1, <2>1 DEF Scheduled, Claimed
  <2> QED
    BY <2>1, <2>2 DEF FlushOf
<1>11. CASE PrepareToFile(t)
  <2>1. /\ pc[t] = "post" /\ pc'[t] = "drain2"
        /\ queue' = Append(queue, CacheTask)
    BY <1>1, <1>11 DEF PrepareToFile, Goto
  <2>2. Len(queue') \in 1..Len(queue') /\ queue'[Len(queue')] = CacheTask
    BY <1>1, <2>1, QueueAppend, TaskType
  <2> QED
    BY <2>1, <2>2 DEF FlushOf, SecondHalf, Queued
<1>12. CASE AwaitMaster(t)
  <2>1. pc'[t] = "idle"
    BY <1>1, <1>12 DEF AwaitMaster, Goto
  <2> QED
    BY <2>1 DEF FlushOf
<1> QED
  BY <1>4, <1>5, <1>6, <1>7, <1>8, <1>9, <1>10, <1>11, <1>12 DEF Continue

\* The worker takes a task: whoever waits for it has had what came before.
LEMMA FlushByTake ==
    ASSUME SinkInv, CallInv, NEW t \in Threads, NEW i \in accepted,
           FlushOf(t, i), TakeTask
    PROVE  FlushOf(t, i)'
<1>1. /\ TypeOK /\ queue \in Seq(Task) /\ t \in Procs
      /\ rpc = "idle" /\ UNCHANGED <<pc, buf, slave, file, slave_free>>
  BY DEF SinkInv, TypeOK, TakeTask, caches, Procs
<1>2. /\ Len(queue) \in Nat \ {0}
      /\ Len(queue') = Len(queue) - 1
      /\ \A q \in 1..Len(queue') : queue'[q] = queue[q + 1]
      /\ Head(queue) = queue[1]
  BY <1>1, QueueTail DEF TakeTask
<1>3. /\ OnFile(i) <=> OnFile(i)'
      /\ Scheduled(i) <=> Scheduled(i)'
      /\ Ready(i) <=> Ready(i)'
  BY <1>1 DEF OnFile, Scheduled, Ready, HasBody, Claimed
<1>4. ASSUME NEW n \in Nat, n + 1 <= Len(queue)
      PROVE  /\ FirstHalf(i, n + 1) => FirstHalf(i, n)'
             /\ SecondHalf(i, n + 1) => SecondHalf(i, n)'
  <2>1. Queued(n + 1) => rpc' = "check_free" \/ Queued(n)'
    BY <1>1, <1>4, QueuedShifts
  <2> QED
    BY <1>1, <1>3, <2>1 DEF FirstHalf, SecondHalf, Working
<1>5. Len(queue') \in Nat /\ Len(queue') + 1 = Len(queue)
  BY <1>2
<1>6. /\ pc[t] = "drain1" => FirstHalf(i, Len(queue))'
      /\ pc[t] = "drain2" => SecondHalf(i, Len(queue))'
  <2>1. PICK n \in Nat : n = Len(queue') /\ n + 1 = Len(queue)
    BY <1>5
  <2>2. /\ pc[t] = "drain1" => FirstHalf(i, n + 1)
        /\ pc[t] = "drain2" => SecondHalf(i, n + 1)
    BY <2>1 DEF FlushOf
  <2>3. /\ pc[t] = "drain1" => FirstHalf(i, n)'
        /\ pc[t] = "drain2" => SecondHalf(i, n)'
    BY <1>2, <1>4, <2>1, <2>2
  <2> QED
    BY <2>1, <2>3 DEF FirstHalf, SecondHalf, Queued
<1>7. ASSUME NEW q \in 1..Len(queue'), queue'[q] = IdleTask(t)
      PROVE  /\ pc[t] = "wait1" => FirstHalf(i, q - 1)'
             /\ pc[t] = "wait2" => SecondHalf(i, q - 1)'
  <2>1. /\ q + 1 \in 1..Len(queue) /\ queue[q + 1] = IdleTask(t)
        /\ q - 1 \in Nat /\ (q - 1) + 1 = (q + 1) - 1
        /\ (q - 1) + 1 <= Len(queue)
    BY <1>2, <1>7
  <2>2. /\ pc[t] = "wait1" => FirstHalf(i, (q + 1) - 1)
        /\ pc[t] = "wait2" => SecondHalf(i, (q + 1) - 1)
    BY <2>1 DEF FlushOf
  <2> QED
    BY <1>4, <2>1, <2>2
<1>8. ASSUME t \in done', t \notin done
      PROVE  /\ pc[t] = "wait1" => Ready(i)'
             /\ pc[t] = "wait2" => OnFile(i)'
  <2>1. Head(queue).task = "idle" /\ Head(queue).who = t
    BY <1>8 DEF TakeTask
  <2>2. 1 \in 1..Len(queue) /\ queue[1] = IdleTask(t)
    BY <1>1, <1>2, <2>1, TaskKinds
  <2>3. /\ pc[t] = "wait1" => FirstHalf(i, 1 - 1)
        /\ pc[t] = "wait2" => SecondHalf(i, 1 - 1)
    BY <2>2 DEF FlushOf
  <2>4. ~Queued(1 - 1)
    BY DEF Queued
  <2> QED
    BY <1>1, <1>3, <2>3, <2>4 DEF FirstHalf, SecondHalf, Working
<1>9. t \in done => /\ pc[t] = "wait1" => Ready(i)'
                    /\ pc[t] = "wait2" => OnFile(i)'
  BY <1>3 DEF FlushOf
<1> QED
  BY <1>1, <1>3, <1>6, <1>7, <1>8, <1>9 DEF FlushOf

\* The other steps of the worker: CacheToFile_ returns without writing only
\* when the slave is free or empty, and then what was scheduled is on file.
LEMMA FlushByWorker ==
    ASSUME SinkInv, SinkInv', CallInv, NEW t \in Threads, NEW i \in accepted,
           FlushOf(t, i), CacheToFile, ~TakeTask, Undisturbed, Undisturbed',
           pc[Ctor] = "done",
           OnFile(i) => OnFile(i)',
           Scheduled(i) => Scheduled(i)',
           Ready(i) => Ready(i)'
    PROVE  FlushOf(t, i)'
<1>1. UNCHANGED <<pc, queue, done>>
  BY DEF CacheToFile, CheckFree, CheckEmpty, ReadSize, UpdateFilePath,
         WriteHeader, WriteData, ClearSlave, StoreFree
<1>2. rpc # "idle" => rpc' # "idle" \/ slave_free'
  BY DEF CacheToFile, CheckFree, CheckEmpty, ReadSize, UpdateFilePath,
         WriteHeader, WriteData, ClearSlave, StoreFree, RunnerGoto
<1>3. rpc \in Working /\ Scheduled(i) => rpc' \in Working \/ OnFile(i)'
  <2> SUFFICES ASSUME rpc \in Working, Scheduled(i), rpc' \notin Working
               PROVE  OnFile(i)'
    OBVIOUS
  <2>1. ASSUME Empty(buf[slave]), ~Claimed
        PROVE  OnFile(i)'
    <3>1. ~HasBody(buf[slave].data, i)
      BY <2>1 DEF HasBody, Empty, Size
    <3> QED
      BY <2>1, <3>1 DEF Scheduled
  <2>2. CASE CheckFree
    <3>1. slave_free
      BY <2>2 DEF CheckFree, RunnerGoto, Working
    <3> QED
      BY <2>1, <3>1
         DEF SinkInv, FreeIsEmpty, WindowHoldsSlave, Undisturbed, Claimed
  <2>3. CASE CheckEmpty
    <3>1. Empty(buf[slave]) /\ rpc \in Active
      BY <2>3 DEF CheckEmpty, RunnerGoto, Working, Active
    <3> QED
      BY <2>1, <3>1 DEF SinkInv, WindowHoldsSlave, Undisturbed, Claimed
  <2>4. CASE WriteHeader
    BY <2>4 DEF WriteHeader, RunnerGoto, Undisturbed, Working
  <2>5. CASE WriteData
    <3>1. rpc' = "clear" /\ buf' = buf /\ slave' = slave
      BY <2>5, WriteDataData
    <3>2. ~Claimed
      BY <1>1, <3>1
         DEF SinkInv, WindowHoldsSlave, Undisturbed, Claimed, Active
    <3>3. HasBody(buf[slave].data, i) => OnFile(i)'
      BY <3>1 DEF SinkInv, WrittenBeforeClear, HasBody
    <3> QED
      BY <3>2, <3>3 DEF Scheduled
  <2>6. CASE ReadSize \/ UpdateFilePath \/ ClearSlave \/ StoreFree
    BY <2>6 DEF ReadSize, UpdateFilePath, ClearSlave, StoreFree, RunnerGoto,
                Working
  <2> QED
    BY <2>2, <2>3, <2>4, <2>5, <2>6 DEF CacheToFile
<1>4. ASSUME NEW n \in Int
      PROVE  /\ FirstHalf(i, n) => FirstHalf(i, n)'
             /\ SecondHalf(i, n) => SecondHalf(i, n)'
  BY <1>1, <1>2, <1>3 DEF FirstHalf, SecondHalf, Queued, Ready
<1>5. /\ pc[t] = "drain1" => FirstHalf(i, Len(queue))'
      /\ pc[t] = "drain2" => SecondHalf(i, Len(queue))'
  <2>1. /\ pc[t] = "drain1" => FirstHalf(i, Len(queue))
        /\ pc[t] = "drain2" => SecondHalf(i, Len(queue))
    BY DEF FlushOf
  <2> QED
    BY <1>1, <1>2, <1>3, <2>1 DEF FirstHalf, SecondHalf, Queued, Ready
<1>6. ASSUME NEW q \in 1..Len(queue), queue[q] = IdleTask(t)
      PROVE  /\ pc[t] = "wait1" => FirstHalf(i, q - 1)'
             /\ pc[t] = "wait2" => SecondHalf(i, q - 1)'
  <2>1. /\ pc[t] = "wait1" => FirstHalf(i, q - 1)
        /\ pc[t] = "wait2" => SecondHalf(i, q - 1)
    BY <1>6 DEF FlushOf
  <2> QED
    BY <1>4, <2>1
<1> QED
  BY <1>1, <1>5, <1>6 DEF FlushOf

\* Every step keeps what a Flush in progress relies on.
LEMMA FlushOfStep ==
    ASSUME SinkInv, SinkInv', CallInv, FlushInv, [Next]_vars, Undisturbed',
           NEW t \in Threads, op'[t] = "flush", NEW i \in base'[t]
    PROVE  FlushOf(t, i)'
<1>1. TypeOK /\ Undisturbed /\ t \in Procs
  <2>1. TypeOK
    BY DEF SinkInv
  <2> QED
    BY <2>1, OneWay DEF Undisturbed, Procs
<1>2. CASE pc'[t] = "idle" \/ FlushCall(t)
  BY <1>1, <1>2 DEF FlushOf, FlushCall, Goto, TypeOK
<1>3. CASE Crash
  BY <1>3 DEF Crash, Procs
<1>4. CASE LogCall(t)
  BY <1>1, <1>4 DEF LogCall, TypeOK
<1>5. ASSUME pc'[t] # "idle", ~FlushCall(t), ~Crash, ~LogCall(t)
      PROVE  FlushOf(t, i)'
  <2>1. op[t] = "flush" /\ base'[t] = base[t]
    <3>1. CASE Recover
      BY <3>1 DEF Recover, Construct, RecoverSlave, RecoverMaster, history
    <3>2. ASSUME NEW u \in Threads, LogCall(u) \/ FlushCall(u)
          PROVE  op[t] = "flush" /\ base'[t] = base[t]
      <4>1. u # t
        BY <1>5, <3>2
      <4> QED
        BY <1>1, <3>2, <4>1 DEF LogCall, FlushCall, TypeOK, Procs, history
    <3>3. ASSUME NEW u \in Procs, Continue(u)
          PROVE  op[t] = "flush" /\ base'[t] = base[t]
      BY <3>3
         DEF Continue, Encode, PushHeader, PushBody, NeedCacheToFile,
             LoadSlaveFree, StoreSlaveFree, SwapCache, PrepareToFile,
             PrepareSlave, PostIdle, AwaitSlave, AwaitMaster, history
    <3>4. CASE CacheToFile
      BY <3>4, WorkerMovesNone
    <3>5. CASE UNCHANGED vars
      BY <3>5 DEF vars, history
    <3> QED
      BY <1>5, <3>1, <3>2, <3>3, <3>4, <3>5 DEF Next
  <2>2. i \in base[t] /\ i \in accepted /\ FlushOf(t, i)
    BY <1>1, <2>1 DEF FlushInv, CallInv, NumbersOK
  <2>3. pc[t] # "idle" /\ pc[Ctor] = "done"
    <3>1. pc[t] # "idle"
      <4>1. CASE Recover
        BY <1>1, <1>5, <4>1, SinkAssumption
           DEF Recover, Construct, RecoverSlave, RecoverMaster, Goto, TypeOK,
               Procs
      <4>2. ASSUME NEW u \in Procs,
                   Continue(u) \/ LogCall(u) \/ FlushCall(u), u # t
            PROVE  pc[t] # "idle"
        BY <1>1, <1>5, <4>2, OneMoves
      <4>3. CASE Continue(t)
        BY <1>1, <4>3
           DEF Continue, Encode, PushHeader, PushBody, NeedCacheToFile,
               LoadSlaveFree, StoreSlaveFree, SwapCache, PrepareToFile,
               PrepareSlave, PostIdle, AwaitSlave, AwaitMaster, Goto
      <4>4. CASE CacheToFile \/ UNCHANGED vars
        BY <1>5, <4>4, WorkerMovesNone DEF vars
      <4> QED
        BY <1>5, <4>1, <4>2, <4>3, <4>4 DEF Next, Procs
    <3> QED
      BY <3>1 DEF SinkInv, CtorFirst
  <2>4. i \in Nat
    BY <1>1, <2>2 DEF TypeOK
  <2>5. /\ OnFile(i) => OnFile(i)'
        /\ Scheduled(i) => Scheduled(i)'
        /\ Ready(i) => Ready(i)'
    BY <1>5, <2>2, <2>3, <2>4, FileGrows, ScheduledStays
  <2>6. CASE Recover
    BY <2>3, <2>6 DEF Recover, Construct, RecoverSlave, RecoverMaster, Goto
  <2>7. ASSUME NEW u \in Procs,
               Continue(u) \/ LogCall(u) \/ FlushCall(u), u # t
        PROVE  FlushOf(t, i)'
    <3>1. pc'[t] = pc[t] /\ rpc' = rpc
      BY <1>1, <2>7, OneMoves
    <3>2. /\ t \in done' => t \in done
          /\ \/ queue' = queue
             \/ queue' = Append(queue, CacheTask)
             \/ queue' = Append(queue, IdleTask(u))
      BY <2>7
         DEF Continue, LogCall, FlushCall, Encode, PushHeader, PushBody,
             NeedCacheToFile, LoadSlaveFree, StoreSlaveFree, SwapCache,
             PrepareToFile, PrepareSlave, PostIdle, AwaitSlave, AwaitMaster
    <3>3. /\ CacheTask \in Task \ {IdleTask(t)}
          /\ IdleTask(u) \in Task \ {IdleTask(t)}
      BY <1>1, <2>7, TaskType, TasksApart
    <3> QED
      BY <2>2, <2>5, <3>1, <3>2, <3>3, FlushByOthers
  <2>8. CASE Continue(t)
    BY <2>1, <2>2, <2>5, <2>8, FlushByItself
  <2>9. CASE TakeTask
    BY <2>2, <2>9, FlushByTake
  <2>10. CASE CacheToFile /\ ~TakeTask
    BY <1>1, <2>2, <2>3, <2>5, <2>10, FlushByWorker
  <2>11. CASE UNCHANGED vars
    <3>1. pc'[t] = pc[t] /\ rpc' = rpc /\ done' = done /\ queue' = queue
      BY <2>11 DEF vars, runner
    <3> QED
      BY <2>2, <2>5, <3>1, FlushByOthers
  <2> QED
    BY <1>5, <2>6, <2>7, <2>8, <2>9, <2>10, <2>11 DEF Next, Procs
<1> QED
  BY <1>2, <1>3, <1>4, <1>5

\* A Flush that returns has its items on file.
LEMMA PromiseStep ==
    ASSUME SinkInv, SinkInv', CallInv, FlushInv, [Next]_vars
    PROVE  FlushDurable'
<1> SUFFICES ASSUME Undisturbed', NEW i \in promised'
             PROVE  OnFile(i)'
  BY DEF FlushDurable
<1>1. TypeOK /\ TypeOK'
  BY DEF SinkInv
<1>2. Undisturbed /\ i \in Nat
  BY <1>1, OneWay DEF Undisturbed, TypeOK
<1>3. ASSUME OnFile(i)
      PROVE  OnFile(i)'
  BY <1>2, <1>3, FileGrows
<1>4. CASE i \in promised
  BY <1>2, <1>3, <1>4 DEF FlushInv, FlushDurable
<1>5. CASE promised' = promised
  BY <1>4, <1>5
<1>6. ASSUME NEW t \in Procs, AwaitMaster(t)
      PROVE  OnFile(i)'
  <2>1. /\ t \in done /\ pc[t] = "wait2" /\ promised' = promised \cup base[t]
    BY <1>6 DEF AwaitMaster, Goto
  <2>2. t \in Threads /\ op[t] = "flush"
    BY <2>1 DEF CallInv, PlacesOK, CtorPCs, LogPCs, Procs
  <2>3. i \in base[t] => FlushOf(t, i)
    BY <1>2, <2>2 DEF FlushInv
  <2> QED
    BY <1>3, <1>4, <2>1, <2>3 DEF FlushOf
<1>7. CASE Recover \/ CacheToFile \/ Crash \/ UNCHANGED vars
  BY <1>5, <1>7, WorkerMovesNone
     DEF Recover, Construct, RecoverSlave, RecoverMaster, Crash, vars, history
<1>8. ASSUME NEW t \in Procs,
             \/ LogCall(t) \/ FlushCall(t)
             \/ Continue(t) /\ ~AwaitMaster(t)
      PROVE  promised' = promised
  BY <1>8
     DEF Continue, LogCall, FlushCall, Encode, PushHeader, PushBody,
         NeedCacheToFile, LoadSlaveFree, StoreSlaveFree, SwapCache,
         PrepareToFile, PrepareSlave, PostIdle, AwaitSlave, history
<1> QED
  BY <1>5, <1>6, <1>7, <1>8 DEF Next, Procs

\* The discipline of Flush holds in every reachable state.
LEMMA FlushInvariant ==
    Spec => [](SinkInv /\ CallInv /\ FlushInv)
<1>1. Init => SinkInv /\ CallInv /\ FlushInv
  <2> SUFFICES ASSUME Init
               PROVE  SinkInv /\ CallInv /\ FlushInv
    OBVIOUS
  <2>1. FlushInv
    BY DEF Init, FlushInv, FlushDurable, Procs
  <2> QED
    BY <2>1, SinkInit, CallInit
<1>2. SinkInv /\ CallInv /\ FlushInv /\ [Next]_vars
        => (SinkInv /\ CallInv /\ FlushInv)'
  <2> SUFFICES ASSUME SinkInv, CallInv, FlushInv, [Next]_vars
               PROVE  (SinkInv /\ CallInv /\ FlushInv)'
    OBVIOUS
  <2>1. SinkInv' /\ TypeOK'
    BY SinkStep DEF SinkInv
  <2>2. CallInv'
    BY <2>1, CallStep
  <2>3. FlushDurable'
    BY <2>1, PromiseStep
  <2>4. ASSUME Undisturbed', NEW t \in Threads, op'[t] = "flush",
               NEW i \in base'[t]
        PROVE  FlushOf(t, i)'
    BY <2>1, <2>4, FlushOfStep
  <2> QED
    BY <2>1, <2>2, <2>3, <2>4 DEF FlushInv
<1> QED
  BY <1>1, <1>2, PTL DEF Spec

\* When Flush returns, everything Log had accepted before the call is in the
\* log file: for any number of threads that log, flush and swap meanwhile
\* and any number of crashes, unless the unguarded window was overlapped or
\* a write failed.
THEOREM FlushIsDurable == Spec => []FlushDurable
<1>1. FlushInv => FlushDurable
  BY DEF FlushInv
<1> QED
  BY FlushInvariant, <1>1, PTL

-----------------------------------------------------------------------------
(* The recovery hands the slave back. *)

\* A CacheToFile_ that has begun ends with the slave free.
LEMMA WorkerFrees ==
    ASSUME CacheToFile, ~TakeTask
    PROVE  /\ UNCHANGED <<pc, queue, done>>
           /\ slave_free => slave_free'
           /\ rpc # "idle" => rpc' # "idle" \/ slave_free'
BY DEF CacheToFile, CheckFree, CheckEmpty, ReadSize, UpdateFilePath,
       WriteHeader, WriteData, ClearSlave, StoreFree, RunnerGoto

\* Every step keeps what the constructor relies on while it waits.
LEMMA RecoveryStep ==
    ASSUME SinkInv, CallInv, RecoveryInv, [Next]_vars
    PROVE  RecoveryInv'
<1>1. /\ TypeOK /\ queue \in Seq(Task) /\ Len(queue) \in Nat
      /\ Ctor \in Procs /\ pc \in [Procs -> PCs]
      /\ pc[Ctor] \in CtorPCs
  BY DEF SinkInv, TypeOK, Procs, CallInv, PlacesOK
<1>2. CASE pc'[Ctor] \notin {"drain1", "wait1", "recover_master", "load",
                             "store"}
  BY <1>2 DEF RecoveryInv
<1>3. CASE Recover
  <2>1. \/ pc'[Ctor] = "recover_slave"
        \/ pc'[Ctor] = "post1"
        \/ pc'[Ctor] = "done"
        \/ /\ pc'[Ctor] \in {"recover_master", "load"}
           /\ pc[Ctor] \in {"recover_slave", "recover_master"}
           /\ slave_free' = slave_free
    BY <1>1, <1>3 DEF Recover, Construct, RecoverSlave, RecoverMaster, Goto
  <2>2. pc[Ctor] \in {"recover_slave", "recover_master"} => slave_free
    BY DEF SinkInv, RecoveryStart, RecoveryInv
  <2> QED
    BY <1>2, <2>1, <2>2 DEF RecoveryInv
<1>4. ASSUME NEW t \in Threads, Continue(t) \/ LogCall(t) \/ FlushCall(t)
      PROVE  RecoveryInv'
  <2>1. pc[Ctor] = "done"
    <3>1. CASE Continue(t)
      <4>1. pc[t] # "idle"
        BY <3>1
           DEF Continue, Encode, PushHeader, PushBody, NeedCacheToFile,
               LoadSlaveFree, StoreSlaveFree, SwapCache, PrepareToFile,
               PrepareSlave, PostIdle, AwaitSlave, AwaitMaster, Goto
      <4> QED
        BY <4>1 DEF SinkInv, CtorFirst
    <3> QED
      BY <1>4, <3>1 DEF LogCall, FlushCall
  <2>2. pc'[Ctor] = pc[Ctor]
    BY <1>1, <1>4, OneMoves, SinkAssumption DEF Procs
  <2> QED
    BY <1>2, <2>1, <2>2
<1>5. CASE Continue(Ctor)
  <2>1. CASE PrepareSlave(Ctor)
    <3>1. pc'[Ctor] = "drain1" /\ queue' = Append(queue, CacheTask)
      BY <1>1, <2>1 DEF PrepareSlave, Goto
    <3>2. Len(queue') \in 1..Len(queue') /\ queue'[Len(queue')] = CacheTask
      BY <1>1, <3>1, QueueAppend, TaskType
    <3> QED
      BY <3>1, <3>2 DEF RecoveryInv, CtorFree, Queued
  <2>2. CASE PostIdle(Ctor)
    <3>1. /\ pc[Ctor] = "drain1" /\ pc'[Ctor] = "wait1"
          /\ queue' = Append(queue, IdleTask(Ctor))
          /\ UNCHANGED <<done, slave_free, rpc>>
      BY <1>1, <2>2 DEF PostIdle, Goto, CtorPCs, runner
    <3>2. Ctor \notin done' /\ \A q \in 1..Len(queue) : queue[q] # IdleTask(Ctor)
      BY <1>1, <3>1 DEF CallInv, FuturesOK
    <3>3. /\ Len(queue') = Len(queue) + 1
          /\ \A q \in 1..Len(queue) : queue'[q] = queue[q]
      BY <1>1, <3>1, QueueAppend, TaskType
    <3>4. ASSUME NEW q \in 1..Len(queue'), queue'[q] = IdleTask(Ctor)
          PROVE  CtorFree(q - 1)'
      <4>1. q = Len(queue) + 1
        BY <1>1, <3>2, <3>3, <3>4
      <4>2. q - 1 = Len(queue)
        BY <1>1, <4>1
      <4>3. CtorFree(Len(queue))
        BY <3>1 DEF RecoveryInv
      <4> QED
        BY <3>1, <3>3, <4>2, <4>3 DEF CtorFree, Queued
    <3> QED
      BY <3>1, <3>2, <3>4 DEF RecoveryInv
  <2>3. CASE AwaitSlave(Ctor)
    <3>1. /\ pc[Ctor] = "wait1" /\ Ctor \in done
          /\ pc'[Ctor] = "recover_master" /\ slave_free' = slave_free
      BY <1>1, <2>3 DEF AwaitSlave, Goto
    <3> QED
      BY <3>1 DEF RecoveryInv
  <2>4. CASE LoadSlaveFree(Ctor)
    <3>1. /\ pc'[Ctor] = "post" \/ (pc'[Ctor] = "store" /\ slave_free)
          /\ slave_free' = slave_free
      BY <1>1, <2>4 DEF LoadSlaveFree, Goto
    <3> QED
      BY <3>1 DEF RecoveryInv
  <2>5. CASE StoreSlaveFree(Ctor) \/ SwapCache(Ctor) \/ PrepareToFile(Ctor)
    <3>1. pc'[Ctor] \in {"swap", "post", "idle", "drain2", "done"}
      BY <1>1, <2>5
         DEF StoreSlaveFree, SwapCache, PrepareToFile, Goto, TypeOK
    <3> QED
      BY <1>2, <3>1
  <2>6. CASE \/ Encode(Ctor) \/ PushHeader(Ctor) \/ PushBody(Ctor)
             \/ NeedCacheToFile(Ctor) \/ AwaitMaster(Ctor)
    BY <1>1, <2>6
       DEF Encode, PushHeader, PushBody, NeedCacheToFile, AwaitMaster, Goto,
           CtorPCs
  <2> QED
    BY <1>5, <2>1, <2>2, <2>3, <2>4, <2>5, <2>6 DEF Continue
<1>6. CASE TakeTask
  <2>1. rpc = "idle" /\ UNCHANGED <<pc, slave_free>>
    BY <1>6 DEF TakeTask
  <2>2. /\ Len(queue) \in Nat \ {0}
        /\ Len(queue') = Len(queue) - 1
        /\ \A q \in 1..Len(queue') : queue'[q] = queue[q + 1]
        /\ Head(queue) = queue[1]
    BY <1>1, <1>6, QueueTail DEF TakeTask
  <2>3. ASSUME NEW n \in Nat, n + 1 <= Len(queue), CtorFree(n + 1)
        PROVE  CtorFree(n)'
    <3>1. Queued(n + 1) => rpc' = "check_free" \/ Queued(n)'
      BY <1>1, <1>6, <2>3, QueuedShifts
    <3> QED
      BY <2>1, <2>3, <3>1 DEF CtorFree
  <2>4. pc[Ctor] = "drain1" => CtorFree(Len(queue))'
    <3>1. PICK n \in Nat : n = Len(queue') /\ n + 1 = Len(queue)
      BY <2>2
    <3>2. pc[Ctor] = "drain1" => CtorFree(n + 1)
      BY <3>1 DEF RecoveryInv
    <3>3. pc[Ctor] = "drain1" => CtorFree(n)'
      BY <2>2, <2>3, <3>1, <3>2
    <3> QED
      BY <3>1, <3>3 DEF CtorFree, Queued
  <2>5. ASSUME NEW q \in 1..Len(queue'), queue'[q] = IdleTask(Ctor),
               pc[Ctor] = "wait1"
        PROVE  CtorFree(q - 1)'
    <3>1. /\ q + 1 \in 1..Len(queue) /\ queue[q + 1] = IdleTask(Ctor)
          /\ q - 1 \in Nat /\ (q - 1) + 1 = (q + 1) - 1
          /\ (q - 1) + 1 <= Len(queue)
      BY <2>2, <2>5
    <3>2. CtorFree((q + 1) - 1)
      BY <2>5, <3>1 DEF RecoveryInv
    <3> QED
      BY <2>3, <3>1, <3>2
  <2>6. ASSUME Ctor \in done', Ctor \notin done, pc[Ctor] = "wait1"
        PROVE  slave_free
    <3>1. Head(queue).task = "idle" /\ Head(queue).who = Ctor
      BY <1>6, <2>6 DEF TakeTask
    <3>2. 1 \in 1..Len(queue) /\ queue[1] = IdleTask(Ctor)
      BY <1>1, <2>2, <3>1, TaskKinds
    <3>3. CtorFree(1 - 1)
      BY <2>6, <3>2 DEF RecoveryInv
    <3> QED
      BY <2>1, <3>3 DEF CtorFree, Queued
  <2> QED
    BY <2>1, <2>4, <2>5, <2>6 DEF RecoveryInv
<1>7. CASE CacheToFile /\ ~TakeTask
  <2>1. /\ UNCHANGED <<pc, queue, done>>
        /\ slave_free => slave_free'
        /\ rpc # "idle" => rpc' # "idle" \/ slave_free'
    BY <1>7, WorkerFrees
  <2> QED
    BY <2>1 DEF RecoveryInv, CtorFree, Queued
<1>8. CASE Crash
  <2>1. pc'[Ctor] = "open"
    BY <1>1, <1>8 DEF Crash
  <2> QED
    BY <1>2, <2>1
<1>9. CASE UNCHANGED vars
  BY <1>9 DEF vars, runner, RecoveryInv, CtorFree, Queued
<1> QED
  BY <1>3, <1>4, <1>5, <1>6, <1>7, <1>8, <1>9 DEF Next, Procs

-----------------------------------------------------------------------------
(* Items are not torn apart. *)

\* A prefix of framed data is framed.
LEMMA FramedPrefix ==
    ASSUME NEW d \in Seq(Token), Framed(d), NEW e \in Seq(Token),
           Len(e) <= Len(d), \A j \in 1..Len(e) : e[j] = d[j]
    PROVE  Framed(e)
<1> SUFFICES ASSUME NEW j \in 1..Len(e)
             PROVE  /\ e[j].part = "header" /\ j < Len(e) =>
                          e[j + 1] = [e[j] EXCEPT !.part = "body"]
                    /\ e[j].part = "body" =>
                          j > 1 /\ e[j - 1] = [e[j] EXCEPT !.part = "header"]
                    /\ e[j].part # "stale"
  BY DEF Framed
<1>1. Len(d) \in Nat /\ Len(e) \in Nat /\ j \in 1..Len(d) /\ e[j] = d[j]
  OBVIOUS
<1>2. /\ d[j].part = "header" /\ j < Len(d) =>
            d[j + 1] = [d[j] EXCEPT !.part = "body"]
      /\ d[j].part = "body" =>
            j > 1 /\ d[j - 1] = [d[j] EXCEPT !.part = "header"]
      /\ d[j].part # "stale"
  BY <1>1 DEF Framed
<1>3. ASSUME e[j].part = "header", j < Len(e)
      PROVE  e[j + 1] = [e[j] EXCEPT !.part = "body"]
  <2>1. j < Len(d) /\ j + 1 \in 1..Len(e)
    BY <1>1, <1>3
  <2> QED
    BY <1>1, <1>2, <1>3, <2>1
<1>4. ASSUME e[j].part = "body"
      PROVE  j > 1 /\ e[j - 1] = [e[j] EXCEPT !.part = "header"]
  <2>1. j > 1
    BY <1>1, <1>2, <1>4
  <2>2. j - 1 \in 1..Len(e)
    BY <1>1, <2>1
  <2> QED
    BY <1>1, <1>2, <1>4, <2>1, <2>2
<1> QED
  BY <1>1, <1>2, <1>3, <1>4

\* Framed data stay framed when a header follows a complete item, or a body
\* its header.
LEMMA FramedAppend ==
    ASSUME NEW d \in Seq(Token), Framed(d), NEW x \in Token,
           \/ x.part = "header" /\ Complete(d)
           \/ /\ x.part = "body"
              /\ d # <<>>
              /\ d[Len(d)].part = "header"
              /\ x = [d[Len(d)] EXCEPT !.part = "body"]
              /\ d[Len(d)] = [x EXCEPT !.part = "header"]
    PROVE  Framed(Append(d, x))
<1> DEFINE e == Append(d, x)
<1>1. /\ Len(d) \in Nat /\ Len(e) = Len(d) + 1 /\ e[Len(d) + 1] = x
      /\ \A j \in 1..Len(d) : e[j] = d[j]
      /\ d # <<>> => Len(d) > 0
  OBVIOUS
<1> HIDE DEF e
<1> SUFFICES ASSUME NEW j \in 1..Len(e)
             PROVE  /\ e[j].part = "header" /\ j < Len(e) =>
                          e[j + 1] = [e[j] EXCEPT !.part = "body"]
                    /\ e[j].part = "body" =>
                          j > 1 /\ e[j - 1] = [e[j] EXCEPT !.part = "header"]
                    /\ e[j].part # "stale"
  BY DEF Framed, e
<1>2. CASE j = Len(d) + 1
  <2>1. e[j] = x /\ ~(j < Len(e))
    BY <1>1, <1>2
  <2>2. x.part = "body" => j > 1 /\ e[j - 1] = [x EXCEPT !.part = "header"]
    <3> SUFFICES ASSUME x.part = "body"
                 PROVE  j > 1 /\ e[j - 1] = [x EXCEPT !.part = "header"]
      OBVIOUS
    <3>1. Len(d) > 0 /\ j - 1 = Len(d) /\ Len(d) \in 1..Len(d) /\ j > 1
      BY <1>1, <1>2
    <3>2. e[j - 1] = d[Len(d)]
      BY <1>1, <3>1
    <3> QED
      BY <3>1, <3>2
  <2>3. x.part # "stale"
    OBVIOUS
  <2> QED
    BY <2>1, <2>2, <2>3
<1>3. CASE j # Len(d) + 1
  <2>1. j \in 1..Len(d) /\ e[j] = d[j]
    BY <1>1, <1>3
  <2>2. /\ d[j].part = "header" /\ j < Len(d) =>
              d[j + 1] = [d[j] EXCEPT !.part = "body"]
        /\ d[j].part = "body" =>
              j > 1 /\ d[j - 1] = [d[j] EXCEPT !.part = "header"]
        /\ d[j].part # "stale"
    BY <2>1 DEF Framed
  <2>3. ASSUME d[j].part = "header"
        PROVE  e[j + 1] = [d[j] EXCEPT !.part = "body"]
    <3>1. CASE j < Len(d)
      <4>1. j + 1 \in 1..Len(d)
        BY <1>1, <2>1, <3>1
      <4> QED
        BY <1>1, <2>2, <2>3, <3>1, <4>1
    <3>2. CASE ~(j < Len(d))
      <4>1. j = Len(d) /\ d # <<>>
        BY <1>1, <2>1, <3>2
      <4>2. x = [d[Len(d)] EXCEPT !.part = "body"]
        BY <2>3, <4>1 DEF Complete
      <4> QED
        BY <1>1, <4>1, <4>2
    <3> QED
      BY <3>1, <3>2
  <2>4. ASSUME d[j].part = "body"
        PROVE  j > 1 /\ e[j - 1] = [d[j] EXCEPT !.part = "header"]
    <3>1. j > 1
      BY <2>2, <2>4
    <3>2. j - 1 \in 1..Len(d)
      BY <1>1, <2>1, <3>1
    <3> QED
      BY <1>1, <2>2, <2>4, <3>1, <3>2
  <2> QED
    BY <2>1, <2>2, <2>3, <2>4
<1> QED
  BY <1>2, <1>3

\* How the steps that touch no data move the threads: mtx_ is taken when it
\* is free, and the constructor ends with an empty master.
LEMMA StillPlaces ==
    ASSUME SinkInv, CallInv, RecoveryInv, Still
    PROVE  /\ mtx' = NoThread => mtx = NoThread
           /\ \A t \in Threads :
                 /\ pc'[t] = "push_body" =>
                       pc[t] = "push_body" /\ nextId' = nextId
                 /\ pc'[t] = "push_header" =>
                       \/ pc[t] = "push_header"
                       \/ mtx = NoThread /\ pc[t] = "encode"
           /\ pc'[Ctor] \in {"post", "done"} =>
                 pc[Ctor] \in {"post", "done"} \/ Empty(buf[master])
<1>1. TypeOK /\ PlacesOK /\ LockOK /\ pc[Ctor] \in CtorPCs
  BY DEF SinkInv, CallInv, PlacesOK
<1> USE SinkAssumption DEF Goto, Procs
<1>2. ASSUME UNCHANGED <<mtx, pc, nextId>>
      PROVE  /\ mtx' = NoThread => mtx = NoThread
             /\ \A t \in Threads :
                   /\ pc'[t] = "push_body" =>
                         pc[t] = "push_body" /\ nextId' = nextId
                   /\ pc'[t] = "push_header" => pc[t] = "push_header"
             /\ pc'[Ctor] \in {"post", "done"} =>
                   pc[Ctor] \in {"post", "done"}
  BY <1>2
<1>3. CASE \/ TakeTask \/ CheckFree \/ CheckEmpty \/ ReadSize
           \/ UpdateFilePath \/ StoreFree \/ UNCHANGED vars
  <2>1. UNCHANGED <<mtx, pc, nextId>>
    BY <1>3 DEF TakeTask, CheckFree, CheckEmpty, ReadSize, UpdateFilePath,
                StoreFree, vars
  <2> QED
    BY <1>2, <2>1
<1>4. CASE RecoverSlave \/ RecoverMaster
  BY <1>1, <1>4 DEF RecoverSlave, RecoverMaster, TypeOK
<1>5. CASE \E t \in Threads : LogCall(t) \/ FlushCall(t)
  BY <1>1, <1>5 DEF LogCall, FlushCall, TypeOK
<1>6. ASSUME NEW t \in Procs, Encode(t)
      PROVE  /\ mtx = NoThread
             /\ t \in Threads
             /\ \A u \in Threads :
                   /\ pc'[u] # "push_body"
                   /\ pc'[u] = "push_header" => pc[u] = "encode"
             /\ pc'[Ctor] = pc[Ctor]
  <2>1. t \in Threads /\ mtx = NoThread
    BY <1>1, <1>6 DEF Encode, CtorPCs
  <2>2. \A u \in Threads : pc[u] \notin {"push_header", "push_body"}
    BY <1>1, <2>1 DEF LockOK
  <2> QED
    BY <1>1, <1>6, <2>1, <2>2 DEF Encode, TypeOK
<1>7. ASSUME NEW t \in Procs, LoadSlaveFree(t)
      PROVE  /\ mtx' = NoThread => mtx = NoThread
             /\ nextId' = nextId
             /\ \A u \in Threads :
                   /\ pc'[u] = "push_body" => pc[u] = "push_body"
                   /\ pc'[u] = "push_header" => pc[u] = "push_header"
             /\ pc'[Ctor] \in {"post", "done"} =>
                   pc[Ctor] \in {"post", "done"}
  <2>1. pc[Ctor] = "load" => slave_free
    BY DEF RecoveryInv
  <2> QED
    BY <1>1, <1>7, <2>1 DEF LoadSlaveFree, TypeOK
<1>8. ASSUME NEW t \in Procs,
             \/ NeedCacheToFile(t) \/ StoreSlaveFree(t) \/ PrepareSlave(t)
             \/ PostIdle(t) \/ AwaitSlave(t) \/ AwaitMaster(t)
      PROVE  /\ mtx' = NoThread => mtx = NoThread
             /\ nextId' = nextId
             /\ \A u \in Threads :
                   /\ pc'[u] = "push_body" => pc[u] = "push_body"
                   /\ pc'[u] = "push_header" => pc[u] = "push_header"
             /\ pc'[Ctor] \in {"post", "done"} =>
                   pc[Ctor] \in {"post", "done"}
  BY <1>1, <1>8 DEF NeedCacheToFile, StoreSlaveFree, PrepareSlave, PostIdle,
                    AwaitSlave, AwaitMaster, TypeOK
<1>9. ASSUME NEW t \in Procs, PrepareToFile(t)
      PROVE  /\ mtx' = NoThread => mtx = NoThread
             /\ nextId' = nextId
             /\ \A u \in Threads :
                   /\ pc'[u] = "push_body" => pc[u] = "push_body"
                   /\ pc'[u] = "push_header" => pc[u] = "push_header"
             /\ pc'[Ctor] \in {"post", "done"} =>
                   pc[Ctor] \in {"post", "done"}
  BY <1>1, <1>9 DEF PrepareToFile, TypeOK
<1> QED
  BY <1>2, <1>3, <1>4, <1>5, <1>6, <1>7, <1>8, <1>9 DEF Still

\* What WriteData adds to the log file is a prefix of the slave.
LEMMA SliceWritten ==
    ASSUME SinkInv, SinkInv', ~raced, WriteData
    PROVE  /\ file'[Len(file)].data \in Seq(Token)
           /\ Len(file'[Len(file)].data) <= Len(buf[slave].data)
           /\ \A j \in 1..Len(file'[Len(file)].data) :
                 file'[Len(file)].data[j] = buf[slave].data[j]
<1>1. TypeOK /\ TypeOK'
  BY DEF SinkInv
<1>2. Len(file) \in Nat \ {0} /\ Len(file') = Len(file)
  BY WriteDataData
<1>3. PICK n \in 0..chunk_size :
        /\ Len(file'[Len(file)].data) = n
        /\ \A j \in 1..n :
              file'[Len(file)].data[j] =
                  IF j <= Size(buf[slave]) THEN buf[slave].data[j]
                                           ELSE Stale
        /\ n <= Size(buf[slave])
  BY WriteDataData
<1> DEFINE d == buf[slave].data
           e == file'[Len(file)].data
<1>4. d \in Seq(Token) /\ Size(buf[slave]) = Len(d)
  BY <1>1, DataTypes DEF TypeOK
<1>5. e \in Seq(Token)
  <2>1. Len(file) \in 1..Len(file')
    BY <1>2
  <2>2. \A m \in 1..Len(file') : file'[m] \in Chunk
    BY <1>1 DEF TypeOK
  <2> QED
    BY <2>1, <2>2 DEF Chunk
<1>6. Len(e) = n /\ n <= Len(d) /\ n \in Nat /\ Len(d) \in Nat
  BY <1>1, <1>3, <1>4 DEF TypeOK
<1> QED
  BY <1>3, <1>4, <1>5, <1>6

\* Every step keeps the framing.
LEMMA FramingStep ==
    ASSUME SinkInv, SinkInv', CallInv, CallInv', RecoveryInv, FramingInv,
           [Next]_vars
    PROVE  FramingInv'
<1> SUFFICES ASSUME ~raced'
             PROVE  FramingInv'
  BY DEF FramingInv
<1>1. TypeOK /\ TypeOK' /\ ~raced /\ master # slave
        /\ master \in Caches /\ slave \in Caches
  <2>1. TypeOK /\ TypeOK'
    BY DEF SinkInv
  <2> QED
    BY <2>1, OneWay DEF SinkInv, TypeOK
<1>2. /\ \A c \in Caches : Framed(buf[c].data)
      /\ \A n \in 1..Len(file) : Framed(file[n].data)
  BY <1>1 DEF FramingInv, ItemFraming
<1>3. \A c \in Caches : buf[c].data \in Seq(Token)
  BY <1>1, DataTypes
<1>4. \A t \in Threads : pc[t] # "idle" => pc[Ctor] = "done"
  BY DEF SinkInv, CtorFirst
<1>5. CASE Still
  <2>1. UNCHANGED <<master, slave, buf, file, key>>
    BY <1>5, StillData
  <2>2. /\ mtx' = NoThread => mtx = NoThread
        /\ \A t \in Threads :
              /\ pc'[t] = "push_body" =>
                    pc[t] = "push_body" /\ nextId' = nextId
              /\ pc'[t] = "push_header" =>
                    \/ pc[t] = "push_header"
                    \/ mtx = NoThread /\ pc[t] = "encode"
        /\ pc'[Ctor] \in {"post", "done"} =>
              pc[Ctor] \in {"post", "done"} \/ Empty(buf[master])
    BY <1>5, StillPlaces
  <2>3. Empty(buf[master]) => Complete(buf[master].data)
    BY <1>1, <1>3 DEF Empty, Size, Complete
  <2>4. pc'[Ctor] \in {"post", "done"} /\ mtx' = NoThread =>
          Complete(buf'[master'].data)
    BY <1>1, <2>1, <2>2, <2>3 DEF FramingInv
  <2>5. \A t \in Threads : pc'[t] = "push_header" => Complete(buf'[master'].data)
    BY <1>1, <1>4, <2>1, <2>2 DEF FramingInv
  <2>6. \A t \in Threads : pc'[t] = "push_body" =>
          /\ buf'[master'].data # <<>>
          /\ buf'[master'].data[Len(buf'[master'].data)] = ItemHeader(nextId)'
    BY <1>1, <2>1, <2>2 DEF FramingInv, ItemHeader
  <2> QED
    BY <1>2, <2>1, <2>4, <2>5, <2>6 DEF FramingInv, ItemFraming, Framed, Complete
<1>6. CASE Construct \/ Crash
  <2>1. /\ file' = file
        /\ \A c \in Caches : buf'[c].data = buf[c].data
    BY <1>1, <1>6, ConstructData DEF Construct, Crash, runner
  <2>2. pc'[Ctor] \in {"open", "recover_slave"}
    BY <1>1, <1>6 DEF Construct, Crash, Goto, TypeOK, Procs
  <2>3. \A t \in Threads : pc'[t] = "idle"
    BY <2>2 DEF SinkInv, CtorFirst
  <2> QED
    BY <1>2, <2>1, <2>2, <2>3 DEF FramingInv, ItemFraming, Framed
<1>7. ASSUME NEW t \in Procs, PushHeader(t)
      PROVE  FramingInv'
  <2>1. /\ pc[t] = "push_header" /\ pc'[t] = "push_body" /\ t \in Threads
        /\ UNCHANGED <<file, master, mtx, nextId, key>>
        /\ mtx = t /\ mtx # NoThread
    BY <1>1, <1>7, SinkAssumption
       DEF PushHeader, Goto, runner, TypeOK, CallInv, PlacesOK, CtorPCs,
           LockOK, Procs
  <2>2. ItemHeader(nextId) \in Token /\ ItemHeader(nextId).part = "header"
    BY <1>1, TokenType DEF ItemHeader, TypeOK
  <2> DEFINE d == buf[master].data
             x == ItemHeader(nextId)
  <2>3. /\ buf'[master].data = Append(d, x)
        /\ \A c \in Caches \ {master} : buf'[c] = buf[c]
    BY <1>1, <1>7, <2>2, PushData DEF PushHeader
  <2>4. Framed(Append(d, x))
    <3>1. Complete(d) /\ d \in Seq(Token) /\ Framed(d)
      BY <1>1, <1>2, <1>3, <2>1 DEF FramingInv
    <3> HIDE DEF d, x
    <3> QED
      BY <2>2, <3>1, FramedAppend DEF x
  <2>5. \A c \in Caches : Framed(buf'[c].data)
    BY <1>2, <2>3, <2>4
  <2>6. \A u \in Threads : /\ pc'[u] # "push_header"
                           /\ pc'[u] = "push_body" => u = t
    BY <1>1, <2>1 DEF CallInv, LockOK, Procs
  <2>7. /\ buf'[master].data # <<>>
        /\ buf'[master].data[Len(buf'[master].data)] = x
        /\ ItemHeader(nextId)' = x
    <3>1. ItemHeader(nextId)' = x
      BY <2>1 DEF ItemHeader
    <3>2. d \in Seq(Token)
      BY <1>1, <1>3
    <3> HIDE DEF d, x
    <3> QED
      BY <2>2, <2>3, <3>1, <3>2 DEF x
  <2> QED
    BY <1>2, <2>1, <2>5, <2>6, <2>7 DEF FramingInv, ItemFraming, Framed
<1>8. ASSUME NEW t \in Procs, PushBody(t)
      PROVE  FramingInv'
  <2>1. /\ pc[t] = "push_body" /\ t \in Threads
        /\ UNCHANGED <<file, master, nextId, key>>
        /\ mtx' = NoThread
    BY <1>1, <1>8
       DEF PushBody, Goto, runner, CallInv, PlacesOK, CtorPCs, Procs
  <2>2. /\ ItemBody(nextId) \in Token /\ ItemBody(nextId).part = "body"
        /\ ItemHeader(nextId).part = "header"
        /\ ItemBody(nextId) = [ItemHeader(nextId) EXCEPT !.part = "body"]
        /\ ItemHeader(nextId) = [ItemBody(nextId) EXCEPT !.part = "header"]
    BY <1>1, TokenType DEF ItemBody, ItemHeader, TypeOK
  <2> DEFINE d == buf[master].data
             x == ItemBody(nextId)
  <2>3. /\ buf'[master].data = Append(d, x)
        /\ \A c \in Caches \ {master} : buf'[c] = buf[c]
    BY <1>1, <1>8, <2>2, PushData DEF PushBody
  <2>4. Framed(Append(d, x)) /\ d \in Seq(Token)
    <3>1. /\ d \in Seq(Token) /\ Framed(d)
          /\ d # <<>> /\ d[Len(d)] = ItemHeader(nextId)
      BY <1>1, <1>2, <1>3, <2>1 DEF FramingInv
    <3> HIDE DEF d, x
    <3> QED
      BY <2>2, <3>1, FramedAppend DEF x
  <2>5. \A c \in Caches : Framed(buf'[c].data)
    BY <1>2, <2>3, <2>4
  <2>6. \A u \in Threads : pc'[u] \notin {"push_header", "push_body"}
    BY <2>1, SinkAssumption DEF CallInv, LockOK, Procs
  <2>7. Complete(buf'[master].data)
    <3> HIDE DEF d, x
    <3> QED
      BY <2>2, <2>3, <2>4 DEF Complete, x
  <2> QED
    BY <1>2, <2>1, <2>5, <2>6, <2>7 DEF FramingInv, ItemFraming, Framed, Complete
<1>9. ASSUME NEW t \in Procs, SwapCache(t)
      PROVE  FramingInv'
  <2>1. /\ pc[t] = "swap" /\ mtx' = NoThread /\ master' = slave
        /\ UNCHANGED <<buf, file>>
    BY <1>9 DEF SwapCache, Goto, runner
  <2>2. Empty(buf[slave])
    BY <1>1, <2>1 DEF SinkInv, WindowHoldsSlave
  <2>3. Complete(buf[slave].data)
    BY <1>1, <1>3, <2>2 DEF Empty, Size, Complete
  <2>4. \A u \in Threads : pc'[u] \notin {"push_header", "push_body"}
    BY <2>1, SinkAssumption DEF CallInv, LockOK, Procs
  <2> QED
    BY <1>2, <2>1, <2>3, <2>4 DEF FramingInv, ItemFraming, Framed, Complete
<1>10. ASSUME UNCHANGED <<pc, mtx, nextId, key, master>>,
              buf'[master].data = buf[master].data,
              \A c \in Caches : Framed(buf'[c].data),
              \A n \in 1..Len(file') : Framed(file'[n].data)
       PROVE  FramingInv'
  BY <1>1, <1>10 DEF FramingInv, ItemFraming, Complete, ItemHeader
<1>11. CASE WriteHeader \/ WriteData \/ ClearSlave
  <2>1. UNCHANGED <<pc, mtx, nextId, key, master>>
    BY <1>11, WorkerMovesNone DEF CacheToFile
  <2>2. CASE WriteHeader
    <3>1. /\ buf' = buf
          /\ \/ file' = file
             \/ /\ Len(file) \in Nat
                /\ Len(file') = Len(file) + 1
                /\ \A n \in 1..Len(file) : file'[n] = file[n]
                /\ file'[Len(file) + 1].data = <<>>
      BY <1>1, <2>2, HeaderData
    <3>2. Framed(<<>>)
      BY DEF Framed
    <3>3. \A n \in 1..Len(file') : Framed(file'[n].data)
      BY <1>2, <3>1, <3>2
    <3> QED
      BY <1>2, <1>10, <2>1, <3>1, <3>3
  <2>3. CASE WriteData
    <3>1. /\ buf' = buf
          /\ Len(file) \in Nat \ {0}
          /\ Len(file') = Len(file)
          /\ \A m \in 1..(Len(file) - 1) : file'[m] = file[m]
      BY <2>3, WriteDataData
    <3> DEFINE d == buf[slave].data
               e == file'[Len(file)].data
    <3>2. d \in Seq(Token) /\ Framed(d)
      BY <1>1, <1>2, DataTypes
    <3>3. /\ e \in Seq(Token) /\ Len(e) <= Len(d)
          /\ \A j \in 1..Len(e) : e[j] = d[j]
      BY <1>1, <2>3, SliceWritten
    <3>6. Framed(e)
      <4> HIDE DEF d, e
      <4> QED
        BY <3>2, <3>3, FramedPrefix
    <3>7. ASSUME NEW m \in 1..Len(file')
          PROVE  Framed(file'[m].data)
      <4>1. m = Len(file) \/ (m \in 1..(Len(file) - 1) /\ m \in 1..Len(file))
        BY <3>1
      <4> QED
        BY <1>2, <3>1, <3>6, <4>1
    <3> QED
      BY <1>2, <1>10, <2>1, <3>1, <3>7
  <2>4. CASE ClearSlave
    <3>1. /\ file' = file
          /\ buf'[slave].data = <<>>
          /\ \A c \in Caches \ {slave} : buf'[c] = buf[c]
      BY <1>1, <2>4, ClearData DEF ClearSlave
    <3>2. Framed(<<>>)
      BY DEF Framed
    <3>3. \A c \in Caches : Framed(buf'[c].data)
      BY <1>2, <3>1, <3>2
    <3>4. buf'[master].data = buf[master].data
      BY <1>1, <3>1
    <3> QED
      BY <1>2, <1>10, <2>1, <3>1, <3>3, <3>4
  <2> QED
    BY <1>11, <2>2, <2>3, <2>4
<1> QED
  BY <1>5, <1>6, <1>7, <1>8, <1>9, <1>11, DataCases

\* The framing holds in every reachable state.
LEMMA FramingInvariant ==
    Spec => [](SinkInv /\ CallInv /\ RecoveryInv /\ FramingInv)
<1>1. Init => SinkInv /\ CallInv /\ RecoveryInv /\ FramingInv
  <2> SUFFICES ASSUME Init
               PROVE  SinkInv /\ CallInv /\ RecoveryInv /\ FramingInv
    OBVIOUS
  <2>1. pc[Ctor] = "open" /\ \A t \in Threads : pc[t] = "idle"
    BY SinkAssumption DEF Init, Procs
  <2>2. RecoveryInv
    BY <2>1 DEF RecoveryInv
  <2>3. \A c \in Caches : buf[c].data = <<>>
    BY DEF Init, NoFile
  <2>4. FramingInv
    BY <2>1, <2>3 DEF Init, FramingInv, ItemFraming, Framed
  <2> QED
    BY <2>2, <2>4, SinkInit, CallInit
<1>2. SinkInv /\ CallInv /\ RecoveryInv /\ FramingInv /\ [Next]_vars
        => (SinkInv /\ CallInv /\ RecoveryInv /\ FramingInv)'
  <2> SUFFICES ASSUME SinkInv, CallInv, RecoveryInv, FramingInv, [Next]_vars
               PROVE  (SinkInv /\ CallInv /\ RecoveryInv /\ FramingInv)'
    OBVIOUS
  <2>1. SinkInv' /\ TypeOK'
    BY SinkStep DEF SinkInv
  <2>2. CallInv'
    BY <2>1, CallStep
  <2> QED
    BY <2>1, <2>2, RecoveryStep, FramingStep
<1> QED
  BY <1>1, <1>2, PTL DEF Spec

\* In every chunk of the log file a header is followed by the body of the
\* same item or ends the chunk, and a body follows its header: the two
\* pushes of WriteToCache_ are never torn apart by a swap, a crash or a
\* partial write, unless the unguarded window was overlapped.
THEOREM ItemsStayWhole == Spec => []ItemFraming
<1>1. FramingInv => ItemFraming
  BY DEF FramingInv, ItemFraming
<1> QED
  BY FramingInvariant, <1>1, PTL

-----------------------------------------------------------------------------
(* Items are not reordered. *)

\* Everything in the caches and the log file was numbered before the item in
\* progress.
LEMMA NewerThanAll ==
    ASSUME SinkInv, CallInv, mtx # NoThread
    PROVE  /\ \A c \in Caches : \A j \in Bodies(buf[c].data) :
                 buf[c].data[j].id < nextId
           /\ \A n \in 1..Len(file) : \A j \in Bodies(file[n].data) :
                 file[n].data[j].id < nextId
<1>1. \A i \in accepted : i < nextId
  <2>1. accepted \subseteq 1..nextId /\ nextId \notin accepted /\ nextId \in Nat
    BY DEF CallInv, NumbersOK, SinkInv, TypeOK
  <2> QED
    BY <2>1
<1> QED
  BY <1>1 DEF CallInv, TokensOK, TokenOK, Bodies

\* Appending to later: a header changes nothing, a body must be newer.
LEMMA BeforeAppend ==
    ASSUME NEW p, NEW d \in Seq(Token), NEW e \in Seq(Token),
           NEW x \in Token, Before(p, d, e),
           x.part = "body" => \A j \in Bodies(d) : d[j].id < x.id
    PROVE  Before(p, d, Append(e, x))
<1>1. \A k \in Bodies(Append(e, x)) :
        \/ k \in Bodies(e) /\ Append(e, x)[k] = e[k]
        \/ x.part = "body" /\ Append(e, x)[k] = x
  BY DEF Bodies
<1> QED
  BY <1>1 DEF Before

\* The same within one cache.
LEMMA SortedAppend ==
    ASSUME NEW d \in Seq(Token), NEW x \in Token, Sorted(d),
           x.part = "body" => \A j \in Bodies(d) : d[j].id < x.id
    PROVE  Sorted(Append(d, x))
<1> DEFINE e == Append(d, x)
<1>1. /\ Len(d) \in Nat /\ Len(e) = Len(d) + 1 /\ e[Len(d) + 1] = x
      /\ \A j \in 1..Len(d) : e[j] = d[j]
  OBVIOUS
<1> HIDE DEF e
<1>2. ASSUME NEW j \in Bodies(e), NEW k \in Bodies(e), j < k
      PROVE  e[j].id < e[k].id
  <2>1. /\ j \in 1..Len(e) /\ k \in 1..Len(e)
        /\ e[j].part = "body" /\ e[k].part = "body"
    BY DEF Bodies
  <2>2. j \in 1..Len(d) /\ e[j] = d[j]
    BY <1>1, <1>2, <2>1
  <2>3. j \in Bodies(d)
    BY <2>1, <2>2 DEF Bodies
  <2>4. CASE k = Len(d) + 1
    BY <1>1, <2>1, <2>2, <2>3, <2>4
  <2>5. CASE k # Len(d) + 1
    <3>1. k \in 1..Len(d) /\ e[k] = d[k]
      BY <1>1, <2>1, <2>5
    <3> QED
      BY <1>2, <2>1, <2>2, <2>3, <3>1 DEF Sorted, Bodies
  <2> QED
    BY <2>4, <2>5
<1> QED
  BY <1>2 DEF Sorted, e

\* Only Construct leaves "open".
LEMMA OpenStays ==
    ASSUME SinkInv, [Next]_vars, ~Construct, pc'[Ctor] # "open"
    PROVE  pc[Ctor] # "open"
<1>1. CASE RecoverSlave \/ RecoverMaster
  BY <1>1 DEF RecoverSlave, RecoverMaster, Goto
<1>2. ASSUME NEW t \in Procs,
             Continue(t) \/ LogCall(t) \/ FlushCall(t)
      PROVE  pc[Ctor] # "open"
  <2>1. CASE t = Ctor
    BY <1>2, <2>1
       DEF Continue, LogCall, FlushCall, Encode, PushHeader, PushBody,
           NeedCacheToFile, LoadSlaveFree, StoreSlaveFree, SwapCache,
           PrepareToFile, PrepareSlave, PostIdle, AwaitSlave,
           AwaitMaster, Goto
  <2>2. CASE t # Ctor
    BY <1>2, <2>2
       DEF Continue, LogCall, FlushCall, Encode, PushHeader, PushBody,
           NeedCacheToFile, LoadSlaveFree, StoreSlaveFree, SwapCache,
           PrepareToFile, PrepareSlave, PostIdle, AwaitSlave,
           AwaitMaster, Goto, SinkInv, CtorFirst, Procs
  <2> QED
    BY <2>1, <2>2
<1>3. CASE CacheToFile \/ UNCHANGED vars
  BY <1>3
     DEF CacheToFile, TakeTask, CheckFree, CheckEmpty, ReadSize,
         UpdateFilePath, WriteHeader, WriteData, ClearSlave, StoreFree, vars
<1>4. CASE Crash
  BY <1>4 DEF Crash, Procs
<1> QED
  BY <1>1, <1>2, <1>3, <1>4 DEF Next, Recover, Procs

\* Every step keeps the order.
LEMMA OrderStep ==
    ASSUME SinkInv, SinkInv', CallInv, OrderInv, [Next]_vars
    PROVE  OrderInv'
<1> SUFFICES ASSUME ~raced'
             PROVE  OrderInv'
  BY DEF OrderInv
<1>1. /\ TypeOK /\ TypeOK' /\ ~raced /\ master # slave
      /\ master \in Caches /\ slave \in Caches
      /\ \A c \in Caches : c = master \/ c = slave
  <2>1. TypeOK /\ TypeOK'
    BY DEF SinkInv
  <2> QED
    BY <2>1, OneWay DEF SinkInv, TypeOK, Caches
<1>2. /\ \A c \in Caches : Sorted(buf[c].data)
      /\ Ordered(file)
      /\ rpc = "write_data" /\ pc[Ctor] # "open" => file[Len(file)].key = key
  BY <1>1 DEF OrderInv
<1>3. pc[Ctor] # "open" =>
        /\ Before(key, buf[slave].data, buf[master].data)
        /\ \A n \in 1..Len(file) :
              /\ Before(key, file[n].data, buf[master].data)
              /\ rpc # "clear" => Before(key, file[n].data, buf[slave].data)
  BY <1>1 DEF OrderInv
<1>4. /\ \A c \in Caches : buf[c].data \in Seq(Token)
      /\ \A n \in 1..Len(file) : file[n].data \in Seq(Token)
  BY <1>1, DataTypes
<1>5. CASE Still
  <2>1. /\ UNCHANGED <<master, slave, buf, file, key>>
        /\ rpc' \in {"clear", "write_data"} \/ rpc = "clear" => rpc' = rpc
    BY <1>5, StillData
  <2>2. pc'[Ctor] # "open" => pc[Ctor] # "open"
    <3>1. ~Construct
      BY <1>1, <2>1, OneWay DEF Construct
    <3> QED
      BY <1>1, <3>1, OpenStays
  <2> QED
    BY <1>2, <1>3, <2>1, <2>2
       DEF OrderInv
<1>6. CASE Crash
  <2>1. pc'[Ctor] = "open" /\ UNCHANGED <<buf, file>>
    BY <1>6 DEF Crash, Procs
  <2> QED
    BY <1>2, <2>1 DEF OrderInv
<1>7. CASE Construct
  <2>1. /\ \A c \in Caches : buf'[c].data = buf[c].data
        /\ UNCHANGED <<file, master, slave, rpc>> /\ key' = key + 1
        /\ rpc' = "idle" /\ key \in Nat
    BY <1>1, <1>7, ConstructData
       DEF Construct, runner, Goto, SinkInv, RecoveryStart, TypeOK
  <2>2. \A c \in Caches : \A k \in Bodies(buf'[c].data) :
          buf'[c].data[k].key # key'
    <3> SUFFICES ASSUME NEW c \in Caches, NEW k \in Bodies(buf[c].data)
                 PROVE  buf[c].data[k].key # key + 1
      BY <2>1
    <3>1. k \in 1..Len(buf[c].data)
      BY DEF Bodies
    <3>2. buf[c].data[k].key <= key
      BY <3>1 DEF CallInv, TokensOK, TokenOK
    <3>3. buf[c].data[k].key \in Nat
      BY <1>4, <3>1, TokenTypes
    <3> QED
      BY <2>1, <3>2, <3>3
  <2>3. /\ Before(key, buf[slave].data, buf[master].data)'
        /\ \A n \in 1..Len(file') :
              /\ Before(key', file'[n].data, buf'[master'].data)
              /\ Before(key', file'[n].data, buf'[slave'].data)
    BY <1>1, <2>1, <2>2 DEF Before
  <2>4. \A c \in Caches : Sorted(buf'[c].data)
    BY <1>2, <2>1
  <2> QED
    BY <1>2, <2>1, <2>3, <2>4 DEF OrderInv
<1>8. ASSUME NEW t \in Procs, PushHeader(t) \/ PushBody(t)
      PROVE  OrderInv'
  <2>1. /\ UNCHANGED <<file, master, slave, key, rpc>>
        /\ mtx # NoThread /\ pc[Ctor] # "open"
    <3>1. UNCHANGED <<file, master, slave, key, rpc>>
            /\ pc[t] \in {"push_header", "push_body"}
      BY <1>8 DEF PushHeader, PushBody, runner, Goto
    <3>2. mtx # NoThread
      BY <3>1, SinkAssumption DEF CallInv, LockOK, Procs
    <3>3. pc[Ctor] # "open"
      BY <3>1 DEF SinkInv, CtorFirst, Procs
    <3> QED
      BY <3>1, <3>2, <3>3
  <2>2. PICK x \in Token :
          /\ buf' = [buf EXCEPT ![master] = Push(@, x)]
          /\ x.part = "body" => x.id = nextId
    <3>1. ItemHeader(nextId) \in Token /\ ItemBody(nextId) \in Token
      BY <1>1, TokenType DEF TypeOK
    <3>2. CASE PushHeader(t)
      BY <3>1, <3>2 DEF PushHeader, ItemHeader
    <3>3. CASE PushBody(t)
      BY <3>1, <3>3 DEF PushBody, ItemBody
    <3> QED
      BY <1>8, <3>2, <3>3
  <2>3. /\ buf'[master].data = Append(buf[master].data, x)
        /\ buf'[slave] = buf[slave]
    BY <1>1, <2>2, PushData
  <2>4. /\ \A c \in Caches : \A j \in Bodies(buf[c].data) :
              buf[c].data[j].id < nextId
        /\ \A n \in 1..Len(file) : \A j \in Bodies(file[n].data) :
              file[n].data[j].id < nextId
    BY <2>1, NewerThanAll
  <2>5. Sorted(Append(buf[master].data, x))
    BY <1>1, <1>2, <1>4, <2>2, <2>4, SortedAppend
  <2>6. Before(key, buf[slave].data, Append(buf[master].data, x))
    BY <1>1, <1>3, <1>4, <2>1, <2>2, <2>4, BeforeAppend
  <2>7. \A n \in 1..Len(file) :
          Before(key, file[n].data, Append(buf[master].data, x))
    <3> SUFFICES ASSUME NEW n \in 1..Len(file)
                 PROVE  Before(key, file[n].data, Append(buf[master].data, x))
      OBVIOUS
    <3>1. /\ file[n].data \in Seq(Token)
          /\ Before(key, file[n].data, buf[master].data)
      BY <1>3, <1>4, <2>1
    <3> QED
      BY <1>1, <1>4, <2>2, <2>4, <3>1, BeforeAppend
  <2>8. \A c \in Caches : Sorted(buf'[c].data)
    BY <1>1, <1>2, <2>3, <2>5
  <2> QED
    BY <1>2, <1>3, <2>1, <2>3, <2>6, <2>7, <2>8 DEF OrderInv
<1>9. ASSUME NEW t \in Procs, SwapCache(t)
      PROVE  OrderInv'
  <2>1. /\ UNCHANGED <<buf, file, key, rpc>>
        /\ master' = slave /\ slave' = master /\ pc[t] = "swap"
    BY <1>9 DEF SwapCache, runner, Goto
  <2>2. Bodies(buf[slave].data) = {}
    BY <1>1, <2>1
       DEF SinkInv, WindowHoldsSlave, Empty, Size, Bodies
  <2>3. pc[Ctor] # "open"
    BY <2>1 DEF SinkInv, CtorFirst, Procs
  <2>4. /\ Before(key, buf[master].data, buf[slave].data)
        /\ \A n \in 1..Len(file) : Before(key, file[n].data, buf[slave].data)
    BY <2>2 DEF Before
  <2> QED
    BY <1>2, <1>3, <2>1, <2>3, <2>4 DEF OrderInv
<1>10. CASE WriteHeader
  <2>0. CASE file' = file
    <3>1. UNCHANGED <<buf, master, slave, pc, key>> /\ rpc = "write_header"
      BY <1>1, <1>10, HeaderData DEF WriteHeader, RunnerGoto
    <3>2. rpc' = "clear"
      BY <1>1, <1>10, <2>0, HeaderData
    <3> QED
      BY <1>2, <1>3, <2>0, <3>1, <3>2 DEF OrderInv
  <2> SUFFICES ASSUME file' # file
               PROVE  OrderInv'
    BY <2>0
  <2>1. /\ UNCHANGED <<buf, master, slave, pc, key>>
        /\ rpc' = "write_data"
        /\ rpc = "write_header"
        /\ Len(file) \in Nat
        /\ Len(file') = Len(file) + 1
        /\ \A n \in 1..Len(file) : file'[n] = file[n]
        /\ file'[Len(file) + 1].data = <<>>
        /\ file'[Len(file) + 1].key = key
    BY <1>1, <1>10, HeaderData DEF WriteHeader, RunnerGoto
  <2>2. \A n \in 1..Len(file') :
          (n \in 1..Len(file) /\ file'[n] = file[n]) \/ file'[n].data = <<>>
    BY <2>1
  <2>3. Ordered(file')
    <3>1. ASSUME NEW m \in 1..Len(file'), NEW j \in 1..Len(file'[m].data)
          PROVE  m \in 1..Len(file) /\ file'[m] = file[m]
      BY <2>2, <3>1
    <3>2. ASSUME NEW m \in 1..Len(file'), NEW n \in 1..Len(file'),
                 NEW j \in 1..Len(file'[m].data),
                 NEW k \in 1..Len(file'[n].data),
                 m < n \/ (m = n /\ j < k),
                 file'[m].data[j].part = "body",
                 file'[n].data[k].part = "body"
          PROVE  \/ file'[m].data[j].id < file'[n].data[k].id
                 \/ m < n /\ file'[n].key > file'[n].data[k].key
      <4>1. /\ m \in 1..Len(file) /\ file'[m] = file[m]
            /\ n \in 1..Len(file) /\ file'[n] = file[n]
        BY <3>1
      <4> QED
        BY <1>2, <3>2, <4>1 DEF Ordered
    <3> QED
      BY <3>2 DEF Ordered
  <2>4. ASSUME pc'[Ctor] # "open", NEW n \in 1..Len(file')
        PROVE  /\ Before(key, file'[n].data, buf[master].data)
               /\ Before(key, file'[n].data, buf[slave].data)
    <3>1. CASE file'[n].data = <<>>
      BY <3>1 DEF Before, Bodies
    <3> QED
      BY <1>3, <2>1, <2>2, <2>4, <3>1
  <2> QED
    BY <1>2, <1>3, <2>1, <2>3, <2>4 DEF OrderInv
<1>11. CASE WriteData
  <2>1. /\ UNCHANGED <<buf, master, slave, pc, key>>
        /\ rpc = "write_data" /\ rpc' = "clear"
        /\ Len(file) \in Nat \ {0}
        /\ Len(file') = Len(file)
        /\ \A m \in 1..Len(file) : file'[m].key = file[m].key
        /\ \A m \in 1..(Len(file) - 1) : file'[m] = file[m]
    BY <1>11, WriteDataData
  <2> DEFINE d == buf[slave].data
             e == file'[Len(file)].data
  <2>7. e \in Seq(Token) /\ Len(e) <= Len(d) /\ \A j \in 1..Len(e) : e[j] = d[j]
    BY <1>1, <1>11, SliceWritten
  <2>8. Bodies(e) \subseteq Bodies(d) /\ \A j \in Bodies(e) : e[j] = d[j]
    <3>1. d \in Seq(Token)
      BY <1>1, <1>4
    <3> HIDE DEF d, e
    <3> QED
      BY <2>7, <3>1 DEF Bodies
  <2>2. pc[Ctor] # "open"
    BY <2>1 DEF SinkInv, RecoveryStart
  <2>3. \A m \in 1..Len(file') :
          \/ m = Len(file)
          \/ m \in 1..Len(file) /\ m < Len(file) /\ file'[m] = file[m]
    BY <2>1
  <2>4. \A n \in 1..Len(file') : Before(key, file'[n].data, buf[master].data)
    <3>1. Before(key, e, buf[master].data)
      BY <1>3, <2>2, <2>8 DEF Before
    <3> QED
      BY <1>3, <2>1, <2>2, <2>3, <3>1
  <2>5. ASSUME NEW m \in 1..Len(file'), NEW n \in 1..Len(file'),
               NEW j \in 1..Len(file'[m].data),
               NEW k \in 1..Len(file'[n].data),
               m < n \/ (m = n /\ j < k),
               file'[m].data[j].part = "body",
               file'[n].data[k].part = "body"
        PROVE  \/ file'[m].data[j].id < file'[n].data[k].id
               \/ m < n /\ file'[n].key > file'[n].data[k].key
    <3>1. CASE n # Len(file)
      <4>1. /\ n \in 1..Len(file) /\ n < Len(file) /\ file'[n] = file[n]
            /\ m \in 1..Len(file) /\ m # Len(file)
        BY <2>1, <2>3, <2>5, <3>1
      <4>2. file'[m] = file[m]
        BY <2>3, <4>1
      <4> QED
        BY <1>1, <1>2, <2>5, <4>1, <4>2 DEF Ordered
    <3>2. CASE n = Len(file) /\ m = n
      <4>1. j \in Bodies(e) /\ k \in Bodies(e) /\ j < k
        BY <2>1, <2>5, <3>2 DEF Bodies
      <4>2. /\ j \in Bodies(d) /\ k \in Bodies(d)
            /\ e[j] = d[j] /\ e[k] = d[k]
        BY <2>8, <4>1
      <4> QED
        BY <1>1, <1>2, <2>1, <3>2, <4>1, <4>2 DEF Sorted
    <3>3. CASE n = Len(file) /\ m # n
      <4>1. m < n /\ m \in 1..Len(file) /\ file'[m] = file[m]
        BY <2>3, <2>5, <3>3
      <4>2. j \in Bodies(file[m].data) /\ k \in Bodies(d)
              /\ k \in 1..Len(d) /\ file'[n].data[k] = d[k]
        <5>1. k \in Bodies(e)
          BY <2>5, <3>3 DEF Bodies
        <5>2. k \in Bodies(d) /\ e[k] = d[k]
          BY <2>8, <5>1
        <5> QED
          BY <2>1, <2>5, <3>3, <4>1, <5>2 DEF Bodies
      <4>3. d[k].key = key => file[m].data[j].id < d[k].id
        BY <1>3, <2>1, <2>2, <4>1, <4>2 DEF Before
      <4>4. d[k].key <= key /\ d[k].key \in Nat /\ key \in Nat
        <5>1. d[k].key <= key
          BY <1>1, <4>2 DEF CallInv, TokensOK, TokenOK
        <5>2. d[k].key \in Nat
          BY <1>1, <1>4, <4>2, TokenTypes
        <5> QED
          BY <1>1, <5>1, <5>2 DEF TypeOK
      <4>5. file'[n].key = key
        BY <1>2, <2>1, <2>2, <2>5, <3>3
      <4>6. \/ file'[m].data[j].id < d[k].id
            \/ file'[n].key > d[k].key
        BY <4>1, <4>3, <4>4, <4>5
      <4>7. file'[n].data[k] = d[k]
        BY <4>2
      <4> QED
        BY <4>1, <4>6, <4>7
    <3> QED
      BY <3>1, <3>2, <3>3
  <2>6. Ordered(file')
    BY <2>5 DEF Ordered
  <2> QED
    BY <1>2, <1>3, <2>1, <2>2, <2>4, <2>6 DEF OrderInv
<1>12. CASE ClearSlave
  <2>1. /\ UNCHANGED <<file, master, slave, pc, key>>
        /\ rpc' = "store_free"
        /\ buf'[slave].data = <<>>
        /\ buf'[master] = buf[master]
    BY <1>1, <1>12, ClearData DEF ClearSlave, RunnerGoto
  <2>2. Bodies(<<>>) = {}
    BY DEF Bodies
  <2>3. \A c \in Caches : Sorted(buf'[c].data)
    BY <1>1, <1>2, <2>1, <2>2 DEF Sorted
  <2>4. \A d : Before(key, d, <<>>) /\ Before(key, <<>>, d)
    BY <2>2 DEF Before
  <2> QED
    BY <1>2, <1>3, <2>1, <2>3, <2>4 DEF OrderInv
<1> QED
  BY <1>5, <1>6, <1>7, <1>8, <1>9, <1>10, <1>11, <1>12, DataCases

\* The order holds in every reachable state.
LEMMA OrderInvariant ==
    Spec => [](SinkInv /\ CallInv /\ OrderInv)
<1>1. Init => SinkInv /\ CallInv /\ OrderInv
  <2> SUFFICES ASSUME Init
               PROVE  SinkInv /\ CallInv /\ OrderInv
    OBVIOUS
  <2>1. pc[Ctor] = "open" /\ \A c \in Caches : buf[c].data = <<>>
    BY DEF Init, NoFile, Procs
  <2>2. OrderInv
    BY <2>1 DEF Init, OrderInv, Ordered, Sorted, Bodies
  <2> QED
    BY <2>2, SinkInit, CallInit
<1>2. SinkInv /\ CallInv /\ OrderInv /\ [Next]_vars
        => (SinkInv /\ CallInv /\ OrderInv)'
  <2> SUFFICES ASSUME SinkInv, CallInv, OrderInv, [Next]_vars
               PROVE  (SinkInv /\ CallInv /\ OrderInv)'
    OBVIOUS
  <2>1. SinkInv' /\ TypeOK'
    BY SinkStep DEF SinkInv
  <2> QED
    BY <2>1, CallStep, OrderStep
<1> QED
  BY <1>1, <1>2, PTL DEF Spec

\* Items reach the log file at most once and in the order in which Log took
\* mtx_, but for what a later process recovers, for any number of threads,
\* chunks and crashes and whether or not writes fail, unless the unguarded
\* window was overlapped.
THEOREM ItemsStayInOrder == Spec => []WrittenInOrder
<1>1. OrderInv => WrittenInOrder
  BY DEF OrderInv, Ordered, WrittenInOrder
<1> QED
  BY OrderInvariant, <1>1, PTL

-----------------------------------------------------------------------------
(* The sink implements DurableLog. *)

\* The abstract state.
OnDisk   == {i \in accepted : OnFile(i)}
Pending  == {i \in accepted : InCache(i) /\ ~OnFile(i)}
Flushing == {t \in Threads : op[t] = "flush" /\ pc[t] # "idle"}
Bases    == [t \in Threads |-> base[t]]

\* Nothing is lost, so what is accepted and not written is pending.
LEMMA PendingIsRest ==
    ASSUME SinkInv, Undisturbed
    PROVE  Pending = accepted \ OnDisk
BY DEF SinkInv, NothingLost, Pending, OnDisk

\* A step of a thread that neither begins nor ends a Flush.
LEMMA FlushingStays ==
    ASSUME SinkInv, CallInv, NEW t \in Procs,
           LogCall(t) \/ (Continue(t) /\ ~AwaitMaster(t))
    PROVE  Flushing' = Flushing /\ base' = base
<1>1. /\ TypeOK /\ PlacesOK
      /\ \A u \in Procs : u # t => pc'[u] = pc[u] /\ op'[u] = op[u]
  BY OneMoves DEF SinkInv, CallInv
<1>2. base' = base
  BY DEF Continue, LogCall, Encode, PushHeader, PushBody, NeedCacheToFile,
         LoadSlaveFree, StoreSlaveFree, SwapCache, PrepareToFile,
         PrepareSlave, PostIdle, AwaitSlave, history
<1>3. t \in Threads =>
        (op'[t] = "flush" /\ pc'[t] # "idle" <=> op[t] = "flush" /\ pc[t] # "idle")
  <2> SUFFICES ASSUME t \in Threads
               PROVE  op'[t] = "flush" /\ pc'[t] # "idle"
                        <=> op[t] = "flush" /\ pc[t] # "idle"
    OBVIOUS
  <2> USE <1>1 DEF Goto, TypeOK, PlacesOK
  <2>1. CASE LogCall(t)
    BY <2>1 DEF LogCall
  <2>2. CASE Encode(t) \/ PushHeader(t) \/ PushBody(t) \/ NeedCacheToFile(t)
    BY <2>2 DEF Encode, PushHeader, PushBody, NeedCacheToFile, FlushPCs
  <2>3. CASE LoadSlaveFree(t) \/ StoreSlaveFree(t) \/ SwapCache(t)
    BY <2>3 DEF LoadSlaveFree, StoreSlaveFree, SwapCache
  <2>4. CASE PrepareToFile(t)
    BY <2>4 DEF PrepareToFile
  <2>5. CASE PrepareSlave(t) \/ PostIdle(t)
    BY <2>5 DEF PrepareSlave, PostIdle
  <2>6. CASE AwaitSlave(t)
    BY <2>6, SinkAssumption DEF AwaitSlave
  <2> QED
    BY <2>1, <2>2, <2>3, <2>4, <2>5, <2>6 DEF Continue
<1> QED
  BY <1>1, <1>2, <1>3 DEF Flushing, Procs

\* Every step of the sink is a step of the abstract log.
LEMMA DurableStep ==
    ASSUME SinkInv, SinkInv', CallInv, FlushInv, [Next]_vars
    PROVE  [Durable!Next]_(Durable!vars)
<1> USE DEF Durable!vars
<1>1. CASE ~Undisturbed'
  BY <1>1 DEF Durable!Next, Durable!Break
<1>2. ASSUME Undisturbed'
      PROVE  [Durable!Next]_(Durable!vars)
  <2>1. TypeOK /\ TypeOK' /\ Undisturbed
    <3>1. TypeOK /\ TypeOK'
      BY DEF SinkInv
    <3> QED
      BY <1>2, <3>1, OneWay DEF Undisturbed
  <2>2. /\ Pending = accepted \ OnDisk
        /\ Pending' = accepted' \ OnDisk'
    <3>1. Pending' = accepted' \ OnDisk'
      BY <1>2 DEF SinkInv, NothingLost, Pending, OnDisk
    <3> QED
      BY <2>1, <3>1, PendingIsRest
  <2>3. ASSUME UNCHANGED <<OnDisk, accepted, Flushing, Bases>>
        PROVE  UNCHANGED Durable!vars
    <3>1. UNCHANGED <<Pending, OnDisk, Flushing, Bases>>
      BY <2>2, <2>3
    <3> QED
      BY <1>2, <2>1, <3>1 DEF Pending, OnDisk, Flushing, Bases
  <2>4. ASSUME UNCHANGED <<file, accepted>>
        PROVE  UNCHANGED <<OnDisk, accepted>>
    BY <2>4 DEF OnDisk, OnFile, HasBody
  <2>5. CASE Recover
    <3>1. UNCHANGED <<file, accepted, op, base>>
      BY <2>5
         DEF Recover, Construct, RecoverSlave, RecoverMaster, runner, history
    <3>2. \A t \in Threads : pc'[t] = pc[t]
      BY <2>1, <2>5, SinkAssumption
         DEF Recover, Construct, RecoverSlave, RecoverMaster, Goto, TypeOK,
             Procs
    <3>3. UNCHANGED <<Flushing, Bases>>
      BY <3>1, <3>2 DEF Flushing, Bases
    <3> QED
      BY <2>3, <2>4, <3>1, <3>3
  <2>6. ASSUME NEW t \in Procs, LogCall(t) \/ (Continue(t) /\ ~AwaitMaster(t)),
               ~PushBody(t)
        PROVE  UNCHANGED Durable!vars
    <3>1. UNCHANGED <<file, accepted>>
      BY <2>6
         DEF Continue, LogCall, Encode, PushHeader, NeedCacheToFile,
             LoadSlaveFree, StoreSlaveFree, SwapCache, PrepareToFile,
             PrepareSlave, PostIdle, AwaitSlave, history, runner
    <3>2. UNCHANGED <<Flushing, Bases>>
      BY <2>6, FlushingStays DEF Bases
    <3> QED
      BY <2>3, <2>4, <3>1, <3>2
  <2>7. ASSUME NEW t \in Procs, PushBody(t)
        PROVE  [Durable!Next]_(Durable!vars)
    <3>1. /\ accepted' = accepted \cup {nextId} /\ file' = file
          /\ pc[t] = "push_body"
      BY <2>7 DEF PushBody, Goto, runner
    <3>2. nextId \in (1..MaxItems) \ accepted
      <4>1. mtx # NoThread
        BY <3>1, SinkAssumption DEF CallInv, LockOK, Procs
      <4>2. nextId > 0 /\ nextId \notin accepted /\ nextId \in Nat
        BY <2>1, <4>1 DEF CallInv, NumbersOK, TypeOK
      <4>3. Cardinality(Encoding) \in Nat
              /\ nextId + Cardinality(Encoding) <= MaxItems
        BY FS_CardinalityType DEF CallInv, BoundOK
      <4> QED
        BY <4>2, <4>3, SinkAssumption
    <3>3. ~OnFile(nextId)
      BY <3>2 DEF CallInv, TokensOK, OnFile, HasBody
    <3>4. OnDisk' = OnDisk
      BY <3>1, <3>3 DEF OnDisk, OnFile, HasBody
    <3>5. UNCHANGED <<Flushing, Bases>>
      <4>1. ~AwaitMaster(t)
        BY <3>1 DEF AwaitMaster, Goto
      <4> QED
        BY <2>7, <4>1, FlushingStays DEF Bases, Continue
    <3>6. /\ nextId \in (1..MaxItems) \ (Pending \cup OnDisk)
          /\ Pending' = Pending \cup {nextId}
      <4>1. Pending \cup OnDisk = accepted /\ nextId \notin OnDisk
        BY <2>2, <3>2 DEF OnDisk
      <4> QED
        BY <2>2, <3>1, <3>2, <3>4, <4>1
    <3>7. Durable!Accept
      BY <3>4, <3>5, <3>6
         DEF Durable!Accept, Pending, OnDisk, Flushing, Bases
    <3> QED
      BY <1>2, <2>1, <3>7 DEF Durable!Next
  <2>8. ASSUME NEW t \in Threads, FlushCall(t)
        PROVE  [Durable!Next]_(Durable!vars)
    <3>1. /\ UNCHANGED <<file, accepted>>
          /\ t \notin Flushing /\ Flushing' = Flushing \cup {t}
          /\ Bases' = [Bases EXCEPT ![t] = accepted]
      BY <2>1, <2>8
         DEF FlushCall, Goto, runner, TypeOK, Procs, Flushing, Bases
    <3>2. UNCHANGED <<Pending, OnDisk>> /\ accepted = Pending \cup OnDisk
      <4>1. OnDisk \subseteq accepted
        BY DEF OnDisk
      <4> QED
        BY <2>2, <2>4, <3>1, <4>1
    <3>3. Durable!BeginFlush(t)
      BY <3>1, <3>2
         DEF Durable!BeginFlush, Pending, OnDisk, Flushing, Bases
    <3> QED
      BY <1>2, <2>1, <3>3 DEF Durable!Next
  <2>9. ASSUME NEW t \in Procs, AwaitMaster(t)
        PROVE  [Durable!Next]_(Durable!vars)
    <3>1. /\ pc[t] = "wait2" /\ t \in done
          /\ UNCHANGED <<file, accepted, op, base>>
          /\ pc' = [pc EXCEPT ![t] = "idle"]
      BY <2>9 DEF AwaitMaster, Goto, runner
    <3>2. t \in Threads /\ op[t] = "flush"
      BY <3>1 DEF CallInv, PlacesOK, CtorPCs, LogPCs, Procs
    <3>3. t \in Flushing /\ Flushing' = Flushing \ {t} /\ Bases' = Bases
      BY <2>1, <3>1, <3>2 DEF Flushing, Bases, TypeOK, Procs
    <3>4. Bases[t] \subseteq OnDisk
      <4>1. \A i \in base[t] : i \in accepted /\ OnFile(i)
        BY <2>1, <3>1, <3>2
           DEF FlushInv, FlushOf, CallInv, NumbersOK, Procs
      <4> QED
        BY <3>2, <4>1 DEF Bases, OnDisk
    <3>5. UNCHANGED <<Pending, OnDisk>>
      BY <2>2, <2>4, <3>1
    <3>6. Durable!EndFlush(t)
      BY <3>3, <3>4, <3>5
         DEF Durable!EndFlush, Pending, OnDisk, Flushing, Bases
    <3> QED
      BY <1>2, <2>1, <3>2, <3>6 DEF Durable!Next
  <2>10. CASE CacheToFile
    <3>1. UNCHANGED <<accepted, Flushing, Bases>>
      BY <2>10, WorkerMovesNone DEF Flushing, Bases
    <3>2. OnDisk \subseteq OnDisk'
      BY <2>1, <3>1, FileGrows DEF OnDisk, TypeOK
    <3> DEFINE S == OnDisk' \ OnDisk
    <3>3. /\ S \in SUBSET Pending
          /\ Pending' = Pending \ S
          /\ OnDisk' = OnDisk \cup S
      <4>1. OnDisk' \subseteq accepted
        BY <3>1 DEF OnDisk
      <4> QED
        BY <2>2, <3>1, <3>2, <4>1
    <3>4. Durable!Write
      <4> HIDE DEF S
      <4> QED
        BY <3>1, <3>3
           DEF Durable!Write, Pending, OnDisk, Flushing, Bases
    <3> QED
      BY <1>2, <2>1, <3>4 DEF Durable!Next
  <2>11. CASE Crash
    <3>1. /\ UNCHANGED <<file, accepted>>
          /\ Flushing' = {} /\ Bases' = [t \in Threads |-> {}]
      BY <2>11 DEF Crash, Flushing, Bases, Procs
    <3>2. UNCHANGED <<Pending, OnDisk>>
      BY <2>2, <2>4, <3>1
    <3>3. Durable!Crash
      BY <3>1, <3>2 DEF Durable!Crash, Pending, OnDisk, Flushing, Bases
    <3> QED
      BY <1>2, <2>1, <3>3 DEF Durable!Next
  <2>12. CASE UNCHANGED vars
    <3>1. UNCHANGED <<file, accepted, op, pc, base>>
      BY <2>12 DEF vars, runner, history
    <3>2. UNCHANGED <<Flushing, Bases>>
      BY <3>1 DEF Flushing, Bases
    <3> QED
      BY <2>3, <2>4, <3>1, <3>2
  <2> QED
    BY <2>5, <2>6, <2>7, <2>8, <2>9, <2>10, <2>11, <2>12
       DEF Next, Procs
<1> QED
  BY <1>1, <1>2

\* The sink implements the abstract log: every step of a caller, the worker,
\* the constructor or a crash accepts one item, writes pending ones, begins a
\* Flush, ends one whose items are written, or changes nothing a caller can
\* see, until the unguarded window is overlapped or a write fails.
THEOREM SinkImplementsDurableLog == Spec => ImplementsDurableLog
<1>1. Init => Durable!Init
  BY SinkAssumption
     DEF Init, Durable!Init, OnFile, InCache, Undisturbed, Procs
<1>2. SinkInv /\ SinkInv' /\ CallInv /\ FlushInv /\ [Next]_vars
        => [Durable!Next]_(Durable!vars)
  BY DurableStep
<1> QED
  BY <1>1, <1>2, FlushInvariant, PTL
     DEF Spec, ImplementsDurableLog, Durable!Spec

-----------------------------------------------------------------------------
(* Nobody waits for nothing. *)

\* A task that the worker has not popped yet.
Posted(x) == \E q \in 1..Len(queue) : queue[q] = x

\* The two halves of AnswerComes.
Answered(t) == pc[t] \in {"wait1", "wait2"} => t \in done \/ Posted(IdleTask(t))

ClaimServed ==
    ~slave_free =>
        \/ rpc # "idle"
        \/ Posted(CacheTask)
        \/ \E t \in Procs : pc[t] \in {"swap", "post", "post1"}

LEMMA AnswerHalves == AnswerComes <=> (\A t \in Procs : Answered(t)) /\ ClaimServed
BY DEF AnswerComes, Answered, ClaimServed, Posted

LEMMA AnswerNext ==
    (\A t \in Procs : Answered(t)') /\ ClaimServed' => AnswerComes'
BY DEF AnswerComes, Answered, ClaimServed, Posted

LEMMA PostedAppend ==
    ASSUME queue \in Seq(Task), NEW x \in Task, queue' = Append(queue, x)
    PROVE  /\ Posted(x)'
           /\ \A y : Posted(y) => Posted(y)'
<1>1. /\ Len(queue) \in Nat
      /\ Len(queue') = Len(queue) + 1
      /\ \A q \in 1..Len(queue) : queue'[q] = queue[q]
      /\ queue'[Len(queue) + 1] = x
  BY QueueAppend
<1>2. Len(queue) + 1 \in 1..Len(queue')
  BY <1>1
<1>3. \A q \in 1..Len(queue) : q \in 1..Len(queue')
  BY <1>1
<1> QED
  BY <1>1, <1>2, <1>3 DEF Posted

LEMMA PostedTail ==
    ASSUME queue \in Seq(Task), queue # <<>>, queue' = Tail(queue),
           NEW y, Posted(y), y # Head(queue)
    PROVE  Posted(y)'
<1>1. /\ Len(queue) \in Nat \ {0}
      /\ Len(queue') = Len(queue) - 1
      /\ \A q \in 1..Len(queue') : queue'[q] = queue[q + 1]
      /\ Head(queue) = queue[1]
  BY QueueTail
<1>2. PICK q \in 1..Len(queue) : queue[q] = y
  BY DEF Posted
<1>3. q # 1
  BY <1>1, <1>2
<1>4. q - 1 \in 1..Len(queue') /\ (q - 1) + 1 = q
  BY <1>1, <1>3
<1>5. queue'[q - 1] = y
  BY <1>1, <1>2, <1>4
<1> QED
  BY <1>4, <1>5 DEF Posted

\* Each step of a thread: only PostIdle makes it wait, only StoreSlaveFree
\* and the recovery claim the slave, and whoever has claimed it posts.
LEMMA AnswerByThread ==
    ASSUME TypeOK, AnswerComes, NEW t \in Procs,
           Continue(t) \/ LogCall(t) \/ FlushCall(t)
    PROVE  AnswerComes'
<1>1. /\ \A u \in Procs : u # t => pc'[u] = pc[u]
      /\ UNCHANGED rpc
  BY OneMoves
<1>2. /\ pc \in [Procs -> PCs] /\ queue \in Seq(Task)
      /\ \A u \in Procs : Answered(u)
      /\ ClaimServed
  BY AnswerHalves DEF TypeOK
<1>3. ASSUME UNCHANGED <<queue, done>>,
             pc'[t] \notin {"wait1", "wait2"}
      PROVE  \A u \in Procs : Answered(u)'
  BY <1>1, <1>2, <1>3 DEF Answered, Posted
<1>4. ASSUME UNCHANGED <<queue, slave_free>>,
             pc[t] \notin {"swap", "post", "post1"}
      PROVE  ClaimServed'
  <2>1. \A u \in Procs : pc[u] \in {"swap", "post", "post1"} =>
                             pc'[u] \in {"swap", "post", "post1"}
    BY <1>1, <1>4
  <2> QED
    BY <1>1, <1>2, <1>4, <2>1 DEF ClaimServed, Posted
<1>5. ASSUME pc'[t] \in {"swap", "post", "post1"}
      PROVE  ClaimServed'
  BY <1>5 DEF ClaimServed
<1>6. CASE \/ LogCall(t) \/ Encode(t) \/ PushHeader(t) \/ PushBody(t)
           \/ NeedCacheToFile(t)
  <2>1. /\ UNCHANGED <<queue, done, slave_free>>
        /\ pc[t] \in {"idle", "encode", "push_header", "push_body", "need"}
        /\ pc'[t] \in {"idle", "encode", "push_header", "push_body", "need",
                       "load"}
    BY <1>2, <1>6 DEF LogCall, Encode, PushHeader, PushBody, NeedCacheToFile,
                      Goto
  <2>2. pc'[t] \notin {"wait1", "wait2"} /\ pc[t] \notin {"swap", "post", "post1"}
    BY <2>1
  <2> QED
    BY <1>3, <1>4, <2>1, <2>2, AnswerNext
<1>7. CASE FlushCall(t) \/ StoreSlaveFree(t) \/ SwapCache(t)
  <2>1. UNCHANGED <<queue, done>> /\ pc'[t] \in {"swap", "post", "post1"}
    BY <1>2, <1>7 DEF FlushCall, StoreSlaveFree, SwapCache, Goto
  <2>2. pc'[t] \notin {"wait1", "wait2"}
    BY <2>1
  <2> QED
    BY <1>3, <1>5, <2>1, <2>2, AnswerNext
<1>8. CASE LoadSlaveFree(t)
  <2>1. /\ UNCHANGED <<queue, done, slave_free>> /\ pc[t] = "load"
        /\ pc'[t] \in {"store", "post"}
    BY <1>2, <1>8 DEF LoadSlaveFree, Goto
  <2>2. pc'[t] \notin {"wait1", "wait2"} /\ pc[t] \notin {"swap", "post", "post1"}
    BY <2>1
  <2> QED
    BY <1>3, <1>4, <2>1, <2>2, AnswerNext
<1>9. CASE PrepareToFile(t) \/ PrepareSlave(t)
  <2>1. /\ queue' = Append(queue, CacheTask) /\ UNCHANGED <<done, slave_free>>
    BY <1>9 DEF PrepareToFile, PrepareSlave
  <2>2. Posted(CacheTask)' /\ \A y : Posted(y) => Posted(y)'
    BY <1>2, <2>1, PostedAppend, TaskType
  <2>3. ClaimServed'
    BY <2>2 DEF ClaimServed
  <2>4. pc'[t] \notin {"wait1", "wait2"}
    <3>1. CASE PrepareSlave(t)
      BY <1>2, <3>1 DEF PrepareSlave, Goto
    <3>2. CASE PrepareToFile(t)
      <4>1. op[t] \in {"ctor", "log", "flush"}
        BY DEF TypeOK
      <4>2. pc'[t] \in {"idle", "drain2", "done"}
        BY <1>2, <3>2, <4>1 DEF PrepareToFile, Goto
      <4> QED
        BY <4>2
    <3> QED
      BY <1>9, <3>1, <3>2
  <2>5. \A u \in Procs : Answered(u)'
    BY <1>1, <1>2, <2>1, <2>2, <2>4 DEF Answered
  <2> QED
    BY <2>3, <2>5, AnswerNext
<1>10. CASE PostIdle(t)
  <2>1. /\ queue' = Append(queue, IdleTask(t)) /\ UNCHANGED <<done, slave_free>>
        /\ pc[t] \in {"drain1", "drain2"}
    BY <1>10 DEF PostIdle, Goto
  <2>2. Posted(IdleTask(t))' /\ \A y : Posted(y) => Posted(y)'
    BY <1>2, <2>1, PostedAppend, TaskType
  <2>3. \A u \in Procs : Answered(u)'
    BY <1>1, <1>2, <2>1, <2>2 DEF Answered
  <2>4. \A u \in Procs : pc[u] \in {"swap", "post", "post1"} =>
                             pc'[u] \in {"swap", "post", "post1"}
    BY <1>1, <2>1
  <2>5. ClaimServed'
    BY <1>1, <1>2, <2>1, <2>2, <2>4 DEF ClaimServed
  <2> QED
    BY <2>3, <2>5, AnswerNext
<1>11. CASE AwaitSlave(t) \/ AwaitMaster(t)
  <2>1. /\ UNCHANGED <<queue, slave_free>> /\ done' = done \ {t}
        /\ pc[t] \in {"wait1", "wait2"}
        /\ pc'[t] \in {"recover_master", "load", "idle"}
    BY <1>2, <1>11 DEF AwaitSlave, AwaitMaster, Goto
  <2>2. \A u \in Procs : Answered(u)'
    BY <1>1, <1>2, <2>1 DEF Answered, Posted
  <2>3. pc[t] \notin {"swap", "post", "post1"}
    BY <2>1
  <2> QED
    BY <1>4, <2>1, <2>2, <2>3, AnswerNext
<1> QED
  BY <1>6, <1>7, <1>8, <1>9, <1>10, <1>11 DEF Continue

\* Every step keeps what AnswerComes says: the worker pops a task only to
\* run it, and leaves CacheToFile_ only with the slave free.
LEMMA AnswerStep ==
    ASSUME TypeOK, AnswerComes, [Next]_vars
    PROVE  AnswerComes'
<1>1. /\ pc \in [Procs -> PCs] /\ queue \in Seq(Task)
      /\ Ctor \in Procs
      /\ \A u \in Procs : Answered(u)
      /\ ClaimServed
  BY AnswerHalves DEF TypeOK, Procs
<1>2. CASE Recover
  <2>1. /\ UNCHANGED <<queue, done, rpc>>
        /\ pc[Ctor] \in {"open", "recover_slave", "recover_master"}
        /\ \A u \in Procs : u # Ctor => pc'[u] = pc[u]
        /\ \/ slave_free' = slave_free /\ pc'[Ctor] \in {"recover_slave",
                  "recover_master", "load", "done"}
           \/ pc'[Ctor] = "post1"
    BY <1>1, <1>2 DEF Recover, Construct, RecoverSlave, RecoverMaster, Goto,
                      runner
  <2>2. \A u \in Procs : Answered(u)'
    BY <1>1, <2>1 DEF Answered, Posted
  <2>3. \A u \in Procs : pc[u] \in {"swap", "post", "post1"} =>
                             pc'[u] \in {"swap", "post", "post1"}
    BY <1>1, <2>1
  <2>4. ClaimServed'
    <3>1. CASE pc'[Ctor] = "post1"
      BY <1>1, <3>1 DEF ClaimServed
    <3>2. CASE slave_free' = slave_free
      BY <1>1, <2>1, <2>3, <3>2 DEF ClaimServed, Posted
    <3> QED
      BY <2>1, <3>1, <3>2
  <2> QED
    BY <2>2, <2>4, AnswerNext
<1>3. CASE TakeTask
  <2>1. /\ rpc = "idle" /\ queue # <<>> /\ queue' = Tail(queue)
        /\ UNCHANGED <<pc, slave_free>>
        /\ \/ /\ Head(queue).task = "cache_to_file"
              /\ rpc' = "check_free" /\ UNCHANGED done
           \/ /\ Head(queue).task = "idle"
              /\ done' = done \cup {Head(queue).who}
              /\ UNCHANGED rpc
    BY <1>3 DEF TakeTask
  <2>2. Head(queue) \in Task
    BY <1>1, <2>1
  <2>3. \A y : Posted(y) /\ y # Head(queue) => Posted(y)'
    BY <1>1, <2>1, PostedTail
  <2>4. CASE /\ Head(queue).task = "cache_to_file"
             /\ rpc' = "check_free" /\ UNCHANGED done
    <3>1. Head(queue) = CacheTask
      BY <2>2, <2>4, TaskKinds
    <3>2. \A u \in Procs : Answered(u)'
      BY <1>1, <2>1, <2>3, <2>4, <3>1, TasksApart DEF Answered
    <3> QED
      BY <2>4, <3>2, AnswerNext DEF ClaimServed
  <2>5. CASE /\ Head(queue).task = "idle"
             /\ done' = done \cup {Head(queue).who}
             /\ UNCHANGED rpc
    <3>1. Head(queue).who \in Procs /\ Head(queue) = IdleTask(Head(queue).who)
      BY <2>2, <2>5, TaskKinds
    <3>2. \A u \in Procs : Answered(u)'
      <4> SUFFICES ASSUME NEW u \in Procs, pc[u] \in {"wait1", "wait2"}
                   PROVE  u \in done' \/ Posted(IdleTask(u))'
        BY <2>1 DEF Answered, Posted
      <4>1. CASE u \in done
        BY <2>5, <4>1
      <4>2. CASE Posted(IdleTask(u)) /\ IdleTask(u) # Head(queue)
        BY <2>3, <4>2
      <4>3. CASE IdleTask(u) = Head(queue)
        <5>1. u = Head(queue).who
          BY <3>1, <4>3, TasksApart
        <5> QED
          BY <2>5, <5>1
      <4> QED
        BY <1>1, <4>1, <4>2, <4>3 DEF Answered
    <3>3. CacheTask # Head(queue)
      BY <3>1, TasksApart
    <3>4. ClaimServed'
      BY <1>1, <2>1, <2>3, <2>5, <3>3 DEF ClaimServed
    <3> QED
      BY <3>2, <3>4, AnswerNext
  <2> QED
    BY <2>1, <2>4, <2>5
<1>4. CASE CacheToFile /\ ~TakeTask
  <2>1. /\ UNCHANGED <<pc, queue, done>>
        /\ slave_free => slave_free'
        /\ rpc # "idle" => rpc' # "idle" \/ slave_free'
    BY <1>4, WorkerFrees
  <2>2. \A u \in Procs : Answered(u)'
    BY <1>1, <2>1 DEF Answered, Posted
  <2>3. ClaimServed'
    BY <1>1, <2>1 DEF ClaimServed, Posted
  <2> QED
    BY <2>2, <2>3, AnswerNext
<1>5. CASE Crash
  <2>1. slave_free' = TRUE /\ \A u \in Procs : pc'[u] \in {"open", "idle"}
    BY <1>5 DEF Crash
  <2> QED
    BY <2>1, AnswerNext DEF Answered, ClaimServed
<1>6. CASE UNCHANGED vars
  <2>1. UNCHANGED <<pc, queue, done, slave_free, rpc>>
    BY <1>6 DEF vars, runner
  <2> QED
    BY <2>1 DEF AnswerComes
<1> QED
  BY <1>2, <1>3, <1>4, <1>5, <1>6, AnswerByThread DEF Next, Procs

\* Nobody waits for nothing, for any number of threads and crashes and even
\* when the window is overlapped or writes fail: what every thread in
\* WAIT_TASK_IDLE waits for is in the queue, and a claimed slave has a
\* CacheToFile_ that frees it.
THEOREM NobodyWaitsForNothing == Spec => []AnswerComes
<1>1. Init => AnswerComes
  BY DEF Init, AnswerComes
<1>2. TypeOK /\ AnswerComes /\ [Next]_vars => AnswerComes'
  BY AnswerStep
<1> QED
  BY TypeCorrect, <1>1, <1>2, PTL DEF Spec
=============================================================================
