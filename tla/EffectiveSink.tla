--------------------------- MODULE EffectiveSink ---------------------------
(***************************************************************************)
(* logger::EffectiveSink (effective_sink.cpp): caller threads append       *)
(* encrypted items to the cache master_ points to; when it is 80% full, or *)
(* on Flush, master_ and slave_ are swapped and the task runner's only     *)
(* worker writes the slave to the log file as one chunk.  The two caches   *)
(* are MMapAux files, so they survive a crash, and the constructor of the  *)
(* next process writes what it finds in them.                              *)
(*                                                                         *)
(* The steps of a thread are separated wherever another thread can see the *)
(* difference: the atomic slave_free_ is loaded and stored in two steps    *)
(* (lines 97-98, 119-120), SwapCache_ takes mtx_ on its own (line 139),    *)
(* and CacheToFile_ reads slave_ anew at every use, without mtx_.          *)
(***************************************************************************)
EXTENDS MMapBuffer, FiniteSets

CONSTANTS
    Threads,      \* the threads that call Log and Flush
    Ctor,         \* the thread that runs the constructor of each process
    NoThread,     \* mtx_ is not held
    MaxItems,     \* bound: calls of Log
    MaxFlushes,   \* bound: calls of Flush
    MaxRuns,      \* bound: processes, one more than the number of crashes
    IOMayFail,    \* whether one write to the log file may fail
    NameMayClash  \* whether a rotation may find its file name taken

ASSUME SinkAssumption ==
    /\ Ctor \notin Threads
    /\ NoThread \notin Threads \cup {Ctor}
    /\ MaxItems \in Nat
    /\ MaxFlushes \in Nat
    /\ MaxRuns \in Nat
    /\ IOMayFail \in BOOLEAN
    /\ NameMayClash \in BOOLEAN

Procs  == Threads \cup {Ctor}
Caches == {"master_cache", "slave_cache"}    \* the two file names

VARIABLES
    pc,           \* where each thread is in Log, Flush or the constructor
    op,           \* which of the three it runs
    mtx,          \* holder of mtx_
    master,       \* the cache master_ points to
    slave,        \* the cache slave_ points to
    buf,          \* the content of the two cache files
    slave_free,   \* slave_free_
    queue,        \* the tasks posted to the runner, oldest first
    done,         \* threads whose WAIT_TASK_IDLE future is ready
    rpc,          \* where the worker is in CacheToFile_
    chunk_size,   \* chunk_header.size, read before the chunk is written
    file,         \* the chunks written, in the order of writing
    key,          \* client key pair of this process: one per constructor
    nextId,       \* items numbered so far, in the order of mtx_
    flushes,      \* calls of Flush so far
    accepted,     \* history: items whose body Log has pushed
    base,         \* history: what was accepted when a thread called Flush
    promised,     \* history: the bases of the Flush calls that returned
    raced,        \* history: a window was overlapped (see Window)
    ioFailed      \* history: a write to the log file failed

caches  == <<master, slave, buf>>
runner  == <<rpc, chunk_size, file>>
history == <<flushes, accepted, base, promised, raced, ioFailed>>
vars    == <<pc, op, mtx, caches, slave_free, queue, done, runner, key,
             nextId, history>>

-----------------------------------------------------------------------------
(* Items, tasks and chunks. *)

\* What one Push puts into a cache: an ItemHeader or an encrypted body.
Token == [part : {"header", "body", "stale"}, id : Nat, key : Nat]

ItemHeader(i) == [part |-> "header", id |-> i, key |-> key]
ItemBody(i)   == [part |-> "body", id |-> i, key |-> key]

\* Bytes beyond the logical size of a cache.
Stale == [part |-> "stale", id |-> 0, key |-> 0]

\* A chunk of the log file: ChunkHeader (size and client public key) and
\* the data that followed it; it is whole when all of size was written.
Chunk == [key : Nat, size : Nat, data : Seq(Token)]

NewChunk == [key |-> key, size |-> chunk_size, data |-> <<>>]

\* CacheToFile_, or the empty task of WAIT_TASK_IDLE called by who.
CacheTask   == [task |-> "cache_to_file", who |-> NoThread]
IdleTask(t) == [task |-> "idle", who |-> t]
Task        == {CacheTask} \cup {IdleTask(t) : t \in Procs}

Buffer == [data : Seq(Token), cap : Nat]

PCs == {"open", "recover_slave", "recover_master", "done", "idle", "encode",
        "push_header", "push_body", "need", "load", "store", "swap", "post",
        "post1", "drain1", "wait1", "drain2", "wait2"}

RunnerPCs == {"idle", "check_free", "check_empty", "read_size", "update_path",
              "spin", "write_header", "write_data", "clear", "store_free"}

TypeOK ==
    /\ pc \in [Procs -> PCs]
    /\ op \in [Procs -> {"ctor", "log", "flush"}]
    /\ mtx \in Procs \cup {NoThread}
    /\ master \in Caches
    /\ slave \in Caches
    /\ buf \in [Caches -> Buffer]
    /\ slave_free \in BOOLEAN
    /\ queue \in Seq(Task)
    /\ done \in SUBSET Procs
    /\ rpc \in RunnerPCs
    /\ chunk_size \in Nat
    /\ file \in Seq(Chunk)
    /\ key \in Nat
    /\ nextId \in Nat
    /\ flushes \in Nat
    /\ accepted \in SUBSET Nat
    /\ base \in [Procs -> SUBSET Nat]
    /\ promised \in SUBSET Nat
    /\ raced \in BOOLEAN
    /\ ioFailed \in BOOLEAN

-----------------------------------------------------------------------------
(***************************************************************************)
(* A thread is in the window when it has seen slave_free_ true and has not *)
(* swapped yet.  The code protects the window by nothing: it is overlapped *)
(* when a second thread enters it, or when the worker finds slave_free_    *)
(* false because of the thread in it.  raced records that this happened.   *)
(***************************************************************************)
Window(t) == pc[t] \in {"store", "swap"}

Init ==
    /\ pc = [t \in Procs |-> IF t = Ctor THEN "open" ELSE "idle"]
    /\ op = [t \in Procs |-> IF t = Ctor THEN "ctor" ELSE "log"]
    /\ mtx = NoThread
    /\ master = "master_cache"
    /\ slave = "slave_cache"
    /\ buf = [c \in Caches |-> NoFile]
    /\ slave_free = TRUE
    /\ queue = <<>>
    /\ done = {}
    /\ rpc = "idle"
    /\ chunk_size = 0
    /\ file = <<>>
    /\ key = 0
    /\ nextId = 0
    /\ flushes = 0
    /\ accepted = {}
    /\ base = [t \in Procs |-> {}]
    /\ promised = {}
    /\ raced = FALSE
    /\ ioFailed = FALSE

Goto(t, from, to) ==
    /\ pc[t] = from
    /\ pc' = [pc EXCEPT ![t] = to]

-----------------------------------------------------------------------------
(* The constructor (lines 40-70). *)

\* Generate the key pair of this process and map the two caches by name.
Construct ==
    /\ Goto(Ctor, "open", "recover_slave")
    /\ key' = key + 1
    /\ buf' = [c \in Caches |-> Open(buf[c])]
    /\ UNCHANGED <<op, mtx, master, slave, slave_free, queue, done, runner,
                   nextId, history>>

\* Mutant: the constructor forgets to mark the slave as busy.
RecoverSlave_StillFree ==
    /\ \/ ~Empty(buf[slave]) /\ Goto(Ctor, "recover_slave", "post1")
       \/ Empty(buf[slave]) /\ Goto(Ctor, "recover_slave", "recover_master")
    /\ UNCHANGED <<op, mtx, caches, slave_free, queue, done, runner, key,
                   nextId, history>>

\* A slave that is not empty is written first, and waited for.
RecoverSlave ==
    /\ \/ /\ ~Empty(buf[slave])
          /\ Goto(Ctor, "recover_slave", "post1")
          /\ slave_free' = FALSE
       \/ /\ Empty(buf[slave])
          /\ Goto(Ctor, "recover_slave", "recover_master")
          /\ UNCHANGED slave_free
    /\ UNCHANGED <<op, mtx, caches, queue, done, runner, key, nextId, history>>

\* A master that is not empty is swapped and written in the background.
RecoverMaster ==
    /\ \/ ~Empty(buf[master]) /\ Goto(Ctor, "recover_master", "load")
       \/ Empty(buf[master]) /\ Goto(Ctor, "recover_master", "done")
    /\ UNCHANGED <<op, mtx, caches, slave_free, queue, done, runner, key,
                   nextId, history>>

-----------------------------------------------------------------------------
(* Log (lines 74-103). *)

\* Format the message into the thread's own buffer.
LogCall(t) ==
    /\ pc[Ctor] = "done"
    /\ nextId + Cardinality({u \in Threads : pc[u] = "encode"}) < MaxItems
    /\ Goto(t, "idle", "encode")
    /\ op' = [op EXCEPT ![t] = "log"]
    /\ UNCHANGED <<mtx, caches, slave_free, queue, done, runner, key, nextId,
                   history>>

\* Take mtx_, compress and encrypt; either may fail, and Log returns.
Encode(t) ==
    /\ mtx = NoThread
    /\ nextId' = nextId + 1
    /\ \/ Goto(t, "encode", "push_header") /\ mtx' = t
       \/ Goto(t, "encode", "idle") /\ UNCHANGED mtx
    /\ UNCHANGED <<op, caches, slave_free, queue, done, runner, key, history>>

\* WriteToCache_ pushes the item in two calls.
PushHeader(t) ==
    /\ Goto(t, "push_header", "push_body")
    /\ buf' = [buf EXCEPT ![master] = Push(@, ItemHeader(nextId))]
    /\ UNCHANGED <<op, mtx, master, slave, slave_free, queue, done, runner,
                   key, nextId, history>>

\* The second push ends the critical section.
PushBody(t) ==
    /\ Goto(t, "push_body", "need")
    /\ buf' = [buf EXCEPT ![master] = Push(@, ItemBody(nextId))]
    /\ mtx' = NoThread
    /\ accepted' = accepted \cup {nextId}
    /\ UNCHANGED <<op, master, slave, slave_free, queue, done, runner, key,
                   nextId, flushes, base, promised, raced, ioFailed>>

\* NeedCacheToFile_ looks at whatever master_ is now, without mtx_.
NeedCacheToFile(t) ==
    /\ \/ RatioAbove80(buf[master]) /\ Goto(t, "need", "load")
       \/ ~RatioAbove80(buf[master]) /\ Goto(t, "need", "idle")
    /\ UNCHANGED <<op, mtx, caches, slave_free, queue, done, runner, key,
                   nextId, history>>

-----------------------------------------------------------------------------
(* The steps Log, Flush and the constructor share. *)

\* Mutant: swap whether or not the slave is free.
LoadSlaveFree_NoCheck(t) ==
    /\ Goto(t, "load", "store")
    /\ raced' = (raced \/ \E u \in Procs \ {t} : Window(u))
    /\ UNCHANGED <<op, mtx, caches, slave_free, queue, done, runner, key,
                   nextId, flushes, accepted, base, promised, ioFailed>>

\* if (slave_free_.load())
LoadSlaveFree(t) ==
    /\ \/ /\ slave_free
          /\ Goto(t, "load", "store")
          /\ raced' = (raced \/ \E u \in Procs \ {t} : Window(u))
       \/ /\ ~slave_free
          /\ Goto(t, "load", "post")
          /\ UNCHANGED raced
    /\ UNCHANGED <<op, mtx, caches, slave_free, queue, done, runner, key,
                   nextId, flushes, accepted, base, promised, ioFailed>>

\* slave_free_.store(false)
StoreSlaveFree(t) ==
    /\ Goto(t, "store", "swap")
    /\ slave_free' = FALSE
    /\ UNCHANGED <<op, mtx, caches, queue, done, runner, key, nextId, history>>

\* Mutant: SwapCache_ does not take mtx_.
SwapCache_NoLock(t) ==
    /\ Goto(t, "swap", "post")
    /\ master' = slave
    /\ slave' = master
    /\ UNCHANGED <<op, mtx, buf, slave_free, queue, done, runner, key, nextId,
                   history>>

\* SwapCache_
SwapCache(t) ==
    /\ mtx = NoThread
    /\ Goto(t, "swap", "post")
    /\ master' = slave
    /\ slave' = master
    /\ UNCHANGED <<op, mtx, buf, slave_free, queue, done, runner, key, nextId,
                   history>>

\* PrepareToFile_; Log and the constructor do not wait for the task.
PrepareToFile(t) ==
    /\ Goto(t, "post", CASE op[t] = "log"   -> "idle"
                         [] op[t] = "flush" -> "drain2"
                         [] op[t] = "ctor"  -> "done")
    /\ queue' = Append(queue, CacheTask)
    /\ UNCHANGED <<op, mtx, caches, slave_free, done, runner, key, nextId,
                   history>>

-----------------------------------------------------------------------------
(* Flush (lines 113-125), and the first half of it in the constructor. *)

FlushCall(t) ==
    /\ pc[Ctor] = "done"
    /\ flushes < MaxFlushes
    /\ flushes' = flushes + 1
    /\ Goto(t, "idle", "post1")
    /\ op' = [op EXCEPT ![t] = "flush"]
    /\ base' = [base EXCEPT ![t] = accepted]
    /\ UNCHANGED <<mtx, caches, slave_free, queue, done, runner, key, nextId,
                   accepted, promised, raced, ioFailed>>

\* Mutant: Flush does not wait for the slave before it looks at slave_free_.
PrepareSlave_NoWait(t) ==
    /\ Goto(t, "post1", IF t = Ctor THEN "drain1" ELSE "load")
    /\ queue' = Append(queue, CacheTask)
    /\ UNCHANGED <<op, mtx, caches, slave_free, done, runner, key, nextId,
                   history>>

\* PrepareToFile_ for the slave.
PrepareSlave(t) ==
    /\ Goto(t, "post1", "drain1")
    /\ queue' = Append(queue, CacheTask)
    /\ UNCHANGED <<op, mtx, caches, slave_free, done, runner, key, nextId,
                   history>>

\* WAIT_TASK_IDLE posts an empty task ...
PostIdle(t) ==
    /\ Goto(t, "drain1", "wait1") \/ Goto(t, "drain2", "wait2")
    /\ queue' = Append(queue, IdleTask(t))
    /\ UNCHANGED <<op, mtx, caches, slave_free, done, runner, key, nextId,
                   history>>

\* ... and waits for its future.
AwaitSlave(t) ==
    /\ t \in done
    /\ Goto(t, "wait1", IF t = Ctor THEN "recover_master" ELSE "load")
    /\ done' = done \ {t}
    /\ UNCHANGED <<op, mtx, caches, slave_free, queue, runner, key, nextId,
                   history>>

\* Flush returns.
AwaitMaster(t) ==
    /\ t \in done
    /\ Goto(t, "wait2", "idle")
    /\ done' = done \ {t}
    /\ promised' = promised \cup base[t]
    /\ UNCHANGED <<op, mtx, caches, slave_free, queue, runner, key, nextId,
                   flushes, accepted, base, raced, ioFailed>>

-----------------------------------------------------------------------------
(* The runner's worker: CacheToFile_ (lines 143-167). *)

\* Mutant: the waiting threads share one future.
TakeTask_OneFuture ==
    /\ rpc = "idle"
    /\ queue # <<>>
    /\ queue' = Tail(queue)
    /\ \/ /\ Head(queue).task = "cache_to_file"
          /\ rpc' = "check_free"
          /\ UNCHANGED done
       \/ /\ Head(queue).task = "idle"
          /\ done' = {Head(queue).who}
          /\ UNCHANGED rpc
    /\ UNCHANGED <<pc, op, mtx, caches, slave_free, chunk_size, file, key,
                   nextId, history>>

\* The worker of the ThreadPool pops the oldest task.
TakeTask ==
    /\ rpc = "idle"
    /\ queue # <<>>
    /\ queue' = Tail(queue)
    /\ \/ /\ Head(queue).task = "cache_to_file"
          /\ rpc' = "check_free"
          /\ UNCHANGED done
       \/ /\ Head(queue).task = "idle"
          /\ done' = done \cup {Head(queue).who}
          /\ UNCHANGED rpc
    /\ UNCHANGED <<pc, op, mtx, caches, slave_free, chunk_size, file, key,
                   nextId, history>>

RunnerGoto(from, to) ==
    /\ rpc = from
    /\ rpc' = to

\* if (slave_free_.load()) return;
CheckFree ==
    /\ \/ slave_free /\ RunnerGoto("check_free", "idle") /\ UNCHANGED raced
       \/ /\ ~slave_free
          /\ RunnerGoto("check_free", "check_empty")
          /\ raced' = (raced \/ \E t \in Procs : Window(t))
    /\ UNCHANGED <<pc, op, mtx, caches, slave_free, queue, done, chunk_size,
                   file, key, nextId, flushes, accepted, base, promised, ioFailed>>

\* Mutant: an empty slave is not handed back.
CheckEmpty_KeepBusy ==
    /\ \/ Empty(buf[slave]) /\ RunnerGoto("check_empty", "idle")
       \/ ~Empty(buf[slave]) /\ RunnerGoto("check_empty", "read_size")
    /\ UNCHANGED <<pc, op, mtx, caches, slave_free, queue, done, chunk_size,
                   file, key, nextId, history>>

\* An empty slave is handed back at once (lines 148-151).
CheckEmpty ==
    /\ \/ Empty(buf[slave]) /\ RunnerGoto("check_empty", "store_free")
       \/ ~Empty(buf[slave]) /\ RunnerGoto("check_empty", "read_size")
    /\ UNCHANGED <<pc, op, mtx, caches, slave_free, queue, done, chunk_size,
                   file, key, nextId, history>>

\* Mutant: the size is taken to include the MMapHeader.
ReadSize_LessHeader ==
    /\ RunnerGoto("read_size", "update_path")
    /\ chunk_size' = Size(buf[slave]) - HeaderSize
    /\ UNCHANGED <<pc, op, mtx, caches, slave_free, queue, done, file, key,
                   nextId, history>>

\* chunk_header.size and the client public key (lines 153-155).
ReadSize ==
    /\ RunnerGoto("read_size", "update_path")
    /\ chunk_size' = Size(buf[slave])
    /\ UNCHANGED <<pc, op, mtx, caches, slave_free, queue, done, file, key,
                   nextId, history>>

(***************************************************************************)
(* UpdateFilePath_ names the file.  When a rotation finds the name of this *)
(* second taken, the loop of lines 194-196 tests the same candidate for    *)
(* ever.  Module LogFiles has the detail.                                  *)
(***************************************************************************)
UpdateFilePath ==
    /\ \/ RunnerGoto("update_path", "write_header")
       \/ NameMayClash /\ RunnerGoto("update_path", "spin")
    /\ UNCHANGED <<pc, op, mtx, caches, slave_free, queue, done, chunk_size,
                   file, key, nextId, history>>

(***************************************************************************)
(* The chunk header and the data reach the file one after the other; a     *)
(* crash in between leaves an incomplete chunk.  The state of the stream   *)
(* is never looked at: when the file cannot be opened, or only a part of   *)
(* the data can be written, CacheToFile_ goes on to Clear.                 *)
(***************************************************************************)
WriteHeader ==
    /\ \/ /\ RunnerGoto("write_header", "write_data")
          /\ file' = Append(file, NewChunk)
          /\ UNCHANGED ioFailed
       \/ /\ IOMayFail /\ ~ioFailed
          /\ RunnerGoto("write_header", "clear")
          /\ ioFailed' = TRUE
          /\ UNCHANGED file
    /\ UNCHANGED <<pc, op, mtx, caches, slave_free, queue, done, chunk_size,
                   key, nextId, flushes, accepted, base, promised, raced>>

WriteData ==
    /\ RunnerGoto("write_data", "clear")
    /\ \E n \in 0..chunk_size :
          /\ file' = [file EXCEPT ![Len(file)].data =
                          ReadOut(buf[slave], n, Stale)]
          /\ \/ n = chunk_size /\ UNCHANGED ioFailed
             \/ /\ n < chunk_size
                /\ IOMayFail /\ ~ioFailed
                /\ ioFailed' = TRUE
    /\ UNCHANGED <<pc, op, mtx, caches, slave_free, queue, done, chunk_size,
                   key, nextId, flushes, accepted, base, promised, raced>>

\* Mutant: the cache that is cleared is the one that was not written.
ClearSlave_Master ==
    /\ RunnerGoto("clear", "store_free")
    /\ buf' = [buf EXCEPT ![master] = Clear(@)]
    /\ UNCHANGED <<pc, op, mtx, master, slave, slave_free, queue, done,
                   chunk_size, file, key, nextId, history>>

ClearSlave ==
    /\ RunnerGoto("clear", "store_free")
    /\ buf' = [buf EXCEPT ![slave] = Clear(@)]
    /\ UNCHANGED <<pc, op, mtx, master, slave, slave_free, queue, done,
                   chunk_size, file, key, nextId, history>>

StoreFree ==
    /\ RunnerGoto("store_free", "idle")
    /\ slave_free' = TRUE
    /\ UNCHANGED <<pc, op, mtx, caches, queue, done, chunk_size, file, key,
                   nextId, history>>

-----------------------------------------------------------------------------
(***************************************************************************)
(* The process dies at any step after the constructor has begun.  The two  *)
(* cache files and the log file stay; everything else is gone, and the     *)
(* next process starts its constructor.                                    *)
(***************************************************************************)
Crash ==
    /\ pc[Ctor] # "open"
    /\ key < MaxRuns
    /\ pc' = [t \in Procs |-> IF t = Ctor THEN "open" ELSE "idle"]
    /\ op' = [t \in Procs |-> IF t = Ctor THEN "ctor" ELSE "log"]
    /\ mtx' = NoThread
    /\ master' = "master_cache"
    /\ slave' = "slave_cache"
    /\ slave_free' = TRUE
    /\ queue' = <<>>
    /\ done' = {}
    /\ rpc' = "idle"
    /\ chunk_size' = 0
    /\ base' = [t \in Procs |-> {}]
    /\ UNCHANGED <<buf, file, key, nextId, flushes, accepted, promised, raced,
                   ioFailed>>

-----------------------------------------------------------------------------
\* What a thread does on its own once it has begun a call.
Continue(t) ==
    \/ Encode(t) \/ PushHeader(t) \/ PushBody(t) \/ NeedCacheToFile(t)
    \/ LoadSlaveFree(t) \/ StoreSlaveFree(t) \/ SwapCache(t)
    \/ PrepareToFile(t) \/ PrepareSlave(t) \/ PostIdle(t)
    \/ AwaitSlave(t) \/ AwaitMaster(t)

Recover == Construct \/ RecoverSlave \/ RecoverMaster

CacheToFile ==
    \/ TakeTask \/ CheckFree \/ CheckEmpty \/ ReadSize
    \/ UpdateFilePath \/ WriteHeader \/ WriteData \/ ClearSlave \/ StoreFree

Next ==
    \/ Recover
    \/ \E t \in Threads : LogCall(t) \/ FlushCall(t)
    \/ \E t \in Procs : Continue(t)
    \/ CacheToFile
    \/ Crash

Spec == Init /\ [][Next]_vars

(***************************************************************************)
(* A started call and the worker keep running: the threads are ordinary    *)
(* threads and the runner of a sink is never stopped (Context is a leaked  *)
(* singleton).  Nobody has to call Log or Flush, and nothing has to crash. *)
(***************************************************************************)
Fairness ==
    /\ WF_vars(Recover)
    /\ \A t \in Procs : WF_vars(Continue(t))
    /\ WF_vars(CacheToFile)

FairSpec == Spec /\ Fairness

-----------------------------------------------------------------------------
(* Properties. *)

HasBody(data, i) ==
    \E j \in 1..Len(data) : data[j].part = "body" /\ data[j].id = i

OnFile(i)  == \E n \in 1..Len(file) : HasBody(file[n].data, i)
InCache(i) == \E c \in Caches : HasBody(buf[c].data, i)

\* The code's own discipline was not broken and the file system worked.
Undisturbed == ~raced /\ ~ioFailed

(***************************************************************************)
(* Nothing Log accepted is ever lost: it is in the log file or in a cache  *)
(* file, whatever the interleaving of callers and worker and wherever the  *)
(* process died, as long as the window was not overlapped and the writes   *)
(* to the log file succeeded.                                              *)
(***************************************************************************)
NothingLost == Undisturbed => \A i \in accepted : OnFile(i) \/ InCache(i)

(***************************************************************************)
(* Why nothing is lost: the discipline that slave_free_ stands for.  The   *)
(* conjuncts hold of the code only while the window was not overlapped.    *)
(***************************************************************************)
Active == {"check_empty", "read_size", "update_path", "spin", "write_header",
           "write_data", "clear", "store_free"}

\* The caller threads begin after the constructor.
CtorFirst == pc[Ctor] # "done" => \A t \in Threads : pc[t] = "idle"

\* Before the constructor has looked at the slave nothing runs.
RecoveryStart ==
    pc[Ctor] \in {"open", "recover_slave"} =>
        slave_free /\ rpc = "idle" /\ queue = <<>>

\* The worker is past its check only while the slave is claimed.
BusyWhileActive == rpc \in Active => ~slave_free

\* Whoever is in the window is alone and has the slave, which is empty.
WindowHoldsSlave ==
    ~raced =>
        /\ \A t, u \in Procs : Window(t) /\ Window(u) => t = u
        /\ \A t \in Procs : pc[t] = "store" => slave_free
        /\ \A t \in Procs : pc[t] = "swap" =>
               ~slave_free /\ Empty(buf[slave]) /\ rpc \notin Active

\* A free slave is empty, once the constructor has seen to it.
FreeIsEmpty ==
    ~raced =>
        /\ slave_free /\ pc[Ctor] \notin {"open", "recover_slave"} =>
               Empty(buf[slave])
        /\ rpc = "store_free" => Empty(buf[slave])

\* The slave does not change between reading its size and writing it.
ChunkIsSlave ==
    /\ ~raced /\ rpc \in {"update_path", "write_header", "write_data"} =>
           chunk_size = Size(buf[slave])
    /\ rpc = "write_data" => Len(file) > 0 /\ file[Len(file)].data = <<>>

\* What is about to be cleared is in the log file.
WrittenBeforeClear ==
    Undisturbed /\ rpc = "clear" =>
        \A j \in 1..Len(buf[slave].data) :
            buf[slave].data[j].part = "body" => OnFile(buf[slave].data[j].id)

SinkInv ==
    /\ TypeOK
    /\ master # slave
    /\ CtorFirst
    /\ RecoveryStart
    /\ BusyWhileActive
    /\ WindowHoldsSlave
    /\ FreeIsEmpty
    /\ ChunkIsSlave
    /\ WrittenBeforeClear
    /\ NothingLost

(***************************************************************************)
(* When Flush returns, everything accepted before the call is in the log   *)
(* file, also when other threads log, flush and swap meanwhile.            *)
(***************************************************************************)
FlushDurable == Undisturbed => \A i \in promised : OnFile(i)

(***************************************************************************)
(* Items reach the log file at most once and in the order in which Log     *)
(* took mtx_, whether or not a write fails: the two caches never overtake  *)
(* each other.  Only a chunk that a later process recovered may repeat     *)
(* items, or come after newer ones, because the recovery goes by the names *)
(* of the cache files and not by their roles; within a chunk the order     *)
(* always holds.                                                           *)
(***************************************************************************)
WrittenInOrder ==
    ~raced =>
        \A m, n \in 1..Len(file) :
            \A j \in 1..Len(file[m].data), k \in 1..Len(file[n].data) :
                (/\ m < n \/ (m = n /\ j < k)
                 /\ file[m].data[j].part = "body"
                 /\ file[n].data[k].part = "body")
                => \/ file[m].data[j].id < file[n].data[k].id
                   \/ m < n /\ file[n].key > file[n].data[k].key

(***************************************************************************)
(* The two pushes of WriteToCache_ are never torn apart: in what the log   *)
(* parser reads, a header is followed by the body of the same item and     *)
(* process, or ends the chunk (the process died between the pushes), and a *)
(* body follows its header.  This is what SwapCache_ takes mtx_ for.       *)
(***************************************************************************)
Framed(data) ==
    \A j \in 1..Len(data) :
        /\ data[j].part = "header" /\ j < Len(data) =>
               data[j + 1] = [data[j] EXCEPT !.part = "body"]
        /\ data[j].part = "body" =>
               j > 1 /\ data[j - 1] = [data[j] EXCEPT !.part = "header"]
        /\ data[j].part # "stale"

ItemFraming == ~raced => \A n \in 1..Len(file) : Framed(file[n].data)

(***************************************************************************)
(* The sink implements DurableLog, until the window is overlapped or a     *)
(* write fails: every step of a caller, the worker, the constructor or a   *)
(* crash is a step of the abstract log or leaves it alone.                 *)
(***************************************************************************)
Durable == INSTANCE DurableLog WITH
    Items    <- 1..MaxItems,
    pending  <- {i \in accepted : InCache(i) /\ ~OnFile(i)},
    written  <- {i \in accepted : OnFile(i)},
    flushing <- {t \in Threads : op[t] = "flush" /\ pc[t] # "idle"},
    base     <- [t \in Threads |-> base[t]],
    broken   <- ~Undisturbed

ImplementsDurableLog == Durable!Spec

(***************************************************************************)
(* Nobody waits for nothing, also after an overlap of the window.  A       *)
(* thread in WAIT_TASK_IDLE has its empty task in the queue or its future  *)
(* ready; and while slave_free_ is false the worker is in CacheToFile_, or *)
(* will be because of a task in the queue or a thread about to post one.   *)
(***************************************************************************)
AnswerComes ==
    /\ \A t \in Procs : pc[t] \in {"wait1", "wait2"} =>
           t \in done \/ \E q \in 1..Len(queue) : queue[q] = IdleTask(t)
    /\ ~slave_free =>
           \/ rpc # "idle"
           \/ \E q \in 1..Len(queue) : queue[q] = CacheTask
           \/ \E t \in Procs : pc[t] \in {"swap", "post", "post1"}

-----------------------------------------------------------------------------
(* What the code does not guarantee; each is shown to fail by a run. *)

(***************************************************************************)
(* The comments of Flush (lines 114 and 118): the slave, then the master,  *)
(* go to disk.  FlushDurable without the proviso that the window was not   *)
(* overlapped.                                                             *)
(***************************************************************************)
FlushWritesAll == ~ioFailed => \A i \in promised : OnFile(i)

(***************************************************************************)
(* The log can be decrypted with the client key of the chunk header, also  *)
(* what a later process recovered from the caches.                         *)
(***************************************************************************)
ChunkKeyDecrypts ==
    \A n \in 1..Len(file) : \A j \in 1..Len(file[n].data) :
        file[n].data[j].part = "body" => file[n].data[j].key = file[n].key

-----------------------------------------------------------------------------
(* Liveness. *)

\* Flush returns: the worker gets to both empty tasks.
FlushReturns ==
    \A t \in Threads : (pc[t] = "post1") ~> (pc[t] = "idle")

\* Whoever claims the slave hands it back: slave_free_ never stays false.
SlaveDrains == ~slave_free ~> slave_free

(***************************************************************************)
(* What the constructor finds in the caches gets into the log file, also   *)
(* when the process dies again during the recovery.                        *)
(***************************************************************************)
RecoveryWrites ==
    \A i \in 1..MaxItems :
        (pc[Ctor] = "open" /\ InCache(i)) ~> (OnFile(i) \/ raced)
=============================================================================
