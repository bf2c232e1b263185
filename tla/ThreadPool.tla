----------------------------- MODULE ThreadPool -----------------------------
(***************************************************************************)
(* logger::ctx::ThreadPool (threadpool.cpp): a task queue under mtx_ with  *)
(* the condition variable task_cv_, worker threads, and the two atomic     *)
(* flags that Start and Stop set without mtx_.  Clients post tasks with    *)
(* RunTask and RunRetTask; a single owner starts and stops the pool.  With *)
(* one worker this is the task runner behind POST_TASK and WAIT_TASK_IDLE  *)
(* (entry.hpp).                                                            *)
(***************************************************************************)
EXTENDS Integers, Sequences, FiniteSets

CONSTANTS
    Clients,     \* threads that post tasks
    Workers,     \* identities for the worker threads
    Nobody,      \* mtx_ is not held
    MaxTasks,    \* bound: calls of RunTask and RunRetTask
    MaxStarts    \* bound: times the owner starts the pool

ASSUME PoolAssumption ==
    /\ IsFiniteSet(Workers) /\ Workers # {}
    /\ IsFiniteSet(Clients)
    /\ Clients \cap Workers = {}
    /\ Nobody \notin Clients \cup Workers
    /\ MaxTasks \in Nat
    /\ MaxStarts \in Nat

VARIABLES
    thread_count,   \* thread_count_, fixed by the constructor
    mtx,            \* holder of mtx_; only workers hold it over several steps
    tasks,          \* tasks_
    is_shutdown,    \* is_shutdown_
    is_available,   \* is_available_
    waiting,        \* workers blocked in task_cv_
    workers,        \* workers_: the threads that run or are to be joined
    wpc,            \* where each worker is
    hand,           \* the task each worker has popped, 0 for none
    opc,            \* where the owner is in Start or Stop
    cpc,            \* where each client is in EnqueueTask_
    mine,           \* the task each client is posting
    wants,          \* whether it called RunRetTask and waits on the future
    calls,          \* tasks numbered so far
    starts,         \* calls of Start so far
    posted,         \* history: the tasks in the order of tasks_.emplace
    ran,            \* history: the tasks in the order they were finished
    covered,        \* history: clients' waits that ended, with what was posted
    missed          \* history: a notify_all came before a worker's wait

flags == <<is_shutdown, is_available>>
pool  == <<mtx, tasks, flags, waiting, workers, wpc, hand>>
owner == <<opc, starts, thread_count>>
users == <<cpc, mine, wants, calls>>
hist  == <<posted, ran, covered, missed>>
vars  == <<pool, owner, users, hist>>

Tasks == 1..MaxTasks

TypeOK ==
    /\ thread_count \in 1..Cardinality(Workers)
    /\ mtx \in Workers \cup {Nobody}
    /\ tasks \in Seq(Nat)
    /\ is_shutdown \in BOOLEAN
    /\ is_available \in BOOLEAN
    /\ waiting \subseteq Workers
    /\ workers \subseteq Workers
    /\ wpc \in [Workers -> {"none", "lock", "pred", "sleep", "wait", "check",
                            "run", "exit"}]
    /\ hand \in [Workers -> Nat]
    /\ opc \in {"idle", "start", "spawn", "stop", "notify", "join"}
    /\ cpc \in [Clients -> {"idle", "shutdown", "available", "emplace",
                            "notify", "future"}]
    /\ mine \in [Clients -> Nat]
    /\ wants \in [Clients -> BOOLEAN]
    /\ calls \in Nat
    /\ starts \in Nat
    /\ posted \in Seq(Nat)
    /\ ran \in Seq(Nat)
    /\ covered \in SUBSET Nat
    /\ missed \in BOOLEAN

Init ==
    /\ thread_count \in 1..Cardinality(Workers)
    /\ mtx = Nobody
    /\ tasks = <<>>
    /\ is_shutdown = FALSE
    /\ is_available = FALSE
    /\ waiting = {}
    /\ workers = {}
    /\ wpc = [w \in Workers |-> "none"]
    /\ hand = [w \in Workers |-> 0]
    /\ opc = "idle"
    /\ cpc = [c \in Clients |-> "idle"]
    /\ mine = [c \in Clients |-> 0]
    /\ wants = [c \in Clients |-> FALSE]
    /\ calls = 0
    /\ starts = 0
    /\ posted = <<>>
    /\ ran = <<>>
    /\ covered = {}
    /\ missed = FALSE

ElementsOf(s) == {s[i] : i \in 1..Len(s)}

-----------------------------------------------------------------------------
(* Start and Stop. *)

\* The compare_exchange of Start; a pool that is available stays as it is.
Start ==
    /\ opc = "idle"
    /\ starts < MaxStarts
    /\ starts' = starts + 1
    /\ \/ ~is_available /\ is_available' = TRUE /\ opc' = "start"
       \/ is_available /\ UNCHANGED <<is_available, opc>>
    /\ UNCHANGED <<mtx, tasks, is_shutdown, waiting, workers, wpc, hand,
                   users, hist, thread_count>>

ClearShutdown ==
    /\ opc = "start"
    /\ opc' = "spawn"
    /\ is_shutdown' = FALSE
    /\ UNCHANGED <<mtx, tasks, is_available, waiting, workers, wpc, hand,
                   starts, users, hist, thread_count>>

\* AddThread_, thread_count_ times; which identity a thread gets is of no
\* importance.
AddThread ==
    /\ opc = "spawn"
    /\ LET w == CHOOSE w \in Workers : w \notin workers
       IN  /\ workers' = workers \cup {w}
           /\ wpc' = [wpc EXCEPT ![w] = "lock"]
    /\ opc' = IF Cardinality(workers') = thread_count THEN "idle" ELSE "spawn"
    /\ UNCHANGED <<mtx, tasks, flags, waiting, hand, starts, users, hist,
                   thread_count>>

\* The compare_exchange of Stop; workers_ of a stopped pool are joined too.
Stop ==
    /\ opc = "idle"
    /\ \/ is_available /\ is_available' = FALSE /\ opc' = "stop"
       \/ ~is_available /\ opc' = "join" /\ UNCHANGED is_available
    /\ UNCHANGED <<mtx, tasks, is_shutdown, waiting, workers, wpc, hand,
                   starts, users, hist, thread_count>>

\* is_shutdown_.store(true), without mtx_.
SetShutdown ==
    /\ opc = "stop"
    /\ opc' = "notify"
    /\ is_shutdown' = TRUE
    /\ UNCHANGED <<mtx, tasks, is_available, waiting, workers, wpc, hand,
                   starts, users, hist, thread_count>>

\* Mutant: Stop wakes one worker only.
NotifyAll_One ==
    /\ opc = "notify"
    /\ opc' = "join"
    /\ \/ waiting = {} /\ UNCHANGED <<waiting, wpc>>
       \/ \E w \in waiting :
             /\ waiting' = waiting \ {w}
             /\ wpc' = [wpc EXCEPT ![w] = "lock"]
    /\ missed' = (missed \/ \E w \in Workers : wpc[w] = "sleep")
    /\ UNCHANGED <<mtx, tasks, flags, workers, hand, starts, users, posted,
                   ran, covered, thread_count>>

\* task_cv_.notify_all(): a worker that has evaluated the predicate and does
\* not wait yet is not woken.
NotifyAll ==
    /\ opc = "notify"
    /\ opc' = "join"
    /\ waiting' = {}
    /\ wpc' = [w \in Workers |-> IF w \in waiting THEN "lock" ELSE wpc[w]]
    /\ missed' = (missed \/ \E w \in Workers : wpc[w] = "sleep")
    /\ UNCHANGED <<mtx, tasks, flags, workers, hand, starts, users, posted,
                   ran, covered, thread_count>>

\* workers_.clear(): the destructor of ThreadInfo joins each thread.
Join ==
    /\ opc = "join"
    /\ \A w \in workers : wpc[w] = "exit"
    /\ workers' = {}
    /\ wpc' = [w \in Workers |-> "none"]
    /\ opc' = "idle"
    /\ UNCHANGED <<mtx, tasks, flags, waiting, hand, starts, users, hist,
                   thread_count>>

-----------------------------------------------------------------------------
(* EnqueueTask_, for RunTask and RunRetTask. *)

Post(c) ==
    /\ cpc[c] = "idle"
    /\ calls < MaxTasks
    /\ calls' = calls + 1
    /\ mine' = [mine EXCEPT ![c] = calls + 1]
    /\ \E b \in BOOLEAN : wants' = [wants EXCEPT ![c] = b]
    /\ cpc' = [cpc EXCEPT ![c] = "shutdown"]
    /\ UNCHANGED <<pool, owner, hist>>

\* The call goes on at to, or returns.
Goto(c, to) ==
    /\ cpc' = [cpc EXCEPT ![c] = to]
    /\ UNCHANGED <<mine, wants>>

Return(c) ==
    /\ cpc' = [cpc EXCEPT ![c] = "idle"]
    /\ mine' = [mine EXCEPT ![c] = 0]
    /\ wants' = [wants EXCEPT ![c] = FALSE]

\* The two flags are read one after the other, without mtx_; a pool that is
\* not running refuses the task.
ReadShutdown(c) ==
    /\ cpc[c] = "shutdown"
    /\ IF is_shutdown THEN Return(c) ELSE Goto(c, "available")
    /\ UNCHANGED <<pool, owner, calls, hist>>

ReadAvailable(c) ==
    /\ cpc[c] = "available"
    /\ IF is_available THEN Goto(c, "emplace") ELSE Return(c)
    /\ UNCHANGED <<pool, owner, calls, hist>>

\* Mutant: the new task goes to the front.
Emplace_Front(c) ==
    /\ cpc[c] = "emplace"
    /\ mtx = Nobody
    /\ tasks' = <<mine[c]>> \o tasks
    /\ posted' = Append(posted, mine[c])
    /\ Goto(c, "notify")
    /\ UNCHANGED <<mtx, flags, waiting, workers, wpc, hand, owner, calls, ran,
                   covered, missed>>

\* Mutant: the lock_guard outlives the push.
Emplace_KeepsLock(c) ==
    /\ cpc[c] = "emplace"
    /\ mtx = Nobody
    /\ mtx' = c
    /\ tasks' = Append(tasks, mine[c])
    /\ posted' = Append(posted, mine[c])
    /\ Goto(c, "notify")
    /\ UNCHANGED <<flags, waiting, workers, wpc, hand, owner, calls, ran,
                   covered, missed>>

\* The push, under mtx_.
Emplace(c) ==
    /\ cpc[c] = "emplace"
    /\ mtx = Nobody
    /\ tasks' = Append(tasks, mine[c])
    /\ posted' = Append(posted, mine[c])
    /\ Goto(c, "notify")
    /\ UNCHANGED <<mtx, flags, waiting, workers, wpc, hand, owner, calls, ran,
                   covered, missed>>

\* Mutant: the first task of an empty queue notifies nobody.
NotifyOne_NotFirst(c) ==
    /\ cpc[c] = "notify"
    /\ \/ /\ waiting = {} \/ Len(tasks) < 2
          /\ UNCHANGED <<waiting, wpc>>
       \/ /\ Len(tasks) > 1
          /\ \E w \in waiting :
                /\ waiting' = waiting \ {w}
                /\ wpc' = [wpc EXCEPT ![w] = "lock"]
    /\ IF wants[c] THEN Goto(c, "future") ELSE Return(c)
    /\ UNCHANGED <<mtx, tasks, flags, workers, hand, owner, calls, hist>>

\* task_cv_.notify_one(), after mtx_ was released.
NotifyOne(c) ==
    /\ cpc[c] = "notify"
    /\ \/ waiting = {} /\ UNCHANGED <<waiting, wpc>>
       \/ \E w \in waiting :
             /\ waiting' = waiting \ {w}
             /\ wpc' = [wpc EXCEPT ![w] = "lock"]
    /\ IF wants[c] THEN Goto(c, "future") ELSE Return(c)
    /\ UNCHANGED <<mtx, tasks, flags, workers, hand, owner, calls, hist>>

\* future.wait() of WAIT_TASK_IDLE returns.
Await(c) ==
    /\ cpc[c] = "future"
    /\ mine[c] \in ElementsOf(ran)
    /\ Return(c)
    /\ covered' = covered \cup {mine[c]}
    /\ UNCHANGED <<pool, owner, calls, posted, ran, missed>>

-----------------------------------------------------------------------------
(* The worker loop (lines 66-88). *)

Lock(w) ==
    /\ wpc[w] = "lock"
    /\ mtx = Nobody
    /\ mtx' = w
    /\ wpc' = [wpc EXCEPT ![w] = "pred"]
    /\ UNCHANGED <<tasks, flags, waiting, workers, hand, owner, users, hist>>

\* The predicate of task_cv_.wait, under mtx_.
Predicate(w) ==
    /\ wpc[w] = "pred"
    /\ wpc' = [wpc EXCEPT ![w] =
                  IF is_shutdown \/ tasks # <<>> THEN "check" ELSE "sleep"]
    /\ UNCHANGED <<mtx, tasks, flags, waiting, workers, hand, owner, users,
                   hist>>

\* wait() releases mtx_ and blocks in one step.
Sleep(w) ==
    /\ wpc[w] = "sleep"
    /\ wpc' = [wpc EXCEPT ![w] = "wait"]
    /\ waiting' = waiting \cup {w}
    /\ mtx' = Nobody
    /\ UNCHANGED <<tasks, flags, workers, hand, owner, users, hist>>

\* A condition variable may wake a thread for no reason.
SpuriousWakeup(w) ==
    /\ w \in waiting
    /\ waiting' = waiting \ {w}
    /\ wpc' = [wpc EXCEPT ![w] = "lock"]
    /\ UNCHANGED <<mtx, tasks, flags, workers, hand, owner, users, hist>>

\* Mutant: the task is read but not popped.
PopOrExit_NoPop(w) ==
    /\ wpc[w] = "check"
    /\ mtx' = Nobody
    /\ \/ /\ is_shutdown
          /\ wpc' = [wpc EXCEPT ![w] = "exit"]
          /\ UNCHANGED hand
       \/ /\ ~is_shutdown
          /\ hand' = [hand EXCEPT ![w] = Head(tasks)]
          /\ wpc' = [wpc EXCEPT ![w] = "run"]
    /\ UNCHANGED <<tasks, flags, waiting, workers, owner, users, hist>>

\* is_shutdown_ is read again; tasks left in the queue are not run.
PopOrExit(w) ==
    /\ wpc[w] = "check"
    /\ mtx' = Nobody
    /\ \/ /\ is_shutdown
          /\ wpc' = [wpc EXCEPT ![w] = "exit"]
          /\ UNCHANGED <<tasks, hand>>
       \/ /\ ~is_shutdown
          /\ hand' = [hand EXCEPT ![w] = Head(tasks)]
          /\ tasks' = Tail(tasks)
          /\ wpc' = [wpc EXCEPT ![w] = "run"]
    /\ UNCHANGED <<flags, waiting, workers, owner, users, hist>>

\* The task runs outside mtx_.
Run(w) ==
    /\ wpc[w] = "run"
    /\ ran' = Append(ran, hand[w])
    /\ hand' = [hand EXCEPT ![w] = 0]
    /\ wpc' = [wpc EXCEPT ![w] = "lock"]
    /\ UNCHANGED <<mtx, tasks, flags, waiting, workers, owner, users, posted,
                   covered, missed>>

-----------------------------------------------------------------------------
OwnerStep == ClearShutdown \/ AddThread \/ SetShutdown \/ NotifyAll \/ Join

ClientStep(c) ==
    \/ ReadShutdown(c) \/ ReadAvailable(c) \/ Emplace(c) \/ NotifyOne(c)
    \/ Await(c)

WorkerStep(w) ==
    Lock(w) \/ Predicate(w) \/ Sleep(w) \/ PopOrExit(w) \/ Run(w)

Next ==
    \/ Start \/ Stop \/ OwnerStep
    \/ \E c \in Clients : Post(c) \/ ClientStep(c)
    \/ \E w \in Workers : WorkerStep(w) \/ SpuriousWakeup(w)

Spec == Init /\ [][Next]_vars

(***************************************************************************)
(* A call that has begun goes on and so do the workers.  Strong fairness   *)
(* of Lock: a thread that asks for mtx_ gets it some time although other   *)
(* workers take it again and again (the futex queue behind std::mutex).    *)
(* A worker that waits need not be woken, and nobody has to call anything. *)
(***************************************************************************)
Fairness ==
    /\ WF_vars(OwnerStep)
    /\ \A c \in Clients : WF_vars(ClientStep(c)) /\ SF_vars(Emplace(c))
    /\ \A w \in Workers : WF_vars(WorkerStep(w)) /\ SF_vars(Lock(w))

FairSpec == Spec /\ Fairness

-----------------------------------------------------------------------------
(* Properties. *)

(***************************************************************************)
(* entry.hpp line 24, "the pool has one thread, the order of posting is    *)
(* the order of execution": when WAIT_TASK_IDLE returns, every task posted *)
(* before it has run, also across Stop and Start.  This is what the Flush  *)
(* of EffectiveSink relies on.                                             *)
(***************************************************************************)
WaitCoversEarlier ==
    thread_count = 1 =>
        \A n \in covered : \A i, j \in 1..Len(posted) :
            posted[j] = n /\ i < j => posted[i] \in ElementsOf(ran)

(***************************************************************************)
(* No posted task is lost or runs twice: each one is in the queue, in the  *)
(* hands of a worker or done, and in one of these places only.             *)
(***************************************************************************)
Places(n) ==
    Cardinality({i \in 1..Len(tasks) : tasks[i] = n})
      + Cardinality({w \in Workers : hand[w] = n})
      + Cardinality({i \in 1..Len(ran) : ran[i] = n})

TasksConserved == \A n \in ElementsOf(posted) : Places(n) = 1

(***************************************************************************)
(* No worker sleeps while there is a task that nobody comes for: as long   *)
(* as one waits, every queued task has a worker that is up or a client     *)
(* that has yet to notify one, although notify_one comes after the unlock  *)
(* and may find that its task was taken already.  Nor does one sleep while *)
(* Stop joins it, unless the notify_all of Stop fell between the predicate *)
(* and the wait of a worker, which nothing prevents.                       *)
(***************************************************************************)
Up        == {w \in Workers : wpc[w] \in {"lock", "pred", "check"}}
Notifying == {c \in Clients : cpc[c] = "notify"}

TasksAreComeFor ==
    ~is_shutdown /\ waiting # {} =>
        Len(tasks) <= Cardinality(Up) + Cardinality(Notifying)

\* A worker that is joined does not wait and is not about to.
NobodyLeftWaiting ==
    opc = "join" /\ ~missed =>
        \A w \in Workers : wpc[w] \notin {"sleep", "wait"}

NoWakeUpLost == TasksAreComeFor /\ NobodyLeftWaiting

(***************************************************************************)
(* A posted task runs, unless the pool is stopped: no notification of      *)
(* EnqueueTask_ is lost although notify_one comes after the unlock.        *)
(***************************************************************************)
PostedRuns ==
    \A n \in Tasks :
        (n \in ElementsOf(tasks) /\ is_available)
            ~> (n \in ElementsOf(ran) \/ ~is_available)

(***************************************************************************)
(* Stop returns, unless its notify_all fell between the predicate and the  *)
(* wait of a worker: is_shutdown_ is stored without mtx_, so this can      *)
(* happen, and then the join never ends.                                   *)
(***************************************************************************)
StopReturns == (opc = "stop") ~> (opc = "idle" \/ missed)
=============================================================================
