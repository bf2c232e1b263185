-------------------------- MODULE ThreadPoolProofs --------------------------
(***************************************************************************)
(* Proofs about ThreadPool, for any number of clients, workers, tasks and  *)
(* restarts: no posted task is lost or runs twice, in a pool of one thread *)
(* whoever waits for a task has waited for all tasks before it, and no     *)
(* worker sleeps while there is something it should do.                    *)
(***************************************************************************)
EXTENDS ThreadPool, FiniteSetTheorems, TLAPS

\* No element occurs twice.
Distinct(s) == \A i, j \in 1..Len(s) : s[i] = s[j] => i = j

\* Threads and Start and Stop: a pool that is not available and not being
\* stopped has no threads, so that Start never takes is_shutdown_ away from
\* a worker that has seen it.
ThreadsOK ==
    /\ \A w \in Workers : w \in workers <=> wpc[w] # "none"
    /\ \A w \in Workers : w \in waiting <=> wpc[w] = "wait"
    /\ Cardinality(workers) <= thread_count
    /\ opc = "spawn" => Cardinality(workers) < thread_count
    /\ opc = "start" => workers = {}
    /\ opc \in {"start", "spawn"} => is_available
    /\ opc = "idle" /\ ~is_available => workers = {}

\* A worker between Lock and the release of mtx_ owns it, and one that has
\* left the wait has something to pop or a reason to exit.
LockOK ==
    /\ \A w \in Workers : wpc[w] \in {"pred", "sleep", "check"} <=> mtx = w
    /\ \A w \in Workers : wpc[w] = "check" => is_shutdown \/ tasks # <<>>
    /\ \A w \in Workers : hand[w] # 0 => wpc[w] = "run"

PoolInv == TypeOK /\ ThreadsOK /\ LockOK

\* The number of a call is its own, and posted once.
NumbersOK ==
    /\ \A c \in Clients : cpc[c] # "idle" => mine[c] > 0 /\ mine[c] <= calls
    /\ \A c, d \in Clients :
          cpc[c] # "idle" /\ cpc[d] # "idle" /\ mine[c] = mine[d] => c = d
    /\ \A c \in Clients : cpc[c] \in {"shutdown", "available", "emplace"} =>
                              mine[c] \notin ElementsOf(posted)
    /\ \A n \in ElementsOf(posted) : n > 0 /\ n <= calls
    /\ Distinct(posted)

\* Only posted tasks are queued, in hand or done.
OnlyPosted ==
    /\ ElementsOf(tasks) \subseteq ElementsOf(posted)
    /\ ElementsOf(ran) \subseteq ElementsOf(posted)
    /\ \A w \in Workers : wpc[w] = "run" => hand[w] \in ElementsOf(posted)

\* A posted task is in some place ...
Somewhere ==
    \A n \in ElementsOf(posted) :
        \/ n \in ElementsOf(tasks)
        \/ n \in ElementsOf(ran)
        \/ \E w \in Workers : hand[w] = n

\* ... and in no other.
Apart ==
    /\ Distinct(tasks)
    /\ Distinct(ran)
    /\ ElementsOf(tasks) \cap ElementsOf(ran) = {}
    /\ \A w \in Workers : hand[w] \notin ElementsOf(tasks) \cup ElementsOf(ran)
    /\ \A v, w \in Workers : hand[v] # 0 /\ hand[v] = hand[w] => v = w

TasksInv == NumbersOK /\ OnlyPosted /\ Somewhere /\ Apart

\* With one thread the tasks done, the one in hand and the queued ones are,
\* in this order, the posted ones.
FifoInv ==
    thread_count = 1 =>
        /\ \A i \in 1..Len(ran) : i <= Len(posted) /\ posted[i] = ran[i]
        /\ \/ /\ \A w \in Workers : hand[w] = 0
              /\ Len(posted) = Len(ran) + Len(tasks)
           \/ /\ \E w \in Workers : hand[w] # 0
              /\ Len(posted) = Len(ran) + 1 + Len(tasks)
        /\ \A w \in Workers : hand[w] # 0 => hand[w] = posted[Len(ran) + 1]
        /\ \A i \in 1..Len(tasks) :
              tasks[i] = posted[Len(posted) - Len(tasks) + i]

\* Whoever has waited has seen its task done.
CoveredInv == covered \subseteq ElementsOf(ran)

\* A worker on its way into the wait has seen an empty queue, and holds mtx_
\* since; the bound of TasksAreComeFor is then true when it begins to wait.
WakeInv ==
    /\ TasksAreComeFor
    /\ \A w \in Workers : wpc[w] = "sleep" => tasks = <<>>

\* Stop notifies and joins with is_shutdown_ set, or has no threads to join.
StopInv ==
    /\ NobodyLeftWaiting
    /\ opc = "notify" => is_shutdown
    /\ opc = "join" => is_shutdown \/ workers = {}

-----------------------------------------------------------------------------
(* Lemmas about the operators. *)

\* An element more at the end.
LEMMA AppendElements ==
    ASSUME NEW s \in Seq(Nat), NEW x \in Nat
    PROVE  /\ Append(s, x) \in Seq(Nat)
           /\ ElementsOf(Append(s, x)) = ElementsOf(s) \cup {x}
           /\ Distinct(s) /\ x \notin ElementsOf(s) => Distinct(Append(s, x))
<1> DEFINE t == Append(s, x)
<1>1. /\ t \in Seq(Nat) /\ Len(t) = Len(s) + 1 /\ Len(s) \in Nat
      /\ t[Len(s) + 1] = x
      /\ \A i \in 1..Len(s) : t[i] = s[i]
  OBVIOUS
<1> HIDE DEF t
<1>2. \A i \in 1..Len(t) : i \in 1..Len(s) \/ i = Len(s) + 1
  BY <1>1
<1>3. ElementsOf(t) = ElementsOf(s) \cup {x}
  <2>1. ASSUME NEW y \in ElementsOf(t) PROVE y \in ElementsOf(s) \cup {x}
    BY <1>1, <1>2, <2>1 DEF ElementsOf
  <2>2. ASSUME NEW y \in ElementsOf(s) PROVE y \in ElementsOf(t)
    <3>1. PICK i \in 1..Len(s) : y = s[i]
      BY DEF ElementsOf
    <3>2. i \in 1..Len(t) /\ t[i] = y
      BY <1>1, <3>1
    <3> QED
      BY <3>2 DEF ElementsOf
  <2>3. x \in ElementsOf(t)
    <3>1. Len(s) + 1 \in 1..Len(t)
      BY <1>1
    <3> QED
      BY <1>1, <3>1 DEF ElementsOf
  <2> QED
    BY <2>1, <2>2, <2>3
<1>4. ASSUME Distinct(s), x \notin ElementsOf(s) PROVE Distinct(t)
  <2> SUFFICES ASSUME NEW i \in 1..Len(t), NEW j \in 1..Len(t), t[i] = t[j]
               PROVE  i = j
    BY DEF Distinct
  <2>1. \A k \in 1..Len(s) : t[k] \in ElementsOf(s) /\ t[k] # x
    BY <1>1, <1>4 DEF ElementsOf
  <2>2. CASE i \in 1..Len(s) /\ j \in 1..Len(s)
    BY <1>1, <1>4, <2>2 DEF Distinct
  <2>3. CASE ~(i \in 1..Len(s) /\ j \in 1..Len(s))
    BY <1>1, <1>2, <2>1, <2>3
  <2> QED
    BY <2>2, <2>3
<1> QED
  BY <1>1, <1>3, <1>4 DEF t

\* The first element less.
LEMMA TailElements ==
    ASSUME NEW s \in Seq(Nat), s # <<>>, Distinct(s)
    PROVE  /\ Tail(s) \in Seq(Nat) /\ Head(s) \in Nat
           /\ Head(s) \in ElementsOf(s)
           /\ ElementsOf(Tail(s)) = ElementsOf(s) \ {Head(s)}
           /\ Distinct(Tail(s))
<1> DEFINE t == Tail(s)
<1>1. /\ t \in Seq(Nat) /\ Len(s) \in Nat /\ Len(s) > 0
      /\ Len(t) = Len(s) - 1 /\ Head(s) = s[1]
      /\ \A i \in 1..Len(t) : t[i] = s[i + 1]
  OBVIOUS
<1>2. Head(s) \in Nat
  OBVIOUS
<1> HIDE DEF t
<1>3. 1 \in 1..Len(s) /\ \A i \in 1..Len(t) : i + 1 \in 1..Len(s) /\ i + 1 # 1
  BY <1>1
<1>4. Head(s) \in ElementsOf(s)
  BY <1>1, <1>3 DEF ElementsOf
<1>5. ASSUME NEW y \in ElementsOf(t) PROVE y \in ElementsOf(s) \ {Head(s)}
  <2>1. PICK i \in 1..Len(t) : y = t[i]
    BY DEF ElementsOf
  <2>2. y = s[i + 1] /\ i + 1 \in 1..Len(s)
    BY <1>1, <1>3, <2>1
  <2>3. y # s[1]
    BY <1>3, <2>2 DEF Distinct
  <2> QED
    BY <1>1, <2>2, <2>3 DEF ElementsOf
<1>6. ASSUME NEW y \in ElementsOf(s) \ {Head(s)} PROVE y \in ElementsOf(t)
  <2>1. PICK i \in 1..Len(s) : y = s[i]
    BY DEF ElementsOf
  <2>2. i # 1
    BY <1>1, <2>1
  <2>3. i - 1 \in 1..Len(t) /\ (i - 1) + 1 = i
    BY <1>1, <2>1, <2>2
  <2>4. t[i - 1] = s[i]
    BY <1>1, <2>3
  <2> QED
    BY <2>1, <2>3, <2>4 DEF ElementsOf
<1>7. Distinct(t)
  <2> SUFFICES ASSUME NEW i \in 1..Len(t), NEW j \in 1..Len(t), t[i] = t[j]
               PROVE  i = j
    BY DEF Distinct
  <2>1. s[i + 1] = s[j + 1]
    BY <1>1
  <2>2. i + 1 = j + 1
    BY <1>3, <2>1 DEF Distinct
  <2> QED
    BY <2>2
<1>8. ElementsOf(t) = ElementsOf(s) \ {Head(s)}
  BY <1>5, <1>6
<1> QED
  BY <1>1, <1>2, <1>4, <1>7, <1>8 DEF t

\* A free identity for a thread, as long as there are fewer than Workers.
LEMMA FreeWorker ==
    ASSUME workers \subseteq Workers, Cardinality(workers) < Cardinality(Workers)
    PROVE  \E w \in Workers : w \notin workers
<1>1. workers # Workers
  <2>1. Cardinality(Workers) \in Nat
    BY PoolAssumption, FS_CardinalityType
  <2> QED
    BY <2>1
<1> QED
  BY <1>1

-----------------------------------------------------------------------------
(* Types, threads and the lock. *)

LEMMA PoolInit == Init => PoolInv
<1> SUFFICES ASSUME Init PROVE PoolInv
  OBVIOUS
<1>1. /\ is_shutdown \in BOOLEAN /\ is_available \in BOOLEAN
      /\ missed \in BOOLEAN /\ wants \in [Clients -> BOOLEAN]
  BY Zenon DEF Init
<1>2. TypeOK
  BY <1>1, PoolAssumption DEF Init, TypeOK
<1>3. ThreadsOK
  <2>1. Cardinality({}) = 0
    BY FS_EmptySet
  <2>2. Cardinality(Workers) \in Nat
    BY PoolAssumption, FS_CardinalityType
  <2> QED
    BY <2>1, <2>2 DEF Init, ThreadsOK
<1>4. LockOK
  BY PoolAssumption DEF Init, LockOK
<1> QED
  BY <1>2, <1>3, <1>4 DEF PoolInv

\* The parts of the invariant about threads and the lock are about the pool.
LEMMA PoolKept ==
    ASSUME PoolInv, UNCHANGED <<pool, owner>>
    PROVE  ThreadsOK' /\ LockOK'
<1>1. UNCHANGED <<mtx, tasks, is_shutdown, is_available, waiting, workers, wpc,
                  hand, opc, thread_count>>
  BY DEF pool, flags, owner
<1> QED
  BY <1>1 DEF PoolInv, ThreadsOK, LockOK

\* A client that goes on or returns.
LEMMA ClientTypes ==
    ASSUME PoolInv, NEW c \in Clients,
           NEW to \in {"available", "emplace", "notify", "future"},
           Goto(c, to) \/ Return(c)
    PROVE  /\ cpc' \in [Clients -> {"idle", "shutdown", "available", "emplace",
                                    "notify", "future"}]
           /\ mine' \in [Clients -> Nat]
           /\ wants' \in [Clients -> BOOLEAN]
<1>1. /\ cpc \in [Clients -> {"idle", "shutdown", "available", "emplace",
                               "notify", "future"}]
      /\ mine \in [Clients -> Nat]
      /\ wants \in [Clients -> BOOLEAN]
  BY DEF PoolInv, TypeOK
<1>2. CASE Goto(c, to)
  BY <1>1, <1>2 DEF Goto
<1>3. CASE Return(c)
  BY <1>1, <1>3 DEF Return
<1> QED
  BY <1>2, <1>3

\* Steps of clients other than the push and the notification.
LEMMA ClientPoolStep ==
    ASSUME PoolInv, NEW c \in Clients,
           Post(c) \/ ReadShutdown(c) \/ ReadAvailable(c) \/ Await(c)
    PROVE  PoolInv'
<1>1. UNCHANGED <<pool, owner>>
  BY DEF Post, ReadShutdown, ReadAvailable, Await
<1>2. UNCHANGED <<mtx, tasks, is_shutdown, is_available, waiting, workers, wpc,
                  hand, opc, starts, thread_count, posted, ran, missed>>
  BY DEF Post, ReadShutdown, ReadAvailable, Await, pool, flags, owner, hist
<1>3. /\ cpc' \in [Clients -> {"idle", "shutdown", "available", "emplace",
                               "notify", "future"}]
      /\ mine' \in [Clients -> Nat]
      /\ wants' \in [Clients -> BOOLEAN]
      /\ calls' \in Nat
  <2>1. CASE Post(c)
    <3>1. calls \in Nat /\ mine \in [Clients -> Nat]
          /\ wants \in [Clients -> BOOLEAN]
          /\ cpc \in [Clients -> {"idle", "shutdown", "available", "emplace",
                                  "notify", "future"}]
      BY DEF PoolInv, TypeOK
    <3>2. PICK b \in BOOLEAN : wants' = [wants EXCEPT ![c] = b]
      BY <2>1 DEF Post
    <3>3. wants' \in [Clients -> BOOLEAN]
      BY <3>1, <3>2
    <3> QED
      BY <2>1, <3>1, <3>3 DEF Post
  <2>2. CASE ReadShutdown(c) \/ ReadAvailable(c) \/ Await(c)
    <3>1. calls' = calls /\ calls \in Nat
      BY <2>2 DEF ReadShutdown, ReadAvailable, Await, PoolInv, TypeOK
    <3>2. Goto(c, "available") \/ Goto(c, "emplace") \/ Return(c)
      BY <2>2 DEF ReadShutdown, ReadAvailable, Await
    <3> QED
      BY <3>1, <3>2, ClientTypes
  <2> QED
    BY <2>1, <2>2
<1>4. covered' \in SUBSET Nat
  <2>1. mine[c] \in Nat /\ covered \in SUBSET Nat
    BY DEF PoolInv, TypeOK
  <2>2. covered' \in {covered, covered \cup {mine[c]}}
    BY DEF Post, ReadShutdown, ReadAvailable, Await, hist
  <2> QED
    BY <2>1, <2>2
<1>5. TypeOK'
  BY <1>2, <1>3, <1>4 DEF PoolInv, TypeOK
<1> QED
  BY <1>1, <1>5, PoolKept DEF PoolInv

\* The push: mtx_ is free, and a worker that must find a task still does.
LEMMA EmplacePoolStep ==
    ASSUME PoolInv, NEW c \in Clients, Emplace(c)
    PROVE  PoolInv'
<1>1. /\ tasks' = Append(tasks, mine[c])
      /\ posted' = Append(posted, mine[c])
      /\ Goto(c, "notify")
      /\ UNCHANGED <<mtx, is_shutdown, is_available, waiting, workers, wpc,
                     hand, opc, starts, thread_count, calls, ran, covered,
                     missed>>
  BY DEF Emplace, flags, owner
<1>2. tasks \in Seq(Nat) /\ posted \in Seq(Nat) /\ mine[c] \in Nat
  BY DEF PoolInv, TypeOK
<1>3. tasks' \in Seq(Nat) /\ posted' \in Seq(Nat) /\ tasks' # <<>>
  BY <1>1, <1>2
<1>4. /\ cpc' \in [Clients -> {"idle", "shutdown", "available", "emplace",
                               "notify", "future"}]
      /\ mine' \in [Clients -> Nat]
      /\ wants' \in [Clients -> BOOLEAN]
  BY <1>1, ClientTypes
<1>5. TypeOK'
  BY <1>1, <1>3, <1>4 DEF PoolInv, TypeOK
<1>6. ThreadsOK' /\ LockOK'
  BY <1>1, <1>3 DEF PoolInv, ThreadsOK, LockOK
<1> QED
  BY <1>5, <1>6 DEF PoolInv

\* A worker leaves the wait.
LEMMA WakePoolStep ==
    ASSUME PoolInv, NEW w \in waiting,
           waiting' = waiting \ {w}, wpc' = [wpc EXCEPT ![w] = "lock"],
           UNCHANGED <<mtx, tasks, is_shutdown, is_available, workers, hand,
                       opc, thread_count>>
    PROVE  /\ waiting' \subseteq Workers
           /\ wpc' \in [Workers -> {"none", "lock", "pred", "sleep", "wait",
                                    "check", "run", "exit"}]
           /\ ThreadsOK' /\ LockOK'
<1>1. /\ w \in Workers /\ waiting \subseteq Workers
      /\ wpc \in [Workers -> {"none", "lock", "pred", "sleep", "wait",
                              "check", "run", "exit"}]
  BY DEF PoolInv, TypeOK
<1>2. wpc[w] = "wait"
  BY <1>1 DEF PoolInv, ThreadsOK
<1>3. \A v \in Workers : wpc'[v] = IF v = w THEN "lock" ELSE wpc[v]
  BY <1>1
<1>4. ThreadsOK'
  BY <1>1, <1>2, <1>3 DEF PoolInv, ThreadsOK
<1>5. LockOK'
  BY <1>1, <1>2, <1>3 DEF PoolInv, LockOK
<1> QED
  BY <1>1, <1>4, <1>5

LEMMA NotifyPoolStep ==
    ASSUME PoolInv, NEW c \in Clients, NotifyOne(c)
    PROVE  PoolInv'
<1>1. /\ Goto(c, "future") \/ Return(c)
      /\ UNCHANGED <<mtx, tasks, is_shutdown, is_available, workers, hand, opc,
                     starts, thread_count, calls, posted, ran, covered, missed>>
  BY DEF NotifyOne, flags, owner, hist
<1>2. /\ cpc' \in [Clients -> {"idle", "shutdown", "available", "emplace",
                               "notify", "future"}]
      /\ mine' \in [Clients -> Nat]
      /\ wants' \in [Clients -> BOOLEAN]
  BY <1>1, ClientTypes
<1>3. /\ waiting' \subseteq Workers
      /\ wpc' \in [Workers -> {"none", "lock", "pred", "sleep", "wait",
                               "check", "run", "exit"}]
      /\ ThreadsOK' /\ LockOK'
  <2>1. CASE UNCHANGED <<waiting, wpc>>
    BY <1>1, <2>1 DEF PoolInv, TypeOK, ThreadsOK, LockOK
  <2>2. CASE \E w \in waiting : /\ waiting' = waiting \ {w}
                                /\ wpc' = [wpc EXCEPT ![w] = "lock"]
    BY <1>1, <2>2, WakePoolStep
  <2> QED
    BY <2>1, <2>2 DEF NotifyOne
<1>4. TypeOK'
  BY <1>1, <1>2, <1>3 DEF PoolInv, TypeOK
<1> QED
  BY <1>3, <1>4 DEF PoolInv

\* Start and Stop up to the notification.
LEMMA FlagPoolStep ==
    ASSUME PoolInv, Start \/ ClearShutdown \/ Stop \/ SetShutdown
    PROVE  PoolInv'
<1>1. UNCHANGED <<mtx, tasks, waiting, workers, wpc, hand, thread_count, cpc,
                  mine, wants, calls, posted, ran, covered, missed>>
  BY DEF Start, ClearShutdown, Stop, SetShutdown, users, hist
<1>2. /\ is_shutdown' \in BOOLEAN /\ is_available' \in BOOLEAN
      /\ starts' \in Nat
      /\ opc' \in {"idle", "start", "spawn", "stop", "notify", "join"}
  <2>1. /\ is_shutdown \in BOOLEAN /\ is_available \in BOOLEAN
        /\ starts \in Nat
        /\ opc \in {"idle", "start", "spawn", "stop", "notify", "join"}
    BY DEF PoolInv, TypeOK
  <2>2. is_shutdown' \in BOOLEAN /\ is_available' \in BOOLEAN
    BY <2>1, Zenon DEF Start, ClearShutdown, Stop, SetShutdown
  <2> QED
    BY <2>1, <2>2 DEF Start, ClearShutdown, Stop, SetShutdown
<1>3. TypeOK'
  BY <1>1, <1>2 DEF PoolInv, TypeOK
<1>4. Cardinality({}) = 0
  BY FS_EmptySet
<1>5. ThreadsOK'
  <2>1. CASE Start
    BY <1>1, <2>1 DEF Start, PoolInv, TypeOK, ThreadsOK
  <2>2. CASE ClearShutdown
    <3>1. /\ workers = {} /\ opc' = "spawn" /\ thread_count \in Int
          /\ thread_count > 0 /\ is_available /\ UNCHANGED is_available
      <4>1. Cardinality(Workers) \in Nat
        BY PoolAssumption, FS_CardinalityType
      <4> QED
        BY <2>2, <4>1 DEF ClearShutdown, PoolInv, TypeOK, ThreadsOK
    <3> QED
      BY <1>1, <1>4, <3>1 DEF PoolInv, ThreadsOK
  <2>3. CASE Stop
    BY <1>1, <2>3 DEF Stop, PoolInv, TypeOK, ThreadsOK
  <2>4. CASE SetShutdown
    BY <1>1, <2>4 DEF SetShutdown, PoolInv, ThreadsOK
  <2> QED
    BY <2>1, <2>2, <2>3, <2>4
<1>6. LockOK'
  <2>1. CASE ClearShutdown
    <3>1. \A w \in Workers : wpc[w] = "none"
      BY <2>1 DEF ClearShutdown, PoolInv, ThreadsOK
    <3> QED
      BY <1>1, <3>1 DEF PoolInv, LockOK
  <2>2. CASE SetShutdown
    BY <1>1, <2>2 DEF SetShutdown, PoolInv, LockOK
  <2>3. CASE Start \/ Stop
    <3>1. UNCHANGED is_shutdown
      BY <2>3 DEF Start, Stop
    <3> QED
      BY <1>1, <3>1 DEF PoolInv, LockOK
  <2> QED
    BY <2>1, <2>2, <2>3
<1> QED
  BY <1>3, <1>5, <1>6 DEF PoolInv

\* A new thread.
LEMMA AddThreadPoolStep ==
    ASSUME PoolInv, AddThread
    PROVE  PoolInv'
<1> DEFINE w == CHOOSE w \in Workers : w \notin workers
<1>1. /\ opc = "spawn"
      /\ workers' = workers \cup {w}
      /\ wpc' = [wpc EXCEPT ![w] = "lock"]
      /\ opc' = IF Cardinality(workers') = thread_count THEN "idle" ELSE "spawn"
      /\ UNCHANGED <<mtx, tasks, is_shutdown, is_available, waiting, hand,
                     starts, thread_count, cpc, mine, wants, calls, posted,
                     ran, covered, missed>>
  BY DEF AddThread, flags, users, hist
<1>2. /\ workers \subseteq Workers
      /\ wpc \in [Workers -> {"none", "lock", "pred", "sleep", "wait",
                              "check", "run", "exit"}]
      /\ thread_count \in 1..Cardinality(Workers)
      /\ Cardinality(workers) < thread_count
  BY <1>1 DEF PoolInv, TypeOK, ThreadsOK
<1>3. Cardinality(Workers) \in Nat
  BY PoolAssumption, FS_CardinalityType
<1>4. IsFiniteSet(workers) /\ Cardinality(workers) \in Nat
  BY <1>2, PoolAssumption, FS_Subset, FS_CardinalityType
<1>5. \E v \in Workers : v \notin workers
  <2>1. Cardinality(workers) < Cardinality(Workers)
    BY <1>2, <1>3, <1>4
  <2> QED
    BY <1>2, <2>1, FreeWorker
<1>6. w \in Workers /\ w \notin workers
  BY <1>5
<1> HIDE DEF w
<1>7. Cardinality(workers') = Cardinality(workers) + 1
  BY <1>1, <1>4, <1>6, FS_AddElement
<1>8. \A v \in Workers : wpc'[v] = IF v = w THEN "lock" ELSE wpc[v]
  BY <1>1, <1>2, <1>6
<1>9. wpc[w] = "none"
  BY <1>6 DEF PoolInv, ThreadsOK
<1>10. TypeOK'
  BY <1>1, <1>2, <1>6 DEF PoolInv, TypeOK
<1>11. ThreadsOK'
  <2>1. \A v \in Workers : v \in workers' <=> wpc'[v] # "none"
    BY <1>1, <1>6, <1>8 DEF PoolInv, ThreadsOK
  <2>2. \A v \in Workers : v \in waiting' <=> wpc'[v] = "wait"
    BY <1>1, <1>8, <1>9 DEF PoolInv, ThreadsOK
  <2>3. /\ Cardinality(workers') <= thread_count'
        /\ opc' = "spawn" => Cardinality(workers') < thread_count'
    <3>1. Cardinality(workers) + 1 <= thread_count
      BY <1>2, <1>3, <1>4
    <3>2. Cardinality(workers) + 1 # thread_count =>
             Cardinality(workers) + 1 < thread_count
      BY <1>2, <1>3, <1>4
    <3> QED
      BY <1>1, <1>7, <3>1, <3>2
  <2>4. opc' # "start" /\ is_available'
    <3>1. is_available
      BY <1>1 DEF PoolInv, ThreadsOK
    <3> QED
      BY <1>1, <3>1
  <2> QED
    BY <2>1, <2>2, <2>3, <2>4 DEF ThreadsOK
<1>12. LockOK'
  BY <1>1, <1>8, <1>9 DEF PoolInv, LockOK
<1> QED
  BY <1>10, <1>11, <1>12 DEF PoolInv

\* Every worker that waits is woken.
LEMMA NotifyAllPoolStep ==
    ASSUME PoolInv, NotifyAll
    PROVE  PoolInv'
<1>1. /\ opc' = "join" /\ waiting' = {}
      /\ wpc' = [w \in Workers |-> IF w \in waiting THEN "lock" ELSE wpc[w]]
      /\ missed' = (missed \/ \E w \in Workers : wpc[w] = "sleep")
      /\ UNCHANGED <<mtx, tasks, is_shutdown, is_available, workers, hand,
                     starts, thread_count, cpc, mine, wants, calls, posted,
                     ran, covered>>
  BY DEF NotifyAll, flags, users
<1>2. wpc \in [Workers -> {"none", "lock", "pred", "sleep", "wait",
                           "check", "run", "exit"}]
  BY DEF PoolInv, TypeOK
<1>3. missed' \in BOOLEAN
  BY <1>1
<1>4. \A w \in Workers : wpc'[w] = IF wpc[w] = "wait" THEN "lock" ELSE wpc[w]
  BY <1>1, <1>2 DEF PoolInv, ThreadsOK
<1>5. TypeOK'
  BY <1>1, <1>2, <1>3 DEF PoolInv, TypeOK
<1>6. ThreadsOK'
  BY <1>1, <1>4 DEF PoolInv, ThreadsOK
<1>7. LockOK'
  BY <1>1, <1>4 DEF PoolInv, LockOK
<1> QED
  BY <1>5, <1>6, <1>7 DEF PoolInv

\* The threads are joined: no thread, no lock, nothing in hand.
LEMMA JoinPoolStep ==
    ASSUME PoolInv, Join
    PROVE  PoolInv'
<1>1. /\ \A w \in workers : wpc[w] = "exit"
      /\ workers' = {} /\ opc' = "idle"
      /\ wpc' = [w \in Workers |-> "none"]
      /\ UNCHANGED <<mtx, tasks, is_shutdown, is_available, waiting, hand,
                     starts, thread_count, cpc, mine, wants, calls, posted,
                     ran, covered, missed>>
  BY DEF Join, flags, users, hist
<1>2. \A w \in Workers : wpc[w] \in {"none", "exit"}
  BY <1>1 DEF PoolInv, ThreadsOK
<1>3. \A w \in Workers : wpc'[w] = "none"
  BY <1>1
<1>4. TypeOK'
  BY <1>1 DEF PoolInv, TypeOK
<1>5. ThreadsOK'
  <2>1. Cardinality({}) = 0
    BY FS_EmptySet
  <2>2. Cardinality(Workers) \in Nat
    BY PoolAssumption, FS_CardinalityType
  <2>3. 0 <= thread_count
    BY <2>2 DEF PoolInv, TypeOK
  <2>4. \A w \in Workers : w \notin waiting
    BY <1>2 DEF PoolInv, ThreadsOK
  <2> QED
    BY <1>1, <1>3, <2>1, <2>3, <2>4 DEF ThreadsOK
<1>6. LockOK'
  BY <1>1, <1>2, <1>3 DEF PoolInv, LockOK
<1> QED
  BY <1>4, <1>5, <1>6 DEF PoolInv

\* A step of a worker that leaves the tasks alone.
LEMMA LockPoolStep ==
    ASSUME PoolInv, NEW w \in Workers,
           Lock(w) \/ Predicate(w) \/ Sleep(w) \/ SpuriousWakeup(w)
    PROVE  PoolInv'
<1>1. UNCHANGED <<tasks, is_shutdown, is_available, workers, hand, opc, starts,
                  thread_count, cpc, mine, wants, calls, posted, ran, covered,
                  missed>>
  BY DEF Lock, Predicate, Sleep, SpuriousWakeup, flags, owner, users, hist
<1>2. /\ wpc \in [Workers -> {"none", "lock", "pred", "sleep", "wait",
                              "check", "run", "exit"}]
      /\ waiting \subseteq Workers /\ mtx \in Workers \cup {Nobody}
  BY DEF PoolInv, TypeOK
<1>3. CASE Lock(w)
  <2>1. /\ wpc[w] = "lock" /\ mtx = Nobody /\ mtx' = w
        /\ wpc' = [wpc EXCEPT ![w] = "pred"] /\ UNCHANGED waiting
    BY <1>3 DEF Lock
  <2>2. \A v \in Workers : wpc'[v] = IF v = w THEN "pred" ELSE wpc[v]
    BY <1>2, <2>1
  <2>3. TypeOK'
    BY <1>1, <1>2, <2>1 DEF PoolInv, TypeOK
  <2>4. ThreadsOK'
    BY <1>1, <2>1, <2>2 DEF PoolInv, ThreadsOK
  <2>5. LockOK'
    BY <1>1, <2>1, <2>2, PoolAssumption DEF PoolInv, LockOK
  <2> QED
    BY <2>3, <2>4, <2>5 DEF PoolInv
<1>4. CASE Predicate(w)
  <2>1. PICK to \in {"check", "sleep"} :
           /\ wpc' = [wpc EXCEPT ![w] = to]
           /\ to = "check" => is_shutdown \/ tasks # <<>>
    BY <1>4 DEF Predicate
  <2>2. wpc[w] = "pred" /\ UNCHANGED <<mtx, waiting>>
    BY <1>4 DEF Predicate
  <2>3. \A v \in Workers : wpc'[v] = IF v = w THEN to ELSE wpc[v]
    BY <1>2, <2>1
  <2>4. TypeOK'
    BY <1>1, <1>2, <2>1, <2>2 DEF PoolInv, TypeOK
  <2>5. ThreadsOK'
    BY <1>1, <2>2, <2>3 DEF PoolInv, ThreadsOK
  <2>6. LockOK'
    BY <1>1, <2>1, <2>2, <2>3 DEF PoolInv, LockOK
  <2> QED
    BY <2>4, <2>5, <2>6 DEF PoolInv
<1>5. CASE Sleep(w)
  <2>1. /\ wpc[w] = "sleep" /\ mtx' = Nobody
        /\ wpc' = [wpc EXCEPT ![w] = "wait"] /\ waiting' = waiting \cup {w}
    BY <1>5 DEF Sleep
  <2>2. \A v \in Workers : wpc'[v] = IF v = w THEN "wait" ELSE wpc[v]
    BY <1>2, <2>1
  <2>3. TypeOK'
    BY <1>1, <1>2, <2>1 DEF PoolInv, TypeOK
  <2>4. ThreadsOK'
    BY <1>1, <2>1, <2>2 DEF PoolInv, ThreadsOK
  <2>5. LockOK'
    BY <1>1, <2>1, <2>2, PoolAssumption DEF PoolInv, LockOK
  <2> QED
    BY <2>3, <2>4, <2>5 DEF PoolInv
<1>6. CASE SpuriousWakeup(w)
  <2>1. /\ w \in waiting /\ waiting' = waiting \ {w}
        /\ wpc' = [wpc EXCEPT ![w] = "lock"] /\ UNCHANGED mtx
    BY <1>6 DEF SpuriousWakeup
  <2>2. /\ waiting' \subseteq Workers
        /\ wpc' \in [Workers -> {"none", "lock", "pred", "sleep", "wait",
                                 "check", "run", "exit"}]
        /\ ThreadsOK' /\ LockOK'
    BY <1>1, <2>1, WakePoolStep
  <2>3. TypeOK'
    BY <1>1, <2>1, <2>2 DEF PoolInv, TypeOK
  <2> QED
    BY <2>2, <2>3 DEF PoolInv
<1> QED
  BY <1>3, <1>4, <1>5, <1>6

\* A worker pops a task that is there, or exits, and releases mtx_.
LEMMA PopPoolStep ==
    ASSUME PoolInv, NEW w \in Workers, PopOrExit(w)
    PROVE  PoolInv'
<1>1. /\ wpc[w] = "check" /\ mtx' = Nobody
      /\ UNCHANGED <<is_shutdown, is_available, waiting, workers, opc, starts,
                     thread_count, cpc, mine, wants, calls, posted, ran,
                     covered, missed>>
  BY DEF PopOrExit, flags, owner, users, hist
<1>2. /\ wpc \in [Workers -> {"none", "lock", "pred", "sleep", "wait",
                              "check", "run", "exit"}]
      /\ hand \in [Workers -> Nat] /\ tasks \in Seq(Nat)
  BY DEF PoolInv, TypeOK
<1>3. mtx = w /\ \A v \in Workers : wpc[v] \in {"pred", "sleep", "check"} => v = w
  BY <1>1 DEF PoolInv, LockOK
<1>4. CASE is_shutdown
  <2>1. wpc' = [wpc EXCEPT ![w] = "exit"] /\ UNCHANGED <<tasks, hand>>
    BY <1>4 DEF PopOrExit
  <2>2. \A v \in Workers : wpc'[v] = IF v = w THEN "exit" ELSE wpc[v]
    BY <1>2, <2>1
  <2>3. TypeOK'
    BY <1>1, <1>2, <2>1 DEF PoolInv, TypeOK
  <2>4. ThreadsOK'
    BY <1>1, <2>2 DEF PoolInv, ThreadsOK
  <2>5. LockOK'
    BY <1>1, <1>3, <2>1, <2>2, PoolAssumption DEF PoolInv, LockOK
  <2> QED
    BY <2>3, <2>4, <2>5 DEF PoolInv
<1>5. CASE ~is_shutdown
  <2>1. /\ wpc' = [wpc EXCEPT ![w] = "run"]
        /\ hand' = [hand EXCEPT ![w] = Head(tasks)]
        /\ tasks' = Tail(tasks)
    BY <1>5 DEF PopOrExit
  <2>2. tasks # <<>>
    BY <1>1, <1>5 DEF PoolInv, LockOK
  <2>3. Head(tasks) \in Nat /\ Tail(tasks) \in Seq(Nat)
    BY <1>2, <2>2
  <2>4. \A v \in Workers : /\ wpc'[v] = IF v = w THEN "run" ELSE wpc[v]
                           /\ v # w => hand'[v] = hand[v]
    BY <1>2, <2>1
  <2>5. TypeOK'
    BY <1>1, <1>2, <2>1, <2>3 DEF PoolInv, TypeOK
  <2>6. ThreadsOK'
    BY <1>1, <2>4 DEF PoolInv, ThreadsOK
  <2>7. LockOK'
    BY <1>1, <1>3, <2>4, PoolAssumption DEF PoolInv, LockOK
  <2> QED
    BY <2>5, <2>6, <2>7 DEF PoolInv
<1> QED
  BY <1>4, <1>5

LEMMA RunPoolStep ==
    ASSUME PoolInv, NEW w \in Workers, Run(w)
    PROVE  PoolInv'
<1>1. /\ wpc[w] = "run" /\ ran' = Append(ran, hand[w])
      /\ hand' = [hand EXCEPT ![w] = 0]
      /\ wpc' = [wpc EXCEPT ![w] = "lock"]
      /\ UNCHANGED <<mtx, tasks, is_shutdown, is_available, waiting, workers,
                     opc, starts, thread_count, cpc, mine, wants, calls,
                     posted, covered, missed>>
  BY DEF Run, flags, owner, users
<1>2. /\ wpc \in [Workers -> {"none", "lock", "pred", "sleep", "wait",
                              "check", "run", "exit"}]
      /\ hand \in [Workers -> Nat] /\ ran \in Seq(Nat)
  BY DEF PoolInv, TypeOK
<1>3. ran' \in Seq(Nat)
  BY <1>1, <1>2
<1>4. \A v \in Workers : /\ wpc'[v] = IF v = w THEN "lock" ELSE wpc[v]
                         /\ hand'[v] = IF v = w THEN 0 ELSE hand[v]
  BY <1>1, <1>2
<1>5. TypeOK'
  BY <1>1, <1>2, <1>3 DEF PoolInv, TypeOK
<1>6. ThreadsOK'
  BY <1>1, <1>4 DEF PoolInv, ThreadsOK
<1>7. LockOK'
  BY <1>1, <1>4 DEF PoolInv, LockOK
<1> QED
  BY <1>5, <1>6, <1>7 DEF PoolInv

\* Every step keeps types, threads and the lock.
LEMMA PoolStep ==
    PoolInv /\ [Next]_vars => PoolInv'
<1> SUFFICES ASSUME PoolInv, [Next]_vars
             PROVE  PoolInv'
  OBVIOUS
<1>1. CASE Start \/ Stop \/ OwnerStep
  BY <1>1, FlagPoolStep, AddThreadPoolStep, NotifyAllPoolStep, JoinPoolStep
     DEF OwnerStep
<1>2. ASSUME NEW c \in Clients, Post(c) \/ ClientStep(c)
      PROVE  PoolInv'
  BY <1>2, ClientPoolStep, EmplacePoolStep, NotifyPoolStep DEF ClientStep
<1>3. ASSUME NEW w \in Workers, WorkerStep(w) \/ SpuriousWakeup(w)
      PROVE  PoolInv'
  BY <1>3, LockPoolStep, PopPoolStep, RunPoolStep DEF WorkerStep
<1>4. CASE UNCHANGED vars
  <2>1. UNCHANGED <<pool, owner>>
    BY <1>4 DEF vars
  <2>2. UNCHANGED <<mtx, tasks, is_shutdown, is_available, waiting, workers,
                    wpc, hand, opc, starts, thread_count, cpc, mine, wants,
                    calls, posted, ran, covered, missed>>
    BY <1>4 DEF vars, pool, flags, owner, users, hist
  <2>3. TypeOK'
    BY <2>2 DEF PoolInv, TypeOK
  <2> QED
    BY <2>1, <2>3, PoolKept DEF PoolInv
<1> QED
  BY <1>1, <1>2, <1>3, <1>4 DEF Next

-----------------------------------------------------------------------------
(* No task is lost or runs twice. *)

LEMMA TasksInit == Init => TasksInv
<1> SUFFICES ASSUME Init PROVE TasksInv
  OBVIOUS
<1>1. /\ tasks = <<>> /\ ran = <<>> /\ posted = <<>>
      /\ wpc = [w \in Workers |-> "none"] /\ hand = [w \in Workers |-> 0]
      /\ cpc = [c \in Clients |-> "idle"]
  BY DEF Init
<1>2. /\ ElementsOf(tasks) = {} /\ ElementsOf(ran) = {}
      /\ ElementsOf(posted) = {}
      /\ Distinct(tasks) /\ Distinct(ran) /\ Distinct(posted)
  BY <1>1 DEF ElementsOf, Distinct
<1>3. NumbersOK
  BY <1>1, <1>2 DEF NumbersOK
<1>4. OnlyPosted /\ Somewhere /\ Apart
  BY <1>1, <1>2 DEF OnlyPosted, Somewhere, Apart
<1> QED
  BY <1>3, <1>4 DEF TasksInv

\* Steps that move no task and post none.
LEMMA PlacesKept ==
    ASSUME TasksInv, UNCHANGED <<tasks, hand, ran, posted>>,
           \A w \in Workers : wpc'[w] = "run" => wpc[w] = "run"
    PROVE  OnlyPosted' /\ Somewhere' /\ Apart'
<1>1. /\ ElementsOf(tasks)' = ElementsOf(tasks)
      /\ ElementsOf(ran)' = ElementsOf(ran)
      /\ ElementsOf(posted)' = ElementsOf(posted)
      /\ Distinct(tasks)' = Distinct(tasks) /\ Distinct(ran)' = Distinct(ran)
  BY DEF ElementsOf, Distinct
<1>2. OnlyPosted' /\ Somewhere'
  BY <1>1 DEF TasksInv, OnlyPosted, Somewhere
<1>3. Apart'
  BY <1>1 DEF TasksInv, Apart
<1> QED
  BY <1>2, <1>3

\* A call goes on towards the push, or ends, and its number with it.
LEMMA NumbersKept ==
    ASSUME PoolInv, TasksInv, NEW c \in Clients,
           UNCHANGED <<posted, calls>>,
           \/ Return(c)
           \/ cpc[c] = "shutdown" /\ Goto(c, "available")
           \/ cpc[c] = "available" /\ Goto(c, "emplace")
           \/ cpc[c] = "notify" /\ Goto(c, "future")
    PROVE  NumbersOK'
<1>1. /\ cpc \in [Clients -> {"idle", "shutdown", "available", "emplace",
                               "notify", "future"}]
      /\ mine \in [Clients -> Nat]
  BY DEF PoolInv, TypeOK
<1>2. \A d \in Clients :
         /\ cpc'[d] # "idle" => mine'[d] = mine[d] /\ cpc[d] # "idle"
         /\ cpc'[d] \in {"shutdown", "available", "emplace"} =>
                cpc[d] \in {"shutdown", "available", "emplace"}
  BY <1>1 DEF Return, Goto
<1>3. ElementsOf(posted)' = ElementsOf(posted)
      /\ Distinct(posted)' = Distinct(posted)
  BY DEF ElementsOf, Distinct
<1>4. /\ \A d \in Clients : cpc'[d] # "idle" => mine'[d] > 0 /\ mine'[d] <= calls'
      /\ \A d, e \in Clients :
            cpc'[d] # "idle" /\ cpc'[e] # "idle" /\ mine'[d] = mine'[e] => d = e
  BY <1>2 DEF TasksInv, NumbersOK
<1>5. \A d \in Clients : cpc'[d] \in {"shutdown", "available", "emplace"} =>
                             mine'[d] \notin ElementsOf(posted)'
  <2> SUFFICES ASSUME NEW d \in Clients,
                      cpc'[d] \in {"shutdown", "available", "emplace"}
               PROVE  mine'[d] \notin ElementsOf(posted)'
    OBVIOUS
  <2>1. cpc'[d] # "idle" /\ cpc[d] \in {"shutdown", "available", "emplace"}
    BY <1>2
  <2>2. mine'[d] = mine[d]
    BY <1>2, <2>1
  <2> QED
    BY <1>3, <2>1, <2>2 DEF TasksInv, NumbersOK
<1> QED
  BY <1>3, <1>4, <1>5 DEF TasksInv, NumbersOK

\* A new number for a new call.
LEMMA PostTasksStep ==
    ASSUME PoolInv, TasksInv, NEW c \in Clients, Post(c)
    PROVE  TasksInv'
<1>1. /\ calls' = calls + 1
      /\ mine' = [mine EXCEPT ![c] = calls + 1]
      /\ cpc' = [cpc EXCEPT ![c] = "shutdown"]
      /\ UNCHANGED <<tasks, hand, ran, posted, wpc>>
  BY DEF Post, pool, hist
<1>2. /\ cpc \in [Clients -> {"idle", "shutdown", "available", "emplace",
                               "notify", "future"}]
      /\ mine \in [Clients -> Nat] /\ calls \in Nat
  BY DEF PoolInv, TypeOK
<1>3. ElementsOf(posted)' = ElementsOf(posted)
      /\ Distinct(posted)' = Distinct(posted)
  BY <1>1 DEF ElementsOf, Distinct
<1>4. \A d \in Clients :
         /\ cpc'[d] = IF d = c THEN "shutdown" ELSE cpc[d]
         /\ mine'[d] = IF d = c THEN calls + 1 ELSE mine[d]
  BY <1>1, <1>2
<1>5. \A n \in ElementsOf(posted) : n \in Nat /\ n > 0 /\ n <= calls
  BY DEF TasksInv, NumbersOK, PoolInv, TypeOK, ElementsOf
<1>6. \A d \in Clients : cpc'[d] # "idle" =>
          mine'[d] > 0 /\ mine'[d] <= calls + 1
  BY <1>2, <1>4 DEF TasksInv, NumbersOK
<1>7. \A d \in Clients : d # c /\ cpc[d] # "idle" => mine[d] # calls + 1
  BY <1>2 DEF TasksInv, NumbersOK
<1>8. \A d, e \in Clients :
          cpc'[d] # "idle" /\ cpc'[e] # "idle" /\ mine'[d] = mine'[e] => d = e
  BY <1>4, <1>7 DEF TasksInv, NumbersOK
<1>9. calls + 1 \notin ElementsOf(posted)
  BY <1>2, <1>5
<1>10. \A d \in Clients : cpc'[d] \in {"shutdown", "available", "emplace"} =>
                              mine'[d] \notin ElementsOf(posted)
  BY <1>4, <1>9 DEF TasksInv, NumbersOK
<1>11. \A n \in ElementsOf(posted) : n > 0 /\ n <= calls + 1
  BY <1>2, <1>5
<1>12. NumbersOK'
  BY <1>1, <1>3, <1>6, <1>8, <1>10, <1>11 DEF TasksInv, NumbersOK
<1> QED
  BY <1>1, <1>12, PlacesKept DEF TasksInv

\* The push takes the task to the queue and to the posted ones.
LEMMA EmplaceTasksStep ==
    ASSUME PoolInv, TasksInv, NEW c \in Clients, Emplace(c)
    PROVE  TasksInv'
<1>1. /\ cpc[c] = "emplace"
      /\ tasks' = Append(tasks, mine[c])
      /\ posted' = Append(posted, mine[c])
      /\ cpc' = [cpc EXCEPT ![c] = "notify"]
      /\ UNCHANGED <<mine, hand, ran, wpc, calls>>
  BY DEF Emplace, Goto
<1>2. /\ cpc \in [Clients -> {"idle", "shutdown", "available", "emplace",
                               "notify", "future"}]
      /\ tasks \in Seq(Nat) /\ posted \in Seq(Nat) /\ mine[c] \in Nat
      /\ hand \in [Workers -> Nat]
  BY DEF PoolInv, TypeOK
<1>3. mine[c] > 0 /\ mine[c] <= calls /\ mine[c] \notin ElementsOf(posted)
  BY <1>1 DEF TasksInv, NumbersOK
<1>4. mine[c] \notin ElementsOf(tasks) /\ mine[c] \notin ElementsOf(ran)
  BY <1>3 DEF TasksInv, OnlyPosted
<1>5. \A w \in Workers : hand[w] # mine[c]
  <2>1. \A w \in Workers : hand[w] # 0 => hand[w] \in ElementsOf(posted)
    BY DEF PoolInv, LockOK, TasksInv, OnlyPosted
  <2> QED
    BY <1>2, <1>3, <2>1
<1>6. /\ ElementsOf(tasks') = ElementsOf(tasks) \cup {mine[c]}
      /\ ElementsOf(posted') = ElementsOf(posted) \cup {mine[c]}
      /\ Distinct(tasks') /\ Distinct(posted')
  BY <1>1, <1>2, <1>3, <1>4, AppendElements DEF TasksInv, NumbersOK, Apart
<1>7. ElementsOf(ran') = ElementsOf(ran) /\ Distinct(ran')
  BY <1>1 DEF TasksInv, Apart
<1>8. \A d \in Clients : cpc'[d] = IF d = c THEN "notify" ELSE cpc[d]
  BY <1>1, <1>2
<1>9. NumbersOK'
  <2>1. \A d \in Clients : cpc[d] # "idle" /\ d # c => mine[d] # mine[c]
    BY <1>1 DEF TasksInv, NumbersOK
  <2>2. \A d \in Clients : cpc'[d] \in {"shutdown", "available", "emplace"} =>
                               mine'[d] \notin ElementsOf(posted')
    BY <1>1, <1>6, <1>8, <2>1 DEF TasksInv, NumbersOK
  <2>3. \A d \in Clients : cpc'[d] # "idle" => cpc[d] # "idle"
    BY <1>1, <1>8
  <2>4. \A n \in ElementsOf(posted') : n > 0 /\ n <= calls'
    BY <1>1, <1>3, <1>6 DEF TasksInv, NumbersOK
  <2> QED
    BY <1>1, <1>6, <2>2, <2>3, <2>4 DEF TasksInv, NumbersOK
<1>10. OnlyPosted'
  BY <1>1, <1>6, <1>7 DEF TasksInv, OnlyPosted
<1>11. Somewhere'
  BY <1>1, <1>6, <1>7 DEF TasksInv, Somewhere
<1>12. Apart'
  BY <1>1, <1>4, <1>5, <1>6, <1>7 DEF TasksInv, Apart
<1> QED
  BY <1>9, <1>10, <1>11, <1>12 DEF TasksInv

\* The pop takes the first task of the queue into the worker's hand.
LEMMA PopTasksStep ==
    ASSUME PoolInv, TasksInv, NEW w \in Workers, PopOrExit(w)
    PROVE  TasksInv'
<1>1. wpc[w] = "check" /\ UNCHANGED <<ran, posted, cpc, mine, calls>>
  BY DEF PopOrExit, users, hist
<1>2. /\ wpc \in [Workers -> {"none", "lock", "pred", "sleep", "wait",
                              "check", "run", "exit"}]
      /\ hand \in [Workers -> Nat] /\ tasks \in Seq(Nat)
  BY DEF PoolInv, TypeOK
<1>3. NumbersOK'
  BY <1>1 DEF TasksInv, NumbersOK, ElementsOf, Distinct
<1>4. CASE is_shutdown
  <2>1. wpc' = [wpc EXCEPT ![w] = "exit"] /\ UNCHANGED <<tasks, hand>>
    BY <1>4 DEF PopOrExit
  <2>2. \A v \in Workers : wpc'[v] = "run" => wpc[v] = "run"
    BY <1>2, <2>1
  <2> QED
    BY <1>1, <1>3, <2>1, <2>2, PlacesKept DEF TasksInv
<1>5. CASE ~is_shutdown
  <2>1. /\ wpc' = [wpc EXCEPT ![w] = "run"]
        /\ hand' = [hand EXCEPT ![w] = Head(tasks)]
        /\ tasks' = Tail(tasks)
    BY <1>5 DEF PopOrExit
  <2>2. tasks # <<>>
    BY <1>1, <1>5 DEF PoolInv, LockOK
  <2>3. /\ Head(tasks) \in ElementsOf(tasks)
        /\ ElementsOf(tasks') = ElementsOf(tasks) \ {Head(tasks)}
        /\ Distinct(tasks')
    BY <1>2, <2>1, <2>2, TailElements DEF TasksInv, Apart
  <2>4. /\ ElementsOf(ran') = ElementsOf(ran)
        /\ ElementsOf(posted') = ElementsOf(posted)
        /\ Distinct(ran')
    BY <1>1 DEF TasksInv, Apart
  <2>5. \A v \in Workers : /\ wpc'[v] = IF v = w THEN "run" ELSE wpc[v]
                           /\ hand'[v] = IF v = w THEN Head(tasks) ELSE hand[v]
    BY <1>2, <2>1
  <2>6. hand[w] = 0
    BY <1>1 DEF PoolInv, LockOK
  <2>7. \A n \in ElementsOf(posted) : n # 0
    BY DEF TasksInv, NumbersOK
  <2>8. OnlyPosted'
    BY <2>3, <2>4, <2>5 DEF TasksInv, OnlyPosted
  <2>9. Somewhere'
    BY <2>3, <2>4, <2>5, <2>6, <2>7 DEF TasksInv, Somewhere
  <2>10. Apart'
    <3>1. \A v \in Workers : hand[v] # Head(tasks)
      BY <2>3 DEF TasksInv, Apart
    <3>2. Head(tasks) \notin ElementsOf(ran)
      BY <2>3 DEF TasksInv, Apart
    <3>3. \A v \in Workers :
             hand'[v] \notin ElementsOf(tasks') \cup ElementsOf(ran')
      BY <2>3, <2>4, <2>5, <3>2 DEF TasksInv, Apart
    <3>4. \A u, v \in Workers : hand'[u] # 0 /\ hand'[u] = hand'[v] => u = v
      BY <2>5, <3>1 DEF TasksInv, Apart
    <3> QED
      BY <2>3, <2>4, <3>3, <3>4 DEF TasksInv, Apart
  <2> QED
    BY <1>3, <2>8, <2>9, <2>10 DEF TasksInv
<1> QED
  BY <1>4, <1>5

\* The end of a task takes it from the hand to the finished ones.
LEMMA RunTasksStep ==
    ASSUME PoolInv, TasksInv, NEW w \in Workers, Run(w)
    PROVE  TasksInv'
<1>1. /\ wpc[w] = "run" /\ ran' = Append(ran, hand[w])
      /\ hand' = [hand EXCEPT ![w] = 0]
      /\ wpc' = [wpc EXCEPT ![w] = "lock"]
      /\ UNCHANGED <<tasks, posted, cpc, mine, calls>>
  BY DEF Run, users
<1>2. /\ wpc \in [Workers -> {"none", "lock", "pred", "sleep", "wait",
                              "check", "run", "exit"}]
      /\ hand \in [Workers -> Nat] /\ ran \in Seq(Nat) /\ hand[w] \in Nat
  BY DEF PoolInv, TypeOK
<1>3. /\ hand[w] \in ElementsOf(posted) /\ hand[w] # 0
      /\ hand[w] \notin ElementsOf(tasks) /\ hand[w] \notin ElementsOf(ran)
  BY <1>1 DEF TasksInv, NumbersOK, OnlyPosted, Apart
<1>4. /\ ElementsOf(ran') = ElementsOf(ran) \cup {hand[w]} /\ Distinct(ran')
      /\ ElementsOf(tasks') = ElementsOf(tasks) /\ Distinct(tasks')
      /\ ElementsOf(posted') = ElementsOf(posted)
  BY <1>1, <1>2, <1>3, AppendElements DEF TasksInv, Apart
<1>5. \A v \in Workers : /\ wpc'[v] = IF v = w THEN "lock" ELSE wpc[v]
                         /\ hand'[v] = IF v = w THEN 0 ELSE hand[v]
  BY <1>1, <1>2
<1>6. NumbersOK'
  BY <1>1 DEF TasksInv, NumbersOK, ElementsOf, Distinct
<1>7. OnlyPosted'
  BY <1>3, <1>4, <1>5 DEF TasksInv, OnlyPosted
<1>8. Somewhere'
  BY <1>4, <1>5 DEF TasksInv, Somewhere
<1>9. Apart'
  <2>1. 0 \notin ElementsOf(tasks) \cup ElementsOf(ran')
    BY <1>3, <1>4 DEF TasksInv, NumbersOK, OnlyPosted
  <2>2. \A v \in Workers : v # w => hand[v] # hand[w]
    BY <1>3 DEF TasksInv, Apart
  <2>3. \A v \in Workers :
           hand'[v] \notin ElementsOf(tasks') \cup ElementsOf(ran')
    BY <1>4, <1>5, <2>1, <2>2 DEF TasksInv, Apart
  <2> QED
    BY <1>3, <1>4, <1>5, <2>3 DEF TasksInv, Apart
<1> QED
  BY <1>6, <1>7, <1>8, <1>9 DEF TasksInv

\* Every step keeps the tasks together.
LEMMA TasksStep ==
    PoolInv /\ TasksInv /\ [Next]_vars => TasksInv'
<1> SUFFICES ASSUME PoolInv, TasksInv, [Next]_vars
             PROVE  TasksInv'
  OBVIOUS
<1>1. ASSUME UNCHANGED <<tasks, hand, ran, posted, cpc, mine, calls>>,
             \A w \in Workers : wpc'[w] = "run" => wpc[w] = "run"
      PROVE  TasksInv'
  <2>1. NumbersOK'
    BY <1>1 DEF TasksInv, NumbersOK, ElementsOf, Distinct
  <2> QED
    BY <1>1, <2>1, PlacesKept DEF TasksInv
<1>2. wpc \in [Workers -> {"none", "lock", "pred", "sleep", "wait",
                           "check", "run", "exit"}]
  BY DEF PoolInv, TypeOK
<1>3. CASE Start \/ Stop \/ OwnerStep
  <2>1. UNCHANGED <<tasks, hand, ran, posted, cpc, mine, calls>>
    BY <1>3 DEF Start, Stop, OwnerStep, ClearShutdown, AddThread, SetShutdown,
                NotifyAll, Join, users, hist
  <2>2. \A w \in Workers : wpc'[w] = "run" => wpc[w] = "run"
    BY <1>2, <1>3 DEF Start, Stop, OwnerStep, ClearShutdown, AddThread,
                      SetShutdown, NotifyAll, Join
  <2> QED
    BY <1>1, <2>1, <2>2
<1>4. ASSUME NEW c \in Clients, Post(c) \/ ClientStep(c)
      PROVE  TasksInv'
  <2>1. CASE Post(c)
    BY <2>1, PostTasksStep
  <2>2. CASE Emplace(c)
    BY <2>2, EmplaceTasksStep
  <2>3. CASE ReadShutdown(c) \/ ReadAvailable(c) \/ Await(c)
    <3>1. UNCHANGED <<tasks, hand, ran, posted, wpc, calls>>
      BY <2>3 DEF ReadShutdown, ReadAvailable, Await, pool, hist
    <3>2. \/ Return(c)
          \/ cpc[c] = "shutdown" /\ Goto(c, "available")
          \/ cpc[c] = "available" /\ Goto(c, "emplace")
      BY <2>3 DEF ReadShutdown, ReadAvailable, Await
    <3>3. NumbersOK'
      BY <3>1, <3>2, NumbersKept
    <3> QED
      BY <3>1, <3>3, PlacesKept DEF TasksInv
  <2>4. CASE NotifyOne(c)
    <3>1. UNCHANGED <<tasks, hand, ran, posted, calls>>
      BY <2>4 DEF NotifyOne, hist
    <3>2. \A w \in Workers : wpc'[w] = "run" => wpc[w] = "run"
      <4>1. \/ UNCHANGED wpc
            \/ \E w \in Workers : wpc' = [wpc EXCEPT ![w] = "lock"]
        BY <2>4 DEF NotifyOne, PoolInv, TypeOK
      <4> QED
        BY <1>2, <4>1
    <3>5. cpc[c] = "notify" /\ (Return(c) \/ Goto(c, "future"))
      BY <2>4 DEF NotifyOne
    <3>3. Return(c) \/ (cpc[c] = "notify" /\ Goto(c, "future"))
      BY <3>5
    <3>4. NumbersOK'
      BY <3>1, <3>3, NumbersKept
    <3> QED
      BY <3>1, <3>2, <3>4, PlacesKept DEF TasksInv
  <2> QED
    BY <1>4, <2>1, <2>2, <2>3, <2>4 DEF ClientStep
<1>5. ASSUME NEW w \in Workers, WorkerStep(w) \/ SpuriousWakeup(w)
      PROVE  TasksInv'
  <2>1. CASE PopOrExit(w)
    BY <2>1, PopTasksStep
  <2>2. CASE Run(w)
    BY <2>2, RunTasksStep
  <2>3. CASE Lock(w) \/ Predicate(w) \/ Sleep(w) \/ SpuriousWakeup(w)
    <3>1. UNCHANGED <<tasks, hand, ran, posted, cpc, mine, calls>>
      BY <2>3 DEF Lock, Predicate, Sleep, SpuriousWakeup, users, hist
    <3>2. \A v \in Workers : wpc'[v] = "run" => wpc[v] = "run"
      BY <1>2, <2>3 DEF Lock, Predicate, Sleep, SpuriousWakeup
    <3> QED
      BY <1>1, <3>1, <3>2
  <2> QED
    BY <1>5, <2>1, <2>2, <2>3 DEF WorkerStep
<1>6. CASE UNCHANGED vars
  BY <1>1, <1>6 DEF vars, pool, users, hist
<1> QED
  BY <1>3, <1>4, <1>5, <1>6 DEF Next

\* The places of a task, counted.
LEMMA OnePlace ==
    ASSUME PoolInv, TasksInv, NEW n \in ElementsOf(posted)
    PROVE  Places(n) = 1
<1> DEFINE T == {i \in 1..Len(tasks) : tasks[i] = n}
           H == {w \in Workers : hand[w] = n}
           R == {i \in 1..Len(ran) : ran[i] = n}
<1>1. Places(n) = Cardinality(T) + Cardinality(H) + Cardinality(R)
  BY DEF Places
<1>2. Cardinality({}) = 0
  BY FS_EmptySet
<1>3. \A x : Cardinality({x}) = 1
  BY FS_Singleton
<1>4. n # 0
  BY DEF TasksInv, NumbersOK
<1>5. n \in ElementsOf(tasks) => \E i : T = {i}
  <2> SUFFICES ASSUME n \in ElementsOf(tasks) PROVE \E i : T = {i}
    OBVIOUS
  <2>1. PICK i \in 1..Len(tasks) : tasks[i] = n
    BY DEF ElementsOf
  <2>2. \A j \in 1..Len(tasks) : tasks[j] = n => j = i
    BY <2>1 DEF TasksInv, Apart, Distinct
  <2>3. T = {i}
    BY <2>1, <2>2
  <2> QED
    BY <2>3
<1>6. n \in ElementsOf(ran) => \E i : R = {i}
  <2> SUFFICES ASSUME n \in ElementsOf(ran) PROVE \E i : R = {i}
    OBVIOUS
  <2>1. PICK i \in 1..Len(ran) : ran[i] = n
    BY DEF ElementsOf
  <2>2. \A j \in 1..Len(ran) : ran[j] = n => j = i
    BY <2>1 DEF TasksInv, Apart, Distinct
  <2>3. R = {i}
    BY <2>1, <2>2
  <2> QED
    BY <2>3
<1>7. (\E w \in Workers : hand[w] = n) => \E w : H = {w}
  BY <1>4 DEF TasksInv, Apart
<1>8. /\ n \notin ElementsOf(tasks) => T = {}
      /\ n \notin ElementsOf(ran) => R = {}
      /\ ~(\E w \in Workers : hand[w] = n) => H = {}
  BY DEF ElementsOf
<1>9. /\ ~(n \in ElementsOf(tasks) /\ n \in ElementsOf(ran))
      /\ (\E w \in Workers : hand[w] = n) =>
            n \notin ElementsOf(tasks) /\ n \notin ElementsOf(ran)
  BY DEF TasksInv, Apart
<1> HIDE DEF T, H, R
<1>10. CASE n \in ElementsOf(tasks)
  <2>1. Cardinality(T) = 1 /\ Cardinality(H) = 0 /\ Cardinality(R) = 0
    BY <1>2, <1>3, <1>5, <1>8, <1>9, <1>10
  <2> QED
    BY <1>1, <2>1
<1>11. CASE n \in ElementsOf(ran)
  <2>1. Cardinality(T) = 0 /\ Cardinality(H) = 0 /\ Cardinality(R) = 1
    BY <1>2, <1>3, <1>6, <1>8, <1>9, <1>11
  <2> QED
    BY <1>1, <2>1
<1>12. CASE \E w \in Workers : hand[w] = n
  <2>1. Cardinality(T) = 0 /\ Cardinality(H) = 1 /\ Cardinality(R) = 0
    BY <1>2, <1>3, <1>7, <1>8, <1>9, <1>12
  <2> QED
    BY <1>1, <2>1
<1> QED
  BY <1>10, <1>11, <1>12 DEF TasksInv, Somewhere

-----------------------------------------------------------------------------
(* One thread runs the tasks in the order of posting. *)

LEMMA FifoInit == Init => FifoInv /\ CoveredInv
<1> SUFFICES ASSUME Init PROVE FifoInv /\ CoveredInv
  OBVIOUS
<1>1. /\ tasks = <<>> /\ ran = <<>> /\ posted = <<>> /\ covered = {}
      /\ hand = [w \in Workers |-> 0]
  BY DEF Init
<1> QED
  BY <1>1 DEF FifoInv, CoveredInv

\* Steps that move no task and post none.
LEMMA FifoKept ==
    ASSUME FifoInv, UNCHANGED <<tasks, hand, ran, posted, thread_count>>
    PROVE  FifoInv'
BY DEF FifoInv

LEMMA EmplaceFifoStep ==
    ASSUME PoolInv, FifoInv, NEW c \in Clients, Emplace(c)
    PROVE  FifoInv'
<1>1. /\ tasks' = Append(tasks, mine[c])
      /\ posted' = Append(posted, mine[c])
      /\ UNCHANGED <<hand, ran, thread_count>>
  BY DEF Emplace, owner
<1> SUFFICES ASSUME thread_count = 1
             PROVE  FifoInv'
  BY <1>1 DEF FifoInv
<1>2. /\ tasks \in Seq(Nat) /\ posted \in Seq(Nat) /\ ran \in Seq(Nat)
      /\ mine[c] \in Nat
  BY DEF PoolInv, TypeOK
<1>3. /\ Len(posted) \in Nat /\ Len(tasks) \in Nat /\ Len(ran) \in Nat
      /\ Len(posted') = Len(posted) + 1 /\ Len(tasks') = Len(tasks) + 1
      /\ \A i \in 1..Len(posted) : posted'[i] = posted[i]
      /\ \A i \in 1..Len(tasks) : tasks'[i] = tasks[i]
      /\ posted'[Len(posted) + 1] = mine[c] /\ tasks'[Len(tasks) + 1] = mine[c]
  BY <1>1, <1>2
<1>4. /\ \A i \in 1..Len(ran) : i <= Len(posted) /\ posted[i] = ran[i]
      /\ \/ /\ \A w \in Workers : hand[w] = 0
            /\ Len(posted) = Len(ran) + Len(tasks)
         \/ /\ \E w \in Workers : hand[w] # 0
            /\ Len(posted) = Len(ran) + 1 + Len(tasks)
      /\ \A w \in Workers : hand[w] # 0 => hand[w] = posted[Len(ran) + 1]
      /\ \A i \in 1..Len(tasks) :
            tasks[i] = posted[Len(posted) - Len(tasks) + i]
  BY DEF FifoInv
<1>5. \A i \in 1..Len(ran) : i <= Len(posted) + 1 /\ posted'[i] = ran[i]
  BY <1>3, <1>4
<1>6. \/ /\ \A w \in Workers : hand[w] = 0
         /\ Len(posted) + 1 = Len(ran) + (Len(tasks) + 1)
      \/ /\ \E w \in Workers : hand[w] # 0
         /\ Len(posted) + 1 = Len(ran) + 1 + (Len(tasks) + 1)
  <2>1. Len(posted) \in Nat /\ Len(tasks) \in Nat /\ Len(ran) \in Nat
    BY <1>3
  <2>2. \/ /\ \A w \in Workers : hand[w] = 0
           /\ Len(posted) = Len(ran) + Len(tasks)
        \/ /\ \E w \in Workers : hand[w] # 0
           /\ Len(posted) = Len(ran) + 1 + Len(tasks)
    BY <1>4
  <2> QED
    BY <2>1, <2>2
<1>7. \A w \in Workers : hand[w] # 0 => hand[w] = posted'[Len(ran) + 1]
  <2>1. (\E w \in Workers : hand[w] # 0) => Len(ran) + 1 \in 1..Len(posted)
    BY <1>3, <1>4
  <2> QED
    BY <1>3, <1>4, <2>1
<1>8. \A i \in 1..(Len(tasks) + 1) :
         tasks'[i] = posted'[(Len(posted) + 1) - (Len(tasks) + 1) + i]
  <2> SUFFICES ASSUME NEW i \in 1..(Len(tasks) + 1)
               PROVE  tasks'[i] =
                         posted'[(Len(posted) + 1) - (Len(tasks) + 1) + i]
    OBVIOUS
  <2>1. (Len(posted) + 1) - (Len(tasks) + 1) + i = Len(posted) - Len(tasks) + i
    BY <1>3
  <2>2. CASE i = Len(tasks) + 1
    <3>1. Len(posted) - Len(tasks) + i = Len(posted) + 1
      BY <1>3, <2>2
    <3> QED
      BY <1>3, <2>1, <2>2, <3>1
  <2>3. CASE i # Len(tasks) + 1
    <3>1. i \in 1..Len(tasks)
      BY <1>3, <2>3
    <3>2. Len(posted) - Len(tasks) + i \in 1..Len(posted)
      BY <1>3, <1>4, <3>1
    <3> QED
      BY <1>3, <1>4, <2>1, <3>1, <3>2
  <2> QED
    BY <2>2, <2>3
<1>9. \A i \in 1..Len(tasks') :
         tasks'[i] = posted'[Len(posted') - Len(tasks') + i]
  BY <1>3, <1>8
<1>10. \A i \in 1..Len(ran') : i <= Len(posted') /\ posted'[i] = ran'[i]
  BY <1>1, <1>3, <1>5
<1> QED
  BY <1>1, <1>3, <1>6, <1>7, <1>9, <1>10 DEF FifoInv

\* With one thread, a worker that is there is the only one.
LEMMA OneWorker ==
    ASSUME PoolInv, thread_count = 1, NEW w \in Workers, wpc[w] # "none"
    PROVE  \A v \in Workers : wpc[v] # "none" => v = w
<1> SUFFICES ASSUME NEW v \in Workers, wpc[v] # "none", v # w
             PROVE  FALSE
  OBVIOUS
<1>1. /\ v \in workers /\ w \in workers /\ Cardinality(workers) <= 1
      /\ workers \subseteq Workers
  BY DEF PoolInv, TypeOK, ThreadsOK
<1>2. IsFiniteSet(workers)
  BY <1>1, PoolAssumption, FS_Subset
<1>3. {v, w} \subseteq workers
  BY <1>1
<1>4. Cardinality({v, w}) <= Cardinality(workers)
  BY <1>2, <1>3, FS_Subset
<1>5. Cardinality({v, w}) = 2
  <2>1. IsFiniteSet({w}) /\ Cardinality({w}) = 1
    BY FS_Singleton
  <2>2. {v, w} = {w} \cup {v} /\ v \notin {w}
    OBVIOUS
  <2> QED
    BY <2>1, <2>2, FS_AddElement
<1>6. Cardinality(workers) \in Nat
  BY <1>2, FS_CardinalityType
<1> QED
  BY <1>1, <1>4, <1>5, <1>6

LEMMA PopFifoStep ==
    ASSUME PoolInv, TasksInv, FifoInv, NEW w \in Workers, PopOrExit(w)
    PROVE  FifoInv'
<1>1. wpc[w] = "check" /\ UNCHANGED <<ran, posted, thread_count>>
  BY DEF PopOrExit, owner, hist
<1> SUFFICES ASSUME thread_count = 1, ~is_shutdown
             PROVE  FifoInv'
  <2>1. CASE is_shutdown
    <3>1. UNCHANGED <<tasks, hand>>
      BY <2>1 DEF PopOrExit
    <3> QED
      BY <1>1, <3>1, FifoKept
  <2>2. CASE thread_count # 1
    BY <1>1, <2>2 DEF FifoInv
  <2> QED
    BY <2>1, <2>2
<1>2. /\ hand' = [hand EXCEPT ![w] = Head(tasks)]
      /\ tasks' = Tail(tasks)
  BY DEF PopOrExit
<1>3. tasks # <<>>
  BY <1>1 DEF PoolInv, LockOK
<1>4. /\ tasks \in Seq(Nat) /\ posted \in Seq(Nat) /\ ran \in Seq(Nat)
      /\ hand \in [Workers -> Nat]
  BY DEF PoolInv, TypeOK
<1>5. /\ Len(posted) \in Nat /\ Len(tasks) \in Nat /\ Len(ran) \in Nat
      /\ Len(tasks) > 0 /\ Len(tasks') = Len(tasks) - 1
      /\ Head(tasks) = tasks[1]
      /\ \A i \in 1..(Len(tasks) - 1) : tasks'[i] = tasks[i + 1]
  BY <1>2, <1>3, <1>4
<1>6. \A v \in Workers : hand[v] = 0
  <2>1. \A v \in Workers : v # w => wpc[v] = "none"
    BY <1>1, OneWorker
  <2> QED
    BY <1>1, <2>1 DEF PoolInv, LockOK
<1>7. /\ \A i \in 1..Len(ran) : i <= Len(posted) /\ posted[i] = ran[i]
      /\ Len(posted) = Len(ran) + Len(tasks)
      /\ \A i \in 1..Len(tasks) :
            tasks[i] = posted[Len(posted) - Len(tasks) + i]
  BY <1>6 DEF FifoInv
<1>8. Head(tasks) = posted[Len(ran) + 1]
  <2>1. 1 \in 1..Len(tasks) /\ Len(posted) - Len(tasks) + 1 = Len(ran) + 1
    BY <1>5, <1>7
  <2> QED
    BY <1>5, <1>7, <2>1
<1>9. Head(tasks) # 0
  BY <1>3, <1>4, TailElements DEF TasksInv, NumbersOK, OnlyPosted, Apart
<1>10. /\ hand'[w] # 0
       /\ \A v \in Workers : hand'[v] # 0 => hand'[v] = posted[Len(ran) + 1]
  BY <1>2, <1>4, <1>6, <1>8, <1>9
<1>11. Len(posted) = Len(ran) + 1 + (Len(tasks) - 1)
  BY <1>5, <1>7
<1>12. \A i \in 1..(Len(tasks) - 1) :
          tasks'[i] = posted[Len(posted) - (Len(tasks) - 1) + i]
  <2> SUFFICES ASSUME NEW i \in 1..(Len(tasks) - 1)
               PROVE  tasks'[i] = posted[Len(posted) - (Len(tasks) - 1) + i]
    OBVIOUS
  <2>1. /\ i + 1 \in 1..Len(tasks)
        /\ Len(posted) - Len(tasks) + (i + 1) =
             Len(posted) - (Len(tasks) - 1) + i
    BY <1>5
  <2>2. tasks[i + 1] = posted[Len(posted) - Len(tasks) + (i + 1)]
    BY <1>7, <2>1
  <2> QED
    BY <1>5, <2>1, <2>2
<1> QED
  BY <1>1, <1>5, <1>7, <1>10, <1>11, <1>12 DEF FifoInv

LEMMA RunFifoStep ==
    ASSUME PoolInv, TasksInv, FifoInv, NEW w \in Workers, Run(w)
    PROVE  FifoInv'
<1>1. /\ wpc[w] = "run" /\ ran' = Append(ran, hand[w])
      /\ hand' = [hand EXCEPT ![w] = 0]
      /\ UNCHANGED <<tasks, posted, thread_count>>
  BY DEF Run, owner
<1> SUFFICES ASSUME thread_count = 1
             PROVE  FifoInv'
  BY <1>1 DEF FifoInv
<1>2. /\ tasks \in Seq(Nat) /\ posted \in Seq(Nat) /\ ran \in Seq(Nat)
      /\ hand \in [Workers -> Nat] /\ hand[w] \in Nat
  BY DEF PoolInv, TypeOK
<1>3. /\ Len(posted) \in Nat /\ Len(tasks) \in Nat /\ Len(ran) \in Nat
      /\ Len(ran') = Len(ran) + 1 /\ ran'[Len(ran) + 1] = hand[w]
      /\ \A i \in 1..Len(ran) : ran'[i] = ran[i]
  BY <1>1, <1>2
<1>4. hand[w] # 0
  BY <1>1 DEF TasksInv, NumbersOK, OnlyPosted
<1>5. /\ \A i \in 1..Len(ran) : i <= Len(posted) /\ posted[i] = ran[i]
      /\ Len(posted) = Len(ran) + 1 + Len(tasks)
      /\ hand[w] = posted[Len(ran) + 1]
      /\ \A i \in 1..Len(tasks) :
            tasks[i] = posted[Len(posted) - Len(tasks) + i]
  BY <1>4 DEF FifoInv
<1>6. \A v \in Workers : hand'[v] = 0
  <2>1. \A v \in Workers : v # w => wpc[v] = "none"
    BY <1>1, OneWorker
  <2>2. \A v \in Workers : v # w => hand[v] = 0
    BY <2>1 DEF PoolInv, LockOK
  <2> QED
    BY <1>1, <1>2, <2>2
<1>7. \A i \in 1..(Len(ran) + 1) : i <= Len(posted) /\ posted[i] = ran'[i]
  <2> SUFFICES ASSUME NEW i \in 1..(Len(ran) + 1)
               PROVE  i <= Len(posted) /\ posted[i] = ran'[i]
    OBVIOUS
  <2>1. CASE i = Len(ran) + 1
    BY <1>3, <1>5, <2>1
  <2>2. CASE i # Len(ran) + 1
    <3>1. i \in 1..Len(ran)
      BY <1>3, <2>2
    <3> QED
      BY <1>3, <1>5, <3>1
  <2> QED
    BY <2>1, <2>2
<1>8. Len(posted) = (Len(ran) + 1) + Len(tasks)
  BY <1>5
<1> QED
  BY <1>1, <1>3, <1>5, <1>6, <1>7, <1>8 DEF FifoInv

\* Every step keeps the order.
LEMMA FifoStep ==
    PoolInv /\ TasksInv /\ FifoInv /\ [Next]_vars => FifoInv'
<1> SUFFICES ASSUME PoolInv, TasksInv, FifoInv, [Next]_vars
             PROVE  FifoInv'
  OBVIOUS
<1>1. CASE Start \/ Stop \/ OwnerStep
  <2>1. UNCHANGED <<tasks, hand, ran, posted, thread_count>>
    BY <1>1 DEF Start, Stop, OwnerStep, ClearShutdown, AddThread, SetShutdown,
                NotifyAll, Join, hist
  <2> QED
    BY <2>1, FifoKept
<1>2. ASSUME NEW c \in Clients, Post(c) \/ ClientStep(c)
      PROVE  FifoInv'
  <2>1. CASE Emplace(c)
    BY <2>1, EmplaceFifoStep
  <2>2. CASE Post(c) \/ ReadShutdown(c) \/ ReadAvailable(c) \/ NotifyOne(c)
              \/ Await(c)
    <3>1. UNCHANGED <<tasks, hand, ran, posted, thread_count>>
      BY <2>2 DEF Post, ReadShutdown, ReadAvailable, NotifyOne, Await, pool,
                  owner, hist
    <3> QED
      BY <3>1, FifoKept
  <2> QED
    BY <1>2, <2>1, <2>2 DEF ClientStep
<1>3. ASSUME NEW w \in Workers, WorkerStep(w) \/ SpuriousWakeup(w)
      PROVE  FifoInv'
  <2>1. CASE PopOrExit(w)
    BY <2>1, PopFifoStep
  <2>2. CASE Run(w)
    BY <2>2, RunFifoStep
  <2>3. CASE Lock(w) \/ Predicate(w) \/ Sleep(w) \/ SpuriousWakeup(w)
    <3>1. UNCHANGED <<tasks, hand, ran, posted, thread_count>>
      BY <2>3 DEF Lock, Predicate, Sleep, SpuriousWakeup, owner, hist
    <3> QED
      BY <3>1, FifoKept
  <2> QED
    BY <1>3, <2>1, <2>2, <2>3 DEF WorkerStep
<1>4. CASE UNCHANGED vars
  BY <1>4, FifoKept DEF vars, pool, owner, hist
<1> QED
  BY <1>1, <1>2, <1>3, <1>4 DEF Next

\* A finished task stays finished, and a wait ends with a finished task.
LEMMA CoveredStep ==
    PoolInv /\ CoveredInv /\ [Next]_vars => CoveredInv'
<1> SUFFICES ASSUME PoolInv, CoveredInv, [Next]_vars
             PROVE  CoveredInv'
  OBVIOUS
<1>1. ASSUME UNCHANGED <<ran, covered>> PROVE CoveredInv'
  BY <1>1 DEF CoveredInv
<1>2. ASSUME NEW c \in Clients, Await(c) PROVE CoveredInv'
  BY <1>2 DEF Await, CoveredInv
<1>3. ASSUME NEW w \in Workers, Run(w) PROVE CoveredInv'
  <2>1. /\ ran' = Append(ran, hand[w]) /\ UNCHANGED covered
        /\ ran \in Seq(Nat) /\ hand[w] \in Nat
    BY <1>3 DEF Run, PoolInv, TypeOK
  <2> QED
    BY <2>1, AppendElements DEF CoveredInv
<1>4. CASE Start \/ Stop \/ OwnerStep
  BY <1>1, <1>4 DEF Start, Stop, OwnerStep, ClearShutdown, AddThread,
                    SetShutdown, NotifyAll, Join, hist
<1>5. ASSUME NEW c \in Clients, Post(c) \/ ClientStep(c), ~Await(c)
      PROVE  CoveredInv'
  BY <1>1, <1>5 DEF ClientStep, Post, ReadShutdown, ReadAvailable, Emplace,
                    NotifyOne, hist
<1>6. ASSUME NEW w \in Workers, WorkerStep(w) \/ SpuriousWakeup(w), ~Run(w)
      PROVE  CoveredInv'
  BY <1>1, <1>6 DEF WorkerStep, Lock, Predicate, Sleep, PopOrExit,
                    SpuriousWakeup, hist
<1>7. CASE UNCHANGED vars
  BY <1>1, <1>7 DEF vars, hist
<1> QED
  BY <1>2, <1>3, <1>4, <1>5, <1>6, <1>7 DEF Next

\* What a wait of one thread's pool has covered.
LEMMA CoversEarlier ==
    ASSUME PoolInv, TasksInv, FifoInv, CoveredInv
    PROVE  WaitCoversEarlier
<1> SUFFICES ASSUME thread_count = 1, NEW n \in covered,
                    NEW i \in 1..Len(posted), NEW j \in 1..Len(posted),
                    posted[j] = n, i < j
             PROVE  posted[i] \in ElementsOf(ran)
  BY DEF WaitCoversEarlier
<1>1. Len(posted) \in Nat /\ Len(ran) \in Nat
  BY DEF PoolInv, TypeOK
<1>2. PICK k \in 1..Len(ran) : n = ran[k]
  BY DEF CoveredInv, ElementsOf
<1>3. \A m \in 1..Len(ran) : m <= Len(posted) /\ posted[m] = ran[m]
  BY DEF FifoInv
<1>4. k \in 1..Len(posted) /\ posted[k] = posted[j]
  BY <1>1, <1>2, <1>3
<1>5. k = j
  BY <1>4 DEF TasksInv, NumbersOK, Distinct
<1>6. i \in 1..Len(ran)
  BY <1>1, <1>2, <1>5
<1>7. posted[i] = ran[i]
  BY <1>3, <1>6
<1> QED
  BY <1>6, <1>7 DEF ElementsOf

-----------------------------------------------------------------------------
(* Every queued task has somebody who comes for it. *)

\* The sets that TasksAreComeFor counts are finite.
LEMMA CountsFinite ==
    /\ IsFiniteSet(Up) /\ Cardinality(Up) \in Nat
    /\ IsFiniteSet(Notifying) /\ Cardinality(Notifying) \in Nat
<1>1. Up \subseteq Workers /\ Notifying \subseteq Clients
  BY DEF Up, Notifying
<1>2. IsFiniteSet(Up) /\ IsFiniteSet(Notifying)
  BY <1>1, PoolAssumption, FS_Subset
<1> QED
  BY <1>2, FS_CardinalityType

LEMMA CountsFiniteNext ==
    /\ IsFiniteSet(Up') /\ Cardinality(Up') \in Nat
    /\ IsFiniteSet(Notifying') /\ Cardinality(Notifying') \in Nat
<1>1. Up' \subseteq Workers /\ Notifying' \subseteq Clients
  BY DEF Up, Notifying
<1>2. IsFiniteSet(Up') /\ IsFiniteSet(Notifying')
  BY <1>1, PoolAssumption, FS_Subset
<1> QED
  BY <1>2, FS_CardinalityType

\* A step that takes nobody away and adds no task or waiting worker.
LEMMA NobodyLeaves ==
    ASSUME PoolInv, WakeInv, Up \subseteq Up', Notifying \subseteq Notifying',
           waiting' \subseteq waiting, UNCHANGED <<tasks, is_shutdown>>
    PROVE  TasksAreComeFor'
<1>1. Cardinality(Up) <= Cardinality(Up')
  BY CountsFiniteNext, FS_Subset
<1>2. Cardinality(Notifying) <= Cardinality(Notifying')
  BY CountsFiniteNext, FS_Subset
<1>3. Len(tasks) \in Nat
  BY DEF PoolInv, TypeOK
<1> SUFFICES ASSUME ~is_shutdown, waiting # {}
             PROVE  Len(tasks) <= Cardinality(Up') + Cardinality(Notifying')
  BY DEF TasksAreComeFor
<1>4. Len(tasks) <= Cardinality(Up) + Cardinality(Notifying)
  BY DEF WakeInv, TasksAreComeFor
<1> QED
  BY <1>1, <1>2, <1>3, <1>4, CountsFinite, CountsFiniteNext

\* With nothing queued, nobody has to come.
LEMMA NothingQueued ==
    ASSUME tasks' = <<>>
    PROVE  TasksAreComeFor'
<1>1. Len(tasks') = 0
  OBVIOUS
<1> QED
  BY <1>1, CountsFiniteNext DEF TasksAreComeFor

\* What a step of one client or one worker does to the sets.
LEMMA ClientMoves ==
    ASSUME PoolInv, NEW c \in Clients, NEW to, cpc' = [cpc EXCEPT ![c] = to]
    PROVE  /\ to = "notify" => Notifying' = Notifying \cup {c}
           /\ to # "notify" => Notifying' = Notifying \ {c}
BY DEF PoolInv, TypeOK, Notifying

LEMMA WorkerMoves ==
    ASSUME PoolInv, NEW w \in Workers, NEW to, wpc' = [wpc EXCEPT ![w] = to]
    PROVE  /\ to \in {"lock", "pred", "check"} => Up' = Up \cup {w}
           /\ to \notin {"lock", "pred", "check"} => Up' = Up \ {w}
BY DEF PoolInv, TypeOK, Up

\* Start and Stop: the notification of all leaves nobody waiting, and only a
\* pool without threads is started.
LEMMA OwnerWakeStep ==
    ASSUME PoolInv, WakeInv, Start \/ Stop \/ OwnerStep
    PROVE  WakeInv'
<1>1. tasks' = tasks /\ cpc' = cpc
  BY DEF Start, Stop, OwnerStep, ClearShutdown, AddThread, SetShutdown,
         NotifyAll, Join, users
<1>2. Notifying' = Notifying
  BY <1>1 DEF Notifying
<1>3. wpc \in [Workers -> {"none", "lock", "pred", "sleep", "wait", "check",
                           "run", "exit"}]
  BY DEF PoolInv, TypeOK
<1>4. CASE Start \/ Stop
  <2>1. UNCHANGED <<wpc, waiting, is_shutdown>>
    BY <1>4 DEF Start, Stop
  <2>2. Up' = Up
    BY <2>1 DEF Up
  <2> QED
    BY <1>1, <1>2, <2>1, <2>2, NobodyLeaves DEF WakeInv
<1>5. CASE ClearShutdown
  <2>1. workers = {} /\ UNCHANGED <<waiting, wpc>>
    BY <1>5 DEF ClearShutdown, PoolInv, ThreadsOK
  <2>2. waiting = {}
    BY <2>1 DEF PoolInv, TypeOK, ThreadsOK
  <2> QED
    BY <1>1, <2>1, <2>2 DEF WakeInv, TasksAreComeFor
<1>6. CASE AddThread
  <2>1. UNCHANGED <<waiting, is_shutdown>>
    BY <1>6 DEF AddThread, flags
  <2> DEFINE w == CHOOSE w \in Workers : w \notin workers
  <2>2. wpc' = [wpc EXCEPT ![w] = "lock"]
    BY <1>6 DEF AddThread
  <2> HIDE DEF w
  <2>3. \A v \in Workers : wpc'[v] = wpc[v] \/ wpc'[v] = "lock"
    BY <1>3, <2>2
  <2>4. Up \subseteq Up'
    BY <2>3 DEF Up
  <2> QED
    BY <1>1, <1>2, <2>1, <2>3, <2>4, NobodyLeaves DEF WakeInv
<1>7. CASE SetShutdown
  BY <1>1, <1>7 DEF SetShutdown, WakeInv, TasksAreComeFor
<1>8. CASE NotifyAll
  <2>1. /\ waiting' = {}
        /\ \A v \in Workers : wpc'[v] = wpc[v] \/ wpc'[v] = "lock"
    BY <1>8 DEF NotifyAll
  <2> QED
    BY <1>1, <2>1 DEF WakeInv, TasksAreComeFor
<1>9. CASE Join
  <2>1. /\ \A w \in workers : wpc[w] = "exit"
        /\ UNCHANGED waiting
        /\ \A v \in Workers : wpc'[v] = "none"
    BY <1>9 DEF Join
  <2>2. waiting = {}
    BY <2>1 DEF PoolInv, TypeOK, ThreadsOK
  <2> QED
    BY <1>1, <2>1, <2>2 DEF WakeInv, TasksAreComeFor
<1> QED
  BY <1>4, <1>5, <1>6, <1>7, <1>8, <1>9 DEF OwnerStep

\* The push adds a task and one who has yet to notify.
LEMMA EmplaceWakeStep ==
    ASSUME PoolInv, WakeInv, NEW c \in Clients, Emplace(c)
    PROVE  WakeInv'
<1>1. /\ cpc[c] = "emplace" /\ mtx = Nobody
      /\ tasks' = Append(tasks, mine[c])
      /\ cpc' = [cpc EXCEPT ![c] = "notify"]
      /\ UNCHANGED <<waiting, wpc, is_shutdown>>
  BY DEF Emplace, Goto, flags
<1>2. Up' = Up /\ Notifying' = Notifying \cup {c} /\ c \notin Notifying
  BY <1>1, ClientMoves DEF Up, Notifying
<1>3. Cardinality(Notifying') = Cardinality(Notifying) + 1
  BY <1>2, CountsFinite, FS_AddElement
<1>4. tasks \in Seq(Nat) /\ mine[c] \in Nat
  BY DEF PoolInv, TypeOK
<1>5. Len(tasks') = Len(tasks) + 1 /\ Len(tasks) \in Nat
  BY <1>1, <1>4
<1>6. TasksAreComeFor'
  <2> SUFFICES ASSUME ~is_shutdown, waiting # {}
               PROVE  Len(tasks') <= Cardinality(Up') + Cardinality(Notifying')
    BY <1>1 DEF TasksAreComeFor
  <2>1. Len(tasks) <= Cardinality(Up) + Cardinality(Notifying)
    BY DEF WakeInv, TasksAreComeFor
  <2> QED
    BY <1>2, <1>3, <1>5, <2>1, CountsFinite
<1>7. \A w \in Workers : wpc[w] # "sleep"
  BY <1>1, PoolAssumption DEF PoolInv, LockOK
<1> QED
  BY <1>1, <1>6, <1>7 DEF WakeInv

\* The notification: the client is done, but a worker is up in its place,
\* or nobody was waiting.
LEMMA NotifyWakeStep ==
    ASSUME PoolInv, WakeInv, NEW c \in Clients, NotifyOne(c)
    PROVE  WakeInv'
<1>1. cpc[c] = "notify" /\ UNCHANGED <<tasks, is_shutdown>>
  BY DEF NotifyOne, flags
<1>2. \/ cpc' = [cpc EXCEPT ![c] = "future"]
      \/ cpc' = [cpc EXCEPT ![c] = "idle"]
  BY DEF NotifyOne, Goto, Return
<1>3. Notifying' = Notifying \ {c} /\ c \in Notifying
  BY <1>1, <1>2, ClientMoves DEF Notifying
<1>4. Cardinality(Notifying') = Cardinality(Notifying) - 1
  BY <1>3, CountsFinite, FS_RemoveElement
<1>5. Len(tasks) \in Nat
  BY DEF PoolInv, TypeOK
<1>6. CASE waiting = {} /\ UNCHANGED <<waiting, wpc>>
  BY <1>1, <1>6 DEF WakeInv, TasksAreComeFor
<1>7. ASSUME NEW w \in waiting, waiting' = waiting \ {w},
             wpc' = [wpc EXCEPT ![w] = "lock"]
      PROVE  WakeInv'
  <2>1. w \in Workers /\ wpc[w] = "wait"
    BY DEF PoolInv, TypeOK, ThreadsOK
  <2>2. Up' = Up \cup {w} /\ w \notin Up
    BY <1>7, <2>1, WorkerMoves DEF Up
  <2>3. Cardinality(Up') = Cardinality(Up) + 1
    BY <2>2, CountsFinite, FS_AddElement
  <2>4. TasksAreComeFor'
    <3> SUFFICES ASSUME ~is_shutdown
                 PROVE  Len(tasks) <= Cardinality(Up') + Cardinality(Notifying')
      BY <1>1 DEF TasksAreComeFor
    <3>1. Len(tasks) <= Cardinality(Up) + Cardinality(Notifying)
      BY <1>7 DEF WakeInv, TasksAreComeFor
    <3> QED
      BY <1>4, <1>5, <2>3, <3>1, CountsFinite
  <2>5. \A v \in Workers : wpc'[v] = wpc[v] \/ wpc'[v] = "lock"
    BY <1>7 DEF PoolInv, TypeOK
  <2> QED
    BY <1>1, <2>4, <2>5 DEF WakeInv
<1> QED
  BY <1>6, <1>7 DEF NotifyOne

\* The other steps of a client.
LEMMA ClientWakeStep ==
    ASSUME PoolInv, WakeInv, NEW c \in Clients,
           Post(c) \/ ReadShutdown(c) \/ ReadAvailable(c) \/ Await(c)
    PROVE  WakeInv'
<1>1. UNCHANGED <<tasks, is_shutdown, waiting, wpc>>
  BY DEF Post, ReadShutdown, ReadAvailable, Await, pool, flags
<1>2. Up' = Up
  BY <1>1 DEF Up
<1>3. cpc[c] # "notify"
  BY DEF Post, ReadShutdown, ReadAvailable, Await
<1>4. \E to \in {"shutdown", "available", "emplace", "idle"} :
         cpc' = [cpc EXCEPT ![c] = to]
  BY DEF Post, ReadShutdown, ReadAvailable, Await, Goto, Return
<1>5. Notifying' = Notifying
  BY <1>3, <1>4, ClientMoves DEF Notifying
<1> QED
  BY <1>1, <1>2, <1>5, NobodyLeaves DEF WakeInv

\* A worker that pops has come for a task; one that goes to sleep has seen
\* the queue empty under mtx_, and it stays so until the wait has begun.
LEMMA WorkerWakeStep ==
    ASSUME PoolInv, WakeInv, NEW w \in Workers,
           WorkerStep(w) \/ SpuriousWakeup(w)
    PROVE  WakeInv'
<1>1. UNCHANGED <<is_shutdown, cpc>>
  BY DEF WorkerStep, Lock, Predicate, Sleep, PopOrExit, Run, SpuriousWakeup,
         flags, users
<1>2. Notifying' = Notifying
  BY <1>1 DEF Notifying
<1>3. /\ wpc \in [Workers -> {"none", "lock", "pred", "sleep", "wait",
                              "check", "run", "exit"}]
      /\ tasks \in Seq(Nat) /\ is_shutdown \in BOOLEAN
  BY DEF PoolInv, TypeOK
<1>4. CASE Lock(w) \/ Run(w) \/ SpuriousWakeup(w)
  <2>1. /\ tasks' = tasks /\ waiting' \subseteq waiting
        /\ \/ wpc' = [wpc EXCEPT ![w] = "lock"]
           \/ wpc' = [wpc EXCEPT ![w] = "pred"]
    BY <1>4 DEF Lock, Run, SpuriousWakeup
  <2>2. Up \subseteq Up'
    BY <2>1, WorkerMoves
  <2>3. \A v \in Workers : wpc'[v] = "sleep" => wpc[v] = "sleep"
    BY <1>3, <2>1
  <2> QED
    BY <1>1, <1>2, <2>1, <2>2, <2>3, NobodyLeaves DEF WakeInv
<1>5. CASE Predicate(w)
  <2>1. wpc[w] = "pred" /\ UNCHANGED <<tasks, waiting>>
    BY <1>5 DEF Predicate
  <2>2. CASE is_shutdown \/ tasks # <<>>
    <3>1. wpc' = [wpc EXCEPT ![w] = "check"]
      BY <1>5, <2>2 DEF Predicate
    <3>2. Up \subseteq Up'
      BY <3>1, WorkerMoves
    <3>3. \A v \in Workers : wpc'[v] = "sleep" => wpc[v] = "sleep"
      BY <1>3, <3>1
    <3> QED
      BY <1>1, <1>2, <2>1, <3>2, <3>3, NobodyLeaves DEF WakeInv
  <2>3. CASE ~(is_shutdown \/ tasks # <<>>)
    BY <2>1, <2>3, NothingQueued DEF WakeInv
  <2> QED
    BY <2>2, <2>3
<1>6. CASE Sleep(w)
  <2>1. tasks = <<>> /\ tasks' = tasks
    BY <1>6 DEF Sleep, WakeInv
  <2> QED
    BY <2>1, NothingQueued DEF WakeInv
<1>7. CASE PopOrExit(w)
  <2>1. wpc[w] = "check" /\ waiting' = waiting
    BY <1>7 DEF PopOrExit
  <2>2. \A v \in Workers : wpc'[v] = "sleep" => wpc[v] = "sleep"
    BY <1>3, <1>7 DEF PopOrExit
  <2>3. \A v \in Workers : wpc[v] # "sleep"
    BY <2>1 DEF PoolInv, LockOK
  <2>4. TasksAreComeFor'
    <3> SUFFICES ASSUME ~is_shutdown, waiting # {}
                 PROVE  Len(tasks') <= Cardinality(Up') + Cardinality(Notifying')
      BY <1>1, <2>1 DEF TasksAreComeFor
    <3>1. tasks' = Tail(tasks) /\ wpc' = [wpc EXCEPT ![w] = "run"]
      BY <1>7 DEF PopOrExit
    <3>2. tasks # <<>>
      BY <2>1 DEF PoolInv, LockOK
    <3>3. Len(tasks') = Len(tasks) - 1 /\ Len(tasks) \in Nat
      BY <1>3, <3>1, <3>2
    <3>4. Up' = Up \ {w} /\ w \in Up
      <4>1. Up' = Up \ {w}
        BY <1>3, <3>1 DEF Up
      <4>2. w \in Up
        BY <2>1 DEF Up
      <4> QED
        BY <4>1, <4>2
    <3>5. Cardinality(Up') = Cardinality(Up) - 1
      BY <3>4, CountsFinite, FS_RemoveElement
    <3>6. Len(tasks) <= Cardinality(Up) + Cardinality(Notifying)
      BY DEF WakeInv, TasksAreComeFor
    <3> QED
      BY <1>2, <3>3, <3>5, <3>6, CountsFinite
  <2> QED
    BY <2>2, <2>3, <2>4 DEF WakeInv
<1> QED
  BY <1>4, <1>5, <1>6, <1>7 DEF WorkerStep

LEMMA WakeInit == Init => WakeInv
<1> SUFFICES ASSUME Init PROVE WakeInv
  OBVIOUS
<1>1. waiting = {} /\ tasks = <<>>
  BY DEF Init
<1> QED
  BY <1>1 DEF WakeInv, TasksAreComeFor

LEMMA WakeStep == PoolInv /\ WakeInv /\ [Next]_vars => WakeInv'
<1> SUFFICES ASSUME PoolInv, WakeInv, [Next]_vars PROVE WakeInv'
  OBVIOUS
<1>1. ASSUME NEW c \in Clients, Post(c) \/ ClientStep(c)
      PROVE  WakeInv'
  BY <1>1, EmplaceWakeStep, NotifyWakeStep, ClientWakeStep DEF ClientStep
<1>2. CASE UNCHANGED vars
  <2>1. UNCHANGED <<tasks, is_shutdown, waiting, wpc, cpc>>
    BY <1>2 DEF vars, pool, flags, users
  <2>2. Up' = Up /\ Notifying' = Notifying
    BY <2>1 DEF Up, Notifying
  <2> QED
    BY <2>1, <2>2, NobodyLeaves DEF WakeInv
<1> QED
  BY <1>1, <1>2, OwnerWakeStep, WorkerWakeStep DEF Next

-----------------------------------------------------------------------------
(* Nobody waits while Stop joins. *)

LEMMA StopInit == Init => StopInv
BY DEF Init, StopInv, NobodyLeftWaiting

\* Start and Stop themselves: whoever waits is notified, and whoever is about
\* to wait is why missed holds.
LEMMA OwnerStopStep ==
    ASSUME PoolInv, StopInv, Start \/ Stop \/ OwnerStep
    PROVE  StopInv'
<1>1. CASE Start \/ ClearShutdown \/ AddThread \/ Join
  <2>1. opc' \in {"idle", "start", "spawn"}
    BY <1>1 DEF Start, ClearShutdown, AddThread, Join
  <2> QED
    BY <2>1 DEF StopInv, NobodyLeftWaiting
<1>2. CASE Stop
  <2>1. /\ UNCHANGED <<workers, wpc>>
        /\ opc = "idle" /\ opc' \in {"stop", "join"}
        /\ opc' = "join" => ~is_available
    BY <1>2 DEF Stop
  <2>2. opc' = "join" => workers = {}
    BY <2>1 DEF PoolInv, ThreadsOK
  <2>3. workers = {} => \A w \in Workers : wpc[w] = "none"
    BY DEF PoolInv, ThreadsOK
  <2> QED
    BY <2>1, <2>2, <2>3 DEF StopInv, NobodyLeftWaiting
<1>3. CASE SetShutdown
  BY <1>3 DEF SetShutdown, StopInv, NobodyLeftWaiting
<1>4. CASE NotifyAll
  <2>1. UNCHANGED <<is_shutdown, workers>> /\ opc = "notify" /\ opc' = "join"
    BY <1>4 DEF NotifyAll, flags
  <2>2. \A w \in Workers : wpc[w] = "wait" => w \in waiting
    BY DEF PoolInv, ThreadsOK
  <2>3. \A w \in Workers : wpc'[w] = IF w \in waiting THEN "lock" ELSE wpc[w]
    BY <1>4 DEF NotifyAll
  <2>4. \A w \in Workers : wpc[w] = "sleep" => missed'
    BY <1>4 DEF NotifyAll
  <2>5. NobodyLeftWaiting'
    BY <2>2, <2>3, <2>4 DEF NobodyLeftWaiting
  <2> QED
    BY <2>1, <2>5 DEF StopInv
<1> QED
  BY <1>1, <1>2, <1>3, <1>4 DEF OwnerStep

\* A client wakes a worker at most.
LEMMA ClientStopStep ==
    ASSUME PoolInv, StopInv, NEW c \in Clients, Post(c) \/ ClientStep(c)
    PROVE  StopInv'
<1>1. UNCHANGED <<is_shutdown, workers, opc, missed>>
  BY DEF Post, ClientStep, ReadShutdown, ReadAvailable, Emplace, NotifyOne,
         Await, pool, flags, owner, hist
<1>2. \A w \in Workers : wpc'[w] \in {wpc[w], "lock"}
  <2>1. wpc' = wpc \/ \E w \in waiting : wpc' = [wpc EXCEPT ![w] = "lock"]
    BY DEF Post, ClientStep, ReadShutdown, ReadAvailable, Emplace, NotifyOne,
           Await, pool
  <2> QED
    BY <2>1 DEF PoolInv, TypeOK
<1> QED
  BY <1>1, <1>2 DEF StopInv, NobodyLeftWaiting

\* A worker that evaluates the predicate while it is joined sees is_shutdown_.
LEMMA WorkerStopStep ==
    ASSUME PoolInv, StopInv, NEW w \in Workers,
           WorkerStep(w) \/ SpuriousWakeup(w)
    PROVE  StopInv'
<1>1. UNCHANGED <<is_shutdown, workers, opc, missed>>
  BY DEF WorkerStep, Lock, Predicate, Sleep, PopOrExit, Run, SpuriousWakeup,
         flags, owner, hist
<1>2. wpc \in [Workers -> {"none", "lock", "pred", "sleep", "wait", "check",
                           "run", "exit"}]
  BY DEF PoolInv, TypeOK
<1>3. CASE Predicate(w)
  <2>1. wpc[w] = "pred" /\ w \in workers
    BY <1>3 DEF Predicate, PoolInv, ThreadsOK
  <2>2. opc = "join" => wpc' = [wpc EXCEPT ![w] = "check"]
    BY <1>3, <2>1 DEF Predicate, StopInv
  <2> QED
    BY <1>1, <1>2, <2>2 DEF StopInv, NobodyLeftWaiting
<1>4. CASE Sleep(w)
  <2>1. wpc[w] = "sleep"
    BY <1>4 DEF Sleep
  <2> QED
    BY <1>1, <2>1 DEF StopInv, NobodyLeftWaiting
<1>5. CASE Lock(w) \/ PopOrExit(w) \/ Run(w) \/ SpuriousWakeup(w)
  <2>1. \E to \in {"pred", "exit", "run", "lock"} : wpc' = [wpc EXCEPT ![w] = to]
    BY <1>5 DEF Lock, PopOrExit, Run, SpuriousWakeup
  <2> QED
    BY <1>1, <1>2, <2>1 DEF StopInv, NobodyLeftWaiting
<1> QED
  BY <1>3, <1>4, <1>5 DEF WorkerStep

LEMMA StopStep == PoolInv /\ StopInv /\ [Next]_vars => StopInv'
<1> SUFFICES ASSUME PoolInv, StopInv, [Next]_vars PROVE StopInv'
  OBVIOUS
<1>1. CASE UNCHANGED vars
  BY <1>1 DEF vars, pool, flags, owner, hist, StopInv, NobodyLeftWaiting
<1> QED
  BY <1>1, OwnerStopStep, ClientStopStep, WorkerStopStep DEF Next

-----------------------------------------------------------------------------
(* The theorems. *)

\* The variables of the pool have their types in every reachable state.
THEOREM PoolTypes == Spec => []TypeOK
<1>1. PoolInv => TypeOK
  BY DEF PoolInv
<1> QED
  BY PoolInit, PoolStep, <1>1, PTL DEF Spec

\* The invariants hold throughout.
LEMMA PoolInvariant == Spec => [](PoolInv /\ TasksInv /\ FifoInv /\ CoveredInv)
BY PoolInit, PoolStep, TasksInit, TasksStep, FifoInit, FifoStep, CoveredStep,
   PTL DEF Spec

\* No posted task is lost or runs twice, for any number of clients and
\* workers, across Stop and Start: it is queued, in one worker's hand or done.
THEOREM NoTaskLost == Spec => []TasksConserved
<1>1. PoolInv /\ TasksInv => TasksConserved
  BY OnePlace DEF TasksConserved
<1> QED
  BY PoolInvariant, <1>1, PTL

\* In a pool of one thread, the task runner, a wait for a task that returns
\* has waited for all tasks posted before it.
THEOREM WaitCovers == Spec => []WaitCoversEarlier
<1>1. PoolInv /\ TasksInv /\ FifoInv /\ CoveredInv => WaitCoversEarlier
  BY CoversEarlier
<1> QED
  BY PoolInvariant, <1>1, PTL

\* For any number of clients and workers no worker sleeps while a task is
\* queued that nobody comes for, although notify_one comes after the unlock;
\* nor while Stop joins it, unless the notification of Stop was missed, the
\* only way in which Stop can hang on a wait.
THEOREM WakeUpsSuffice == Spec => []NoWakeUpLost
<1>1. WakeInv /\ StopInv => NoWakeUpLost
  BY DEF WakeInv, StopInv, NoWakeUpLost
<1> QED
  BY PoolInit, PoolStep, WakeInit, WakeStep, StopInit, StopStep, <1>1, PTL
  DEF Spec
=============================================================================
