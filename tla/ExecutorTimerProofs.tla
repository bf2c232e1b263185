------------------------ MODULE ExecutorTimerProofs ------------------------
(***************************************************************************)
(* Proofs about ExecutorTimer, for any number of callers and tasks, any    *)
(* delays and counts: no task runs more often than it was asked to, a      *)
(* cancelled one runs once more at most, and the timer thread does not     *)
(* sleep while it has something to do.                                     *)
(***************************************************************************)
EXTENDS ExecutorTimer, TLAPS

\* An agent holds the entry of a task: its call is posting it, or the timer
\* thread is in a round of it.
Active(a) == pc[a] \in {"start", "start_store", "start_run", "insert",
                        "inserting", "find", "run", "push"}

\* A caller is in CancelRepeatedTask.
Erasing(a) == pc[a] \in {"erase", "erasing"}

\* What the timer thread does and what a caller does.
PlacesOK ==
    /\ pc[Timer] \in {"idle", "lock", "sleep", "wait", "check", "timed", "find",
                      "run", "push"}
    /\ \A c \in Callers : pc[c] = "idle" \/ Active(c) \/ Erasing(c)

\* Entries are those of calls, and a delayed task has no count.
NumbersOK ==
    /\ \A a \in Agents : Active(a) \/ Erasing(a) =>
           cur[a].post > 0 /\ cur[a].post <= posts
    /\ \A s \in queue : s.post > 0 /\ s.post <= posts
    /\ \A p \in Posts : p <= posts /\ ~req[p].repeated => req[p].count = 1

\* A task has one entry: in the queue or with one agent.
OneEntry ==
    /\ \A s, r \in queue : s.post = r.post => s = r
    /\ \A a \in Agents, s \in queue : Active(a) => cur[a].post # s.post
    /\ \A a, b \in Agents :
          Active(a) /\ Active(b) /\ cur[a].post = cur[b].post => a = b

\* The rounds that an entry with the number n still allows.
Left(p, n) ==
    Fits(p) => /\ n >= 0
               /\ n + ran[p] <= req[p].count
               /\ ~req[p].repeated => n = 1

CountsOK ==
    /\ \A a \in Agents : Active(a) => Left(cur[a].post, cur[a].num)
    /\ \A s \in queue : Left(s.post, s.num)
    /\ \A a \in Agents : pc[a] = "run" /\ Repeated(a) => cur[a].num # 0
    /\ \A p \in Posts : p > posts => ran[p] = 0
    /\ RunsAtMost

\* A call of CancelRepeatedTask comes after the call that posted the task,
\* so that nothing inserts the id again; and the one round that may come
\* after it was past its check.
CancelOK ==
    /\ \A p \in cancelled : p <= posts /\ req[p].repeated
    /\ \A c \in Callers : Erasing(c) => req[cur[c].post].repeated
    /\ \A c, d \in Callers : Active(c) /\ Erasing(d) => cur[c].post # cur[d].post
    /\ \A c \in Callers : Active(c) => cur[c].post \notin cancelled
    /\ \A p \in Posts : late[p] > 0 => p \in cancelled
    /\ ~raced => /\ \A p \in cancelled : p \notin ids
                 /\ \A p \in Posts : late[p] <= 1
                 /\ \A a \in Agents : pc[a] = "run" => late[cur[a].post] = 0

TimerInv == TypeOK /\ PlacesOK /\ NumbersOK /\ OneEntry /\ CountsOK /\ CancelOK

\* An agent has seen running_, or has set it itself.
Begun(a) == pc[a] \in {"start_run", "insert", "inserting", "find", "run", "push"}

\* Somebody runs the loop, or has yet to make it run.
Looked == \/ pc[Timer] # "idle"
          \/ loops > 0 /\ wpc = "lock"
          \/ \E c \in Callers : pc[c] = "start_run"

\* Something is queued or on its way into the queue.
Engaged == \/ queue # {} \/ loops > 0 \/ pc[Timer] # "idle"
           \/ \E c \in Callers : Begun(c)

\* The worker is in Run_ or in the loop of its pool, where it waits only when
\* there is no Run_ and ends only when the pool is shut down.
WorkerOK ==
    /\ pc[Timer] # "idle" <=> wpc = "run"
    /\ wpc \in {"none", "sleep", "wait"} => loops = 0
    /\ wpc = "exit" => IsShutdown

\* mtx_ keeps a Push out between predicate and wait; running_ is set before
\* anything is queued, only the one who set it runs the loop, and Stop comes
\* when no call is in progress.
LoopInv ==
    /\ WorkerOK
    /\ NoEntryStranded
    /\ TimerNotLeftWaiting
    /\ mtx = Timer <=> pc[Timer] \in {"sleep", "check"}
    /\ opc # "idle" => ~running /\ \A c \in Callers : pc[c] = "idle"
    /\ running => Looked
    /\ Engaged => running \/ opc # "idle"

-----------------------------------------------------------------------------
(* Lemmas about the operators. *)

\* A count that an int can hold keeps its value; any other one becomes some
\* int.
LEMMA ToIntFacts ==
    ASSUME NEW n \in Nat
    PROVE  /\ ToInt(n) \in Int32
           /\ n < IntHalf => ToInt(n) = n
<1> DEFINE m == 2 * IntHalf
           r == n % m
<1>1. IntHalf \in Nat /\ IntHalf > 1 /\ m \in Nat /\ m > 0
  BY TimerAssumption
<1>2. r \in 0..(m - 1) /\ (n < m => r = n)
  <2> HIDE DEF m
  <2>1. /\ n % m \in 0..(m - 1)
        /\ n < m => n % m = n
    BY <1>1, SMT
  <2> QED
    BY <2>1
<1>3. ToInt(n) = IF r >= IntHalf THEN r - m ELSE r
  BY DEF ToInt
<1>4. m = IntHalf + IntHalf /\ (n < IntHalf => n < m)
  BY <1>1
<1> HIDE DEF m, r
<1> QED
  BY <1>1, <1>2, <1>3, <1>4 DEF Int32

\* A count never goes above its bound and goes up by one at most.
LEMMA CountFacts ==
    ASSUME NEW f \in [Posts -> 0..MaxRan], NEW p \in Posts
    PROVE  /\ Count(f, p) \in [Posts -> 0..MaxRan]
           /\ \A q \in Posts : q # p => Count(f, p)[q] = f[q]
           /\ Count(f, p)[p] <= f[p] + 1
  BY TimerAssumption DEF Count, Posts

\* Later changes nothing but the time left.
LEMMA LaterFacts ==
    ASSUME NEW s \in Entry
    PROVE  /\ Later(s) \in Entry
           /\ Later(s).post = s.post /\ Later(s).num = s.num
  BY TimerAssumption DEF Later, Entry

\* Neither does stamping the entry of an agent.
LEMMA StampedFacts ==
    ASSUME TypeOK, NEW a \in Agents, cur[a].post \in Posts
    PROVE  /\ Stamped(a) \in [Agents -> Entry]
           /\ \A b \in Agents : /\ Stamped(a)[b].post = cur[b].post
                                /\ Stamped(a)[b].num = cur[b].num
           /\ \A b \in Agents : b # a => Stamped(a)[b] = cur[b]
<1>1. cur \in [Agents -> Entry] /\ req[cur[a].post].delta \in Int
  BY DEF TypeOK, Request
<1>2. Stamped(a) = [cur EXCEPT ![a] = [cur[a] EXCEPT !.left = req[cur[a].post].delta]]
  BY <1>1 DEF Stamped
<1>3. PICK e \in Entry : e = [cur[a] EXCEPT !.left = req[cur[a].post].delta]
  BY <1>1 DEF Entry
<1>4. e.post = cur[a].post /\ e.num = cur[a].num
  BY <1>1, <1>3 DEF Entry
<1>5. Stamped(a) = [cur EXCEPT ![a] = e]
  BY <1>2, <1>3
<1> QED
  BY <1>1, <1>4, <1>5

-----------------------------------------------------------------------------
(* The invariant holds initially and is kept by every step. *)

LEMMA TimerInit == Init => TimerInv
<1> SUFFICES ASSUME Init PROVE TimerInv
  OBVIOUS
<1> USE TimerAssumption DEF Init
<1>1. TypeOK
  <2>1. NoEntry \in Entry
    BY DEF NoEntry, Entry, Int32
  <2>2. \A p \in Posts :
            [repeated |-> FALSE, delta |-> 0, count |-> 0] \in Request
    BY DEF Request
  <2>3. 0 \in 0..MaxRan
    OBVIOUS
  <2>4. req \in [Posts -> Request] /\ cur \in [Agents -> Entry]
    BY <2>1, <2>2
  <2> QED
    BY <2>3, <2>4 DEF TypeOK
<1>2. \A a \in Agents : ~Active(a) /\ ~Erasing(a) /\ pc[a] = "idle"
  BY DEF Active, Erasing
<1>3. PlacesOK
  BY <1>2 DEF PlacesOK, Agents
<1>4. NumbersOK
  BY <1>2 DEF NumbersOK, Posts
<1>5. OneEntry
  BY <1>2 DEF OneEntry
<1>6. CountsOK
  BY <1>2 DEF CountsOK, RunsAtMost, Posts
<1>7. CancelOK
  BY <1>2 DEF CancelOK, Agents, Posts
<1> QED
  BY <1>1, <1>3, <1>4, <1>5, <1>6, <1>7 DEF TimerInv

\* A step that gives no agent another entry, brings none to its round, and
\* neither runs nor cancels a task keeps what is said of entries.
LEMMA SameEntries ==
    ASSUME TimerInv,
           UNCHANGED history,
           ids' = ids,
           raced => raced',
           \A a \in Agents : /\ Active(a)' => Active(a)
                             /\ Erasing(a)' => Erasing(a)
                             /\ pc'[a] = "run" => pc[a] = "run",
           \A a \in Agents : Active(a)' \/ Erasing(a)' =>
               cur'[a].post = cur[a].post /\ cur'[a].num = cur[a].num,
           \A s \in queue' : \E r \in queue : s.post = r.post /\ s.num = r.num,
           \A s, r \in queue' : s.post = r.post => s = r
    PROVE  NumbersOK' /\ OneEntry' /\ CountsOK' /\ CancelOK'
<1>1. /\ posts' = posts /\ req' = req /\ ran' = ran /\ late' = late
      /\ cancelled' = cancelled
  BY DEF history
<1> USE <1>1
<1>2. Callers \subseteq Agents
  BY DEF Agents
<1>3. NumbersOK'
  BY DEF TimerInv, NumbersOK
<1>4. OneEntry'
  <2>1. ASSUME NEW a \in Agents, NEW s \in queue', Active(a)'
        PROVE  cur'[a].post # s.post
    BY <2>1 DEF TimerInv, OneEntry
  <2>2. ASSUME NEW a \in Agents, NEW b \in Agents, Active(a)', Active(b)',
               cur'[a].post = cur'[b].post
        PROVE  a = b
    BY <2>2 DEF TimerInv, OneEntry
  <2> QED
    BY <2>1, <2>2 DEF OneEntry
<1>5. CountsOK'
  <2>1. \A p, n : Left(p, n)' <=> Left(p, n)
    BY DEF Left, Fits
  <2>2. RunsAtMost'
    BY DEF TimerInv, CountsOK, RunsAtMost, Fits, Asked
  <2>3. ASSUME NEW a \in Agents, Active(a)'
        PROVE  Left(cur[a].post, cur[a].num)'
    BY <2>1, <2>3 DEF TimerInv, CountsOK, Left, Fits
  <2>4. ASSUME NEW s \in queue'
        PROVE  Left(s.post, s.num)'
    BY <2>1 DEF TimerInv, CountsOK, Left, Fits
  <2>5. ASSUME NEW a \in Agents, (pc[a] = "run" /\ Repeated(a))'
        PROVE  cur'[a].num # 0
    <3>1. Active(a)'
      BY <2>5 DEF Active
    <3> QED
      BY <2>5, <3>1 DEF TimerInv, CountsOK, Repeated
  <2> QED
    BY <2>2, <2>3, <2>4, <2>5 DEF TimerInv, CountsOK
<1>6. CancelOK'
  <2>1. \A a \in Agents : pc'[a] = "run" => Active(a)'
    BY DEF Active
  <2>2. \A c \in Callers : Erasing(c)' => req[cur'[c].post].repeated
    BY <1>2 DEF TimerInv, CancelOK
  <2>3. \A c, d \in Callers : Active(c)' /\ Erasing(d)' =>
            cur'[c].post # cur'[d].post
    BY <1>2 DEF TimerInv, CancelOK
  <2>4. \A c \in Callers : Active(c)' => cur'[c].post \notin cancelled
    BY <1>2 DEF TimerInv, CancelOK
  <2>5. ~raced' => \A a \in Agents : pc'[a] = "run" => late[cur'[a].post] = 0
    BY <2>1 DEF TimerInv, CancelOK
  <2> QED
    BY <2>2, <2>3, <2>4, <2>5 DEF TimerInv, CancelOK
<1> QED
  BY <1>3, <1>4, <1>5, <1>6

Labels == {"idle", "start", "start_store", "start_run", "insert", "inserting",
           "find", "run", "push", "erase", "erasing", "lock", "sleep", "wait",
           "check", "timed"}

Places == {"none", "lock", "sleep", "wait", "run", "exit"}

LEMMA GotoFacts ==
    ASSUME TypeOK, NEW a \in Agents, NEW from, NEW to \in Labels,
           Goto(a, from, to)
    PROVE  /\ pc' \in [Agents -> Labels]
           /\ pc[a] = from /\ pc'[a] = to
           /\ \A b \in Agents : b # a => pc'[b] = pc[b]
  BY DEF TypeOK, Goto, Labels

\* The callers' steps before the task is inserted or pushed, and the first
\* half of an insert or erase.
LEMMA CallerKeeps ==
    ASSUME TimerInv, NEW c \in Callers,
           StartLoad(c) \/ StartStore(c) \/ StartRun(c)
               \/ BeginInsert(c) \/ BeginErase(c)
    PROVE  TimerInv'
<1>1. /\ c \in Agents /\ c # Timer /\ Timer \in Agents
      /\ Callers \subseteq Agents /\ TypeOK
  BY TimerAssumption DEF Agents, TimerInv
<1>2. /\ ids' = ids /\ queue' = queue /\ mtx' = mtx /\ opc' = opc
      /\ missed' = missed /\ UNCHANGED history
      /\ raced => raced'
      /\ running' \in BOOLEAN /\ loops' \in Nat /\ wpc' \in Places
      /\ touching' \subseteq Callers /\ raced' \in BOOLEAN
  <2>1. CASE StartLoad(c)
    BY <1>1, <2>1 DEF StartLoad, shared, set, TypeOK, Places
  <2>2. CASE StartStore(c)
    BY <1>1, <2>2 DEF StartStore, set, TypeOK, Places
  <2>3. CASE StartRun(c)
    BY <1>1, <2>3 DEF StartRun, set, TypeOK, Places
  <2>4. CASE BeginInsert(c)
    <3>1. raced' \in BOOLEAN
      BY <2>4, Zenon DEF BeginInsert, Touch
    <3> QED
      BY <1>1, <2>4, <3>1 DEF BeginInsert, Touch, shared, TypeOK, Places
  <2>5. CASE BeginErase(c)
    <3>1. raced' \in BOOLEAN
      BY <2>5, Zenon DEF BeginErase, Touch
    <3> QED
      BY <1>1, <2>5, <3>1 DEF BeginErase, Touch, shared, TypeOK, Places
  <2> QED
    BY <2>1, <2>2, <2>3, <2>4, <2>5
<1>3. \E from, to \in Labels :
          /\ Goto(c, from, to)
          /\ to # "run" /\ to # "idle"
          /\ \/ /\ from \in {"start", "start_store", "start_run", "insert"}
                /\ to \in {"start_store", "start_run", "insert", "inserting", "push"}
             \/ from = "erase" /\ to = "erasing"
          /\ \/ cur' = cur
             \/ from # "erase" /\ cur' = Stamped(c)
  <2>1. CASE StartLoad(c)
    BY <2>1 DEF StartLoad, Started, Labels
  <2>2. CASE StartStore(c)
    BY <2>2 DEF StartStore, Labels
  <2>3. CASE StartRun(c)
    BY <2>3 DEF StartRun, Started, Labels
  <2>4. CASE BeginInsert(c)
    BY <2>4 DEF BeginInsert, Labels
  <2>5. CASE BeginErase(c)
    BY <2>5 DEF BeginErase, Labels
  <2> QED
    BY <2>1, <2>2, <2>3, <2>4, <2>5
<1>4. PICK from \in Labels, to \in Labels :
          /\ Goto(c, from, to)
          /\ to # "run" /\ to # "idle"
          /\ \/ /\ from \in {"start", "start_store", "start_run", "insert"}
                /\ to \in {"start_store", "start_run", "insert", "inserting", "push"}
             \/ from = "erase" /\ to = "erasing"
          /\ \/ cur' = cur
             \/ from # "erase" /\ cur' = Stamped(c)
  BY <1>3
<1>5. /\ pc' \in [Agents -> Labels]
      /\ pc[c] = from /\ pc'[c] = to
      /\ \A b \in Agents : b # c => pc'[b] = pc[b]
  BY <1>1, <1>4, GotoFacts
<1>6. \A a \in Agents : /\ Active(a)' => Active(a)
                        /\ Erasing(a)' => Erasing(a)
                        /\ pc'[a] = "run" => pc[a] = "run"
  BY <1>4, <1>5 DEF Active, Erasing
<1>7. /\ cur' \in [Agents -> Entry]
      /\ \A a \in Agents : cur'[a].post = cur[a].post /\ cur'[a].num = cur[a].num
  <2>1. CASE cur' = cur
    BY <1>1, <2>1 DEF TypeOK
  <2>2. CASE from # "erase" /\ cur' = Stamped(c)
    <3>1. Active(c)
      BY <1>4, <1>5, <2>2 DEF Active
    <3>2. cur[c].post \in Posts
      BY <1>1, <3>1, TimerAssumption DEF TimerInv, NumbersOK, TypeOK, Entry, Posts
    <3> QED
      BY <1>1, <2>2, <3>2, StampedFacts
  <2> QED
    BY <1>4, <2>1, <2>2
<1>8. TypeOK'
  BY <1>1, <1>2, <1>5, <1>7 DEF TypeOK, history, Labels, Places
<1>9. PlacesOK'
  <2>1. Active(c)' \/ Erasing(c)'
    BY <1>4, <1>5 DEF Active, Erasing
  <2>2. \A b \in Callers : b # c =>
            (Active(b)' <=> Active(b)) /\ (Erasing(b)' <=> Erasing(b))
    BY <1>1, <1>5 DEF Active, Erasing
  <2> QED
    BY <1>1, <1>5, <2>1, <2>2 DEF PlacesOK, TimerInv
<1>10. \A s, r \in queue' : s.post = r.post => s = r
  BY <1>2 DEF TimerInv, OneEntry
<1> QED
  BY <1>2, <1>6, <1>7, <1>8, <1>9, <1>10, SameEntries DEF TimerInv

\* The steps of the timer thread that take no entry, in its loop or in that
\* of its pool, and those of Stop.
LEMMA LoopKeeps ==
    ASSUME TimerInv,
           \/ BeginRun \/ TestQueue \/ Sleep \/ SpuriousWakeup \/ Timeout
           \/ TakeTop /\ queue' = queue
           \/ TestTasks \/ PoolSleep \/ PoolWakeup
           \/ Stop \/ OwnerStep
    PROVE  TimerInv'
<1>1. Timer \in Agents /\ Timer \notin Callers /\ Callers \subseteq Agents /\ TypeOK
  BY TimerAssumption DEF Agents, TimerInv
<1> DEFINE Quiet == {"idle", "lock", "sleep", "wait", "check", "timed"}
<1>2. /\ ids' = ids /\ queue' = queue /\ raced' = raced /\ touching' = touching
      /\ cur' = cur /\ UNCHANGED history
      /\ running' \in BOOLEAN /\ loops' \in Nat /\ missed' \in BOOLEAN
      /\ mtx' \in {Timer, Nobody} /\ wpc' \in Places
      /\ opc' \in {"idle", "notify", "shutdown", "pool_notify", "join", "stopped"}
      /\ \/ pc' = pc
         \/ \E from \in Labels, to \in Quiet : Goto(Timer, from, to)
  <2>1. CASE BeginRun
    <3>1. Goto(Timer, "idle", "lock") /\ loops - 1 \in Nat
      BY <1>1, <2>1 DEF BeginRun, TypeOK
    <3> QED
      BY <1>1, <2>1, <3>1 DEF BeginRun, TypeOK, set, Labels, Places
  <2>2. CASE TestQueue
    <3>1. \E to \in {"check", "sleep"} : Goto(Timer, "lock", to)
      BY <2>2 DEF TestQueue
    <3> QED
      BY <1>1, <2>2, <3>1 DEF TestQueue, TypeOK, set, Labels, Places
  <2>3. CASE Sleep
    BY <1>1, <2>3 DEF Sleep, TypeOK, set, Labels, Places
  <2>4. CASE SpuriousWakeup
    BY <1>1, <2>4 DEF SpuriousWakeup, TypeOK, shared, set, Labels, Places
  <2>5. CASE Timeout
    BY <1>1, <2>5 DEF Timeout, TypeOK, shared, set, Labels, Places
  <2>6. CASE TakeTop /\ queue' = queue
    <3>1. cur' = cur /\ \E to \in Quiet : Goto(Timer, "check", to)
      BY <2>6 DEF TakeTop, Earliest
    <3> QED
      BY <1>1, <2>6, <3>1 DEF TakeTop, TypeOK, set, Labels, Places
  <2>7. CASE Stop
    BY <1>1, <2>7 DEF Stop, TypeOK, set, history, Places
  <2>8. CASE NotifyAll
    <3>1. missed' \in BOOLEAN
      BY <1>1, <2>8, Zenon DEF NotifyAll
    <3>2. \/ pc' = pc
          \/ pc[Timer] \in {"wait", "timed"} /\ pc' = [pc EXCEPT ![Timer] = "lock"]
      BY <1>1, <2>8 DEF NotifyAll, TypeOK
    <3> QED
      BY <1>1, <2>8, <3>1, <3>2 DEF NotifyAll, TypeOK, shared, set, Goto, Labels, Places
  <2>9. CASE Join
    BY <1>1, <2>9 DEF Join, TypeOK, set, Places
  <2>10. CASE TestTasks
    BY <1>1, <2>10 DEF TestTasks, TypeOK, set, Places
  <2>11. CASE PoolSleep \/ PoolWakeup
    BY <1>1, <2>11 DEF PoolSleep, PoolWakeup, TypeOK, set, Places
  <2>12. CASE PoolStop
    BY <1>1, <2>12 DEF PoolStop, TypeOK, shared, set, Places
  <2>13. CASE PoolNotifyAll
    <3>1. missed' \in BOOLEAN
      BY <1>1, <2>13, Zenon DEF PoolNotifyAll
    <3>2. wpc' \in Places
      BY <1>1, <2>13 DEF PoolNotifyAll, TypeOK, Places
    <3> QED
      BY <1>1, <2>13, <3>1, <3>2 DEF PoolNotifyAll, TypeOK, set
  <2> QED
    BY <2>1, <2>2, <2>3, <2>4, <2>5, <2>6, <2>7, <2>8, <2>9, <2>10, <2>11, <2>12,
       <2>13 DEF OwnerStep
<1>3. /\ pc' \in [Agents -> Labels]
      /\ pc'[Timer] \in Quiet \/ pc'[Timer] = pc[Timer]
      /\ \A b \in Agents : b # Timer => pc'[b] = pc[b]
  <2>1. CASE pc' = pc
    BY <1>1, <2>1 DEF TypeOK, Labels
  <2>2. CASE \E from \in Labels, to \in Quiet : Goto(Timer, from, to)
    BY <1>1, <2>2, GotoFacts DEF Labels
  <2> QED
    BY <1>2, <2>1, <2>2
<1>4. \A a \in Agents : /\ Active(a)' => Active(a)
                        /\ Erasing(a)' => Erasing(a)
                        /\ pc'[a] = "run" => pc[a] = "run"
  BY <1>3 DEF Active, Erasing
<1>5. TypeOK'
  BY <1>1, <1>2, <1>3 DEF TypeOK, history, Labels, Places
<1>6. PlacesOK'
  <2>1. \A b \in Callers : /\ Active(b)' <=> Active(b)
                           /\ Erasing(b)' <=> Erasing(b)
                           /\ pc'[b] = pc[b]
    BY <1>1, <1>3 DEF Active, Erasing
  <2> QED
    BY <1>1, <1>3, <2>1 DEF PlacesOK, TimerInv
<1>7. \A s, r \in queue' : s.post = r.post => s = r
  BY <1>2 DEF TimerInv, OneEntry
<1> QED
  BY <1>2, <1>4, <1>5, <1>6, <1>7, SameEntries DEF TimerInv

\* Time changes nothing but the time left of entries.
LEMMA TickKeeps ==
    ASSUME TimerInv, Tick PROVE TimerInv'
<1>1. TypeOK
  BY DEF TimerInv
<1>2. /\ UNCHANGED <<running, loops, wpc, mtx, pc, opc, missed, ids, touching, raced>>
      /\ UNCHANGED history
      /\ queue' = {Later(s) : s \in queue}
      /\ cur' = [a \in Agents |-> IF a \in Stamps THEN Later(cur[a]) ELSE cur[a]]
  BY DEF Tick, set
<1>3. /\ cur' \in [Agents -> Entry]
      /\ \A a \in Agents : cur'[a].post = cur[a].post /\ cur'[a].num = cur[a].num
  <2>1. \A a \in Agents :
            /\ cur[a] \in Entry /\ Later(cur[a]) \in Entry
            /\ Later(cur[a]).post = cur[a].post /\ Later(cur[a]).num = cur[a].num
    BY <1>1, LaterFacts DEF TypeOK
  <2> QED
    BY <1>2, <2>1
<1>4. /\ queue' \subseteq Entry
      /\ \A s \in queue' : \E r \in queue : s.post = r.post /\ s.num = r.num
  <2>1. \A r \in queue : /\ Later(r) \in Entry
                         /\ Later(r).post = r.post /\ Later(r).num = r.num
    BY <1>1, LaterFacts DEF TypeOK
  <2> QED
    BY <1>2, <2>1
<1>5. ASSUME NEW s \in queue', NEW r \in queue', s.post = r.post
      PROVE  s = r
  <2>1. PICK v \in queue : s = Later(v)
    BY <1>2
  <2>2. PICK w \in queue : r = Later(w)
    BY <1>2
  <2>3. v.post = w.post
    BY <1>1, <1>5, <2>1, <2>2, LaterFacts DEF TypeOK
  <2>4. v = w
    BY <2>3 DEF TimerInv, OneEntry
  <2> QED
    BY <2>1, <2>2, <2>4
<1>6. \A a \in Agents : /\ Active(a)' <=> Active(a)
                        /\ Erasing(a)' <=> Erasing(a)
  BY <1>2 DEF Active, Erasing
<1>7. TypeOK'
  BY <1>1, <1>2, <1>3, <1>4 DEF TypeOK, history
<1>8. PlacesOK'
  <2>1. Callers \subseteq Agents
    BY DEF Agents
  <2> QED
    BY <1>2, <1>6, <2>1 DEF TimerInv, PlacesOK
<1> QED
  BY <1>2, <1>3, <1>4, <1>5, <1>6, <1>7, <1>8, SameEntries DEF TimerInv

\* The id of a task that is being posted is not one that was cancelled.
LEMMA EndInsertKeeps ==
    ASSUME TimerInv, NEW c \in Callers, EndInsert(c) PROVE TimerInv'
<1>1. /\ c \in Agents /\ c # Timer /\ Timer \in Agents
      /\ Callers \subseteq Agents /\ TypeOK
  BY TimerAssumption DEF Agents, TimerInv
<1>2. /\ UNCHANGED <<running, loops, wpc, mtx, queue, raced, cur, opc, missed>>
      /\ posts' = posts /\ req' = req /\ ran' = ran /\ late' = late
      /\ cancelled' = cancelled
      /\ touching' = touching \ {c}
      /\ ids' = ids \cup {cur[c].post} \/ ids' = ids
  BY DEF EndInsert, shared, history
<1>3. /\ pc' \in [Agents -> Labels]
      /\ pc[c] = "inserting" /\ pc'[c] = "find"
      /\ \A b \in Agents : b # c => pc'[b] = pc[b]
  BY <1>1, GotoFacts DEF EndInsert, Labels
<1>4. \A a \in Agents : /\ Active(a)' <=> Active(a)
                        /\ Erasing(a)' <=> Erasing(a)
                        /\ pc'[a] = "run" => pc[a] = "run"
                        /\ pc'[a] = "idle" <=> pc[a] = "idle"
  BY <1>3 DEF Active, Erasing
<1>5. cur[c].post \in Posts /\ cur[c].post \notin cancelled
  <2>1. Active(c)
    BY <1>3 DEF Active
  <2> QED
    BY <1>1, <2>1, TimerAssumption
    DEF TimerInv, NumbersOK, CancelOK, TypeOK, Entry, Posts
<1>6. TypeOK'
  BY <1>1, <1>2, <1>3, <1>5 DEF TypeOK, Labels
<1>7. PlacesOK'
  BY <1>1, <1>3, <1>4 DEF TimerInv, PlacesOK
<1>8. NumbersOK'
  BY <1>2, <1>4 DEF TimerInv, NumbersOK
<1>9. OneEntry'
  BY <1>2, <1>4 DEF TimerInv, OneEntry
<1>10. CountsOK'
  <2>1. \A p, n : Left(p, n)' <=> Left(p, n)
    BY <1>2 DEF Left, Fits
  <2>2. RunsAtMost'
    BY <1>2 DEF TimerInv, CountsOK, RunsAtMost, Fits, Asked
  <2> QED
    BY <1>2, <1>4, <2>1, <2>2 DEF TimerInv, CountsOK, Repeated
<1>11. CancelOK'
  BY <1>1, <1>2, <1>4, <1>5 DEF TimerInv, CancelOK
<1> QED
  BY <1>6, <1>7, <1>8, <1>9, <1>10, <1>11 DEF TimerInv

\* Past the check with the set untouched, a task is not cancelled and has
\* not run since.
LEMMA FindKeeps ==
    ASSUME TimerInv, NEW a \in Agents, Find(a) PROVE TimerInv'
<1>1. Timer \notin Callers /\ Timer \in Agents /\ Callers \subseteq Agents /\ TypeOK
  BY TimerAssumption DEF Agents, TimerInv
<1>2. /\ UNCHANGED <<running, loops, wpc, mtx, queue, ids, touching, cur, opc, missed>>
      /\ UNCHANGED history
      /\ posts' = posts /\ req' = req /\ ran' = ran /\ late' = late
      /\ cancelled' = cancelled
      /\ raced => raced'
  BY DEF Find, Touch, shared, history
<1>3. raced' \in BOOLEAN
  BY Zenon DEF Find, Touch
<1>4. /\ pc[a] = "find"
      /\ pc' \in [Agents -> Labels]
      /\ \A b \in Agents : b # a => pc'[b] = pc[b]
      /\ \/ /\ pc'[a] = "run" /\ cur[a].num # 0
            /\ raced' \/ cur[a].post \in ids
         \/ pc'[a] = Rest(a)
  <2>1. \E to \in Labels :
            /\ Goto(a, "find", to)
            /\ \/ to = "run" /\ cur[a].num # 0 /\ (raced' \/ cur[a].post \in ids)
               \/ to = Rest(a)
    BY DEF Find, Labels, Rest
  <2> QED
    BY <1>1, <2>1, GotoFacts
<1>5. TypeOK'
  BY <1>1, <1>2, <1>3, <1>4 DEF TypeOK, Labels
<1>6. \A b \in Agents : /\ Active(b)' => Active(b)
                        /\ Erasing(b)' <=> Erasing(b)
                        /\ b # a => (Active(b)' <=> Active(b))
  BY <1>4 DEF Active, Erasing, Rest
<1>7. PlacesOK'
  <2>1. a # Timer => pc'[a] = "idle" \/ Active(a)'
    BY <1>4 DEF Rest, Active
  <2>2. a = Timer => pc'[Timer] \in {"run", "lock"}
    BY <1>4 DEF Rest
  <2> QED
    BY <1>1, <1>4, <1>6, <2>1, <2>2 DEF TimerInv, PlacesOK
<1>8. CASE pc'[a] = Rest(a)
  <2>1. \A b \in Agents : pc'[b] = "run" => pc[b] = "run"
    BY <1>4, <1>8 DEF Rest
  <2>2. \A s, r \in queue' : s.post = r.post => s = r
    BY <1>2 DEF TimerInv, OneEntry
  <2> QED
    BY <1>2, <1>5, <1>6, <1>7, <2>1, <2>2, SameEntries DEF TimerInv
<1>9. CASE pc'[a] = "run" /\ cur[a].num # 0 /\ (raced' \/ cur[a].post \in ids)
  <2>1. Active(a) /\ Active(a)'
    BY <1>4, <1>9 DEF Active
  <2>2. NumbersOK'
    BY <1>2, <1>6 DEF TimerInv, NumbersOK
  <2>3. OneEntry'
    BY <1>2, <1>6 DEF TimerInv, OneEntry
  <2>4. CountsOK'
    <3>1. \A p, n : Left(p, n)' <=> Left(p, n)
      BY <1>2 DEF Left, Fits
    <3>2. RunsAtMost'
      BY <1>2 DEF TimerInv, CountsOK, RunsAtMost, Fits, Asked
    <3> QED
      BY <1>2, <1>4, <1>6, <1>9, <3>1, <3>2 DEF TimerInv, CountsOK, Repeated
  <2>5. CancelOK'
    <3>1. ~raced' => late[cur[a].post] = 0
      <4>1. cur[a].post \in Posts
        BY <1>1, <2>1, TimerAssumption DEF TimerInv, NumbersOK, TypeOK, Entry, Posts
      <4>2. ~raced' => cur[a].post \notin cancelled
        BY <1>2, <1>9 DEF TimerInv, CancelOK
      <4> QED
        BY <1>1, <4>1, <4>2 DEF TimerInv, CancelOK, TypeOK
    <3>2. ~raced' => \A b \in Agents : pc'[b] = "run" => late'[cur'[b].post] = 0
      BY <1>2, <1>4, <3>1 DEF TimerInv, CancelOK
    <3> QED
      BY <1>1, <1>2, <1>6, <3>2 DEF TimerInv, CancelOK
  <2> QED
    BY <1>5, <1>7, <2>2, <2>3, <2>4, <2>5 DEF TimerInv
<1> QED
  BY <1>4, <1>8, <1>9

\* A round: it is taken from the count before the entry is pushed again.
LEMMA RunTaskKeeps ==
    ASSUME TimerInv, NEW a \in Agents, RunTask(a) PROVE TimerInv'
<1> DEFINE p == cur[a].post
           n == IF ~Repeated(a) \/ cur[a].num < 0 THEN cur[a].num
                                                  ELSE cur[a].num - 1
<1>1. /\ Timer \notin Callers /\ Timer \in Agents /\ Callers \subseteq Agents
      /\ TypeOK
      /\ IntHalf \in Nat /\ IntHalf > 1
  BY TimerAssumption DEF Agents, TimerInv
<1>2. /\ UNCHANGED <<running, loops, wpc, mtx, queue, ids, touching, raced, opc, missed>>
      /\ posts' = posts /\ req' = req /\ cancelled' = cancelled
      /\ ran' = Count(ran, p)
      /\ \/ p \in cancelled /\ late' = Count(late, p)
         \/ p \notin cancelled /\ late' = late
      /\ pc[a] = "run"
      /\ pc' = [pc EXCEPT ![a] = IF Repeated(a) THEN "push" ELSE Rest(a)]
      /\ cur' = [Stamped(a) EXCEPT ![a].num =
                      IF ~Repeated(a) \/ @ < 0 THEN @ ELSE @ - 1]
  BY DEF RunTask, shared, set
<1>3. Active(a)
  BY <1>2 DEF Active
<1>4. p \in Posts /\ p <= posts
  BY <1>1, <1>3, TimerAssumption DEF TimerInv, NumbersOK, TypeOK, Entry, Posts
<1>5. /\ pc' \in [Agents -> Labels]
      /\ pc'[a] = IF Repeated(a) THEN "push" ELSE Rest(a)
      /\ \A b \in Agents : b # a => pc'[b] = pc[b]
  BY <1>1, <1>2 DEF TypeOK, Labels, Rest
<1>6. n \in Int32 /\ cur[a].num \in Int32
  BY <1>1 DEF TypeOK, Entry, Int32
<1>7. /\ cur' \in [Agents -> Entry]
      /\ cur'[a].post = p /\ cur'[a].num = n
      /\ \A b \in Agents : b # a => cur'[b] = cur[b]
  <2> HIDE DEF p, n
  <2>1. /\ Stamped(a) \in [Agents -> Entry]
        /\ Stamped(a)[a].post = p /\ Stamped(a)[a].num = cur[a].num
        /\ \A b \in Agents : b # a => Stamped(a)[b] = cur[b]
    BY <1>1, <1>4, StampedFacts DEF p
  <2> DEFINE f == Stamped(a)
  <2>2. cur' = [f EXCEPT ![a] = [f[a] EXCEPT !.num = n]]
    BY <1>2, <2>1 DEF n
  <2> HIDE DEF f
  <2>3. PICK e \in Entry : e = [f[a] EXCEPT !.num = n]
    BY <1>6, <2>1 DEF Entry, f
  <2>4. e.post = p /\ e.num = n
    BY <2>1, <2>3 DEF Entry, f
  <2>5. cur' = [f EXCEPT ![a] = e]
    BY <2>2, <2>3
  <2> QED
    BY <2>1, <2>4, <2>5 DEF f
<1>8. /\ ran' \in [Posts -> 0..MaxRan]
      /\ \A q \in Posts : q # p => ran'[q] = ran[q]
      /\ ran'[p] <= ran[p] + 1
  BY <1>1, <1>2, <1>4, CountFacts DEF TypeOK
<1>9. /\ late' \in [Posts -> 0..MaxRan]
      /\ \A q \in Posts : q # p => late'[q] = late[q]
      /\ p \notin cancelled => late'[p] = late[p]
      /\ late'[p] <= late[p] + 1
  BY <1>1, <1>2, <1>4, CountFacts DEF TypeOK
<1> HIDE DEF p, n
<1>10. TypeOK'
  BY <1>1, <1>2, <1>5, <1>7, <1>8, <1>9 DEF TypeOK, Labels
<1>11. \A b \in Agents : /\ b # a => (Active(b)' <=> Active(b))
                         /\ Erasing(b)' <=> Erasing(b)
                         /\ pc'[b] = "run" => b # a /\ pc[b] = "run"
  BY <1>2, <1>5 DEF Active, Erasing, Rest
<1>12. /\ Active(a)' => Repeated(a)
       /\ a # Timer => Active(a)' \/ pc'[a] = "idle"
       /\ a = Timer => pc'[a] \in {"push", "lock"}
  BY <1>5 DEF Active, Rest
<1>13. PlacesOK'
  BY <1>1, <1>5, <1>11, <1>12 DEF TimerInv, PlacesOK
<1>14. NumbersOK'
  BY <1>2, <1>3, <1>7, <1>11 DEF TimerInv, NumbersOK, p
<1>15. OneEntry'
  BY <1>2, <1>3, <1>7, <1>11 DEF TimerInv, OneEntry, p
<1>16. CountsOK'
  <2> DEFINE NewLeft(q, m) ==
                 Fits(q) => /\ m >= 0
                            /\ m + ran'[q] <= req[q].count
                            /\ ~req[q].repeated => m = 1
  <2>0. req' = req /\ queue' = queue
    BY <1>2
  <2>1. Left(p, cur[a].num) /\ (Repeated(a) => cur[a].num # 0)
    BY <1>2, <1>3 DEF TimerInv, CountsOK, p
  <2>2. \A q, m : q \in Posts /\ q # p /\ Left(q, m) => NewLeft(q, m)
    BY <1>8 DEF Left
  <2>3. Repeated(a) => NewLeft(p, n)
    <3> SUFFICES ASSUME Repeated(a), Fits(p)
                 PROVE  /\ n >= 0
                        /\ n + ran'[p] <= req[p].count
                        /\ req[p].repeated
      OBVIOUS
    <3>1. n = cur[a].num - 1 /\ cur[a].num > 0 /\ cur[a].num + ran[p] <= req[p].count
      BY <1>6, <2>1 DEF n, Left, Int32
    <3>2. PICK r \in 0..MaxRan : r = ran'[p]
      BY <1>4, <1>8
    <3>3. ran[p] \in Int /\ req[p].count \in Int /\ cur[a].num \in Int
      BY <1>1, <1>4, <1>6, TimerAssumption DEF TypeOK, Request, Int32
    <3>4. r \in Int /\ r <= ran[p] + 1
      BY <1>8, <3>2, TimerAssumption
    <3>5. n >= 0 /\ n + r <= req[p].count
      BY <3>1, <3>3, <3>4
    <3> QED
      BY <3>2, <3>5 DEF Repeated, p
  <2>4. Fits(p) => ran'[p] <= req[p].count
    <3> SUFFICES ASSUME Fits(p) PROVE ran'[p] <= req[p].count
      OBVIOUS
    <3>1. cur[a].num > 0 /\ cur[a].num + ran[p] <= req[p].count
      BY <1>6, <2>1 DEF Left, Int32, Repeated, p
    <3>2. PICK r \in 0..MaxRan : r = ran'[p]
      BY <1>4, <1>8
    <3>3. ran[p] \in Int /\ req[p].count \in Int /\ cur[a].num \in Int
      BY <1>1, <1>4, <1>6, TimerAssumption DEF TypeOK, Request, Int32
    <3>4. r \in Int /\ r <= ran[p] + 1
      BY <1>8, <3>2, TimerAssumption
    <3>5. r <= req[p].count
      BY <3>1, <3>3, <3>4
    <3> QED
      BY <3>2, <3>5
  <2>5. RunsAtMost'
    <3> SUFFICES ASSUME NEW q \in 1..posts, Fits(q)
                 PROVE  ran'[q] <= req[q].count
      BY <1>2 DEF RunsAtMost, Fits, Asked
    <3>1. q \in Posts
      BY <1>1, TimerAssumption DEF TypeOK, Posts
    <3>2. CASE q = p
      BY <2>4, <3>2
    <3>3. CASE q # p
      BY <1>8, <3>1, <3>3 DEF TimerInv, CountsOK, RunsAtMost, Asked
    <3> QED
      BY <3>2, <3>3
  <2> HIDE DEF NewLeft
  <2>6. ASSUME NEW b \in Agents, Active(b)'
        PROVE  NewLeft(cur'[b].post, cur'[b].num)
    <3>1. CASE b = a
      BY <1>7, <1>12, <2>3, <2>6, <3>1
    <3>2. CASE b # a
      <4>1. Active(b) /\ cur'[b] = cur[b] /\ cur[b].post # p
        BY <1>3, <1>7, <1>11, <2>6, <3>2 DEF TimerInv, OneEntry, p
      <4>2. cur[b].post \in Posts /\ Left(cur[b].post, cur[b].num)
        BY <1>1, <4>1, TimerAssumption
        DEF TimerInv, NumbersOK, CountsOK, TypeOK, Entry, Posts
      <4> QED
        BY <2>2, <4>1, <4>2
    <3> QED
      BY <3>1, <3>2
  <2>7. ASSUME NEW s \in queue'
        PROVE  NewLeft(s.post, s.num)
    <3>1. s \in queue /\ s.post # p
      BY <1>2, <1>3 DEF TimerInv, OneEntry, p
    <3>2. s.post \in Posts /\ Left(s.post, s.num)
      BY <1>1, <3>1, TimerAssumption
      DEF TimerInv, NumbersOK, CountsOK, TypeOK, Entry, Posts
    <3> QED
      BY <2>2, <3>1, <3>2
  <2>8. \A b \in Agents : (pc[b] = "run" /\ Repeated(b))' => cur'[b].num # 0
    BY <1>2, <1>7, <1>11 DEF TimerInv, CountsOK, Repeated
  <2>9. \A q \in Posts : q > posts => ran'[q] = 0
    BY <1>1, <1>4, <1>8, TimerAssumption DEF TimerInv, CountsOK, TypeOK, Posts
  <2>10. posts' = posts
    BY <1>2
  <2> QED
    BY <2>0, <2>5, <2>6, <2>7, <2>8, <2>9, <2>10 DEF CountsOK, NewLeft, Left, Fits
<1>17. CancelOK'
  <2>1. \A b \in Agents : cur'[b].post = cur[b].post
    BY <1>7 DEF p
  <2>2. \A b \in Callers : Active(b)' => Active(b)
    BY <1>1, <1>3, <1>11
  <2>3. \A q \in Posts : late'[q] > 0 => q \in cancelled
    BY <1>9 DEF TimerInv, CancelOK
  <2>4. ~raced => \A q \in Posts : late'[q] <= 1
    <3> SUFFICES ASSUME ~raced, NEW q \in Posts PROVE late'[q] <= 1
      OBVIOUS
    <3>1. CASE q = p
      <4>1. late[p] = 0
        BY <1>2, <3>1 DEF TimerInv, CancelOK, p
      <4> QED
        BY <1>9, <3>1, <4>1
    <3>2. CASE q # p
      BY <1>9, <3>2 DEF TimerInv, CancelOK
    <3> QED
      BY <3>1, <3>2
  <2>5. ASSUME ~raced, NEW b \in Agents, pc'[b] = "run"
        PROVE  late'[cur'[b].post] = 0
    <3>1. b # a /\ pc[b] = "run" /\ Active(b)
      BY <1>11, <2>5 DEF Active
    <3>2. cur[b].post # p
      BY <1>3, <3>1 DEF TimerInv, OneEntry, p
    <3>3. cur[b].post \in Posts
      BY <1>1, <3>1, TimerAssumption DEF TimerInv, NumbersOK, TypeOK, Entry, Posts
    <3> QED
      BY <1>9, <2>1, <2>5, <3>1, <3>2, <3>3 DEF TimerInv, CancelOK
  <2> QED
    BY <1>1, <1>2, <1>11, <2>1, <2>2, <2>3, <2>4, <2>5 DEF TimerInv, CancelOK
<1> QED
  BY <1>10, <1>13, <1>14, <1>15, <1>16, <1>17 DEF TimerInv

\* The entry goes from the agent to the queue.
LEMMA PushKeeps ==
    ASSUME TimerInv, NEW a \in Agents, Push(a) PROVE TimerInv'
<1>1. /\ Timer \notin Callers /\ Timer \in Agents /\ Callers \subseteq Agents
      /\ TypeOK
  BY TimerAssumption DEF Agents, TimerInv
<1>2. /\ UNCHANGED <<running, loops, wpc, mtx, ids, touching, raced, opc, missed>>
      /\ posts' = posts /\ req' = req /\ ran' = ran /\ late' = late
      /\ cancelled' = cancelled
      /\ queue' = queue \cup {cur[a]}
      /\ cur' = [cur EXCEPT ![a] = NoEntry]
      /\ pc[a] = "push"
  BY DEF Push, set, history
<1>3. /\ pc' \in [Agents -> Labels]
      /\ pc'[a] = Rest(a)
      /\ \A b \in Agents : b # a =>
            IF pc[b] \in {"wait", "timed"} THEN pc'[b] = "lock" ELSE pc'[b] = pc[b]
  <2>1. \A b \in Agents : pc[b] \in Labels
    BY <1>1 DEF TypeOK, Labels
  <2>2. Rest(a) \in Labels /\ "lock" \in Labels
    BY DEF Rest, Labels
  <2> QED
    BY <2>1, <2>2 DEF Push
<1>4. NoEntry \in Entry
  BY TimerAssumption DEF NoEntry, Entry, Int32
<1>5. /\ cur' \in [Agents -> Entry]
      /\ cur[a] \in Entry
      /\ \A b \in Agents : b # a => cur'[b] = cur[b]
  BY <1>1, <1>2, <1>4 DEF TypeOK
<1>6. Active(a) /\ ~Active(a)' /\ ~Erasing(a)' /\ pc'[a] # "run"
  BY <1>2, <1>3 DEF Active, Erasing, Rest
<1>7. \A b \in Agents : b # a => /\ Active(b)' <=> Active(b)
                                 /\ Erasing(b)' <=> Erasing(b)
                                 /\ pc'[b] = "run" <=> pc[b] = "run"
                                 /\ pc[b] = "idle" => pc'[b] = "idle"
  BY <1>3 DEF Active, Erasing
<1>8. TypeOK'
  BY <1>1, <1>2, <1>3, <1>5 DEF TypeOK, Labels
<1>9. PlacesOK'
  <2>1. pc'[Timer] \in {"idle", "lock", "sleep", "wait", "check", "timed", "find",
                        "run", "push"}
    BY <1>1, <1>3 DEF TimerInv, PlacesOK, Rest
  <2>2. a # Timer => pc'[a] = "idle"
    BY <1>3 DEF Rest
  <2> QED
    BY <1>1, <1>7, <2>1, <2>2 DEF TimerInv, PlacesOK
<1>10. NumbersOK'
  BY <1>2, <1>5, <1>6, <1>7 DEF TimerInv, NumbersOK
<1>11. OneEntry'
  BY <1>2, <1>5, <1>6, <1>7 DEF TimerInv, OneEntry
<1>12. CountsOK'
  <2>1. \A p, n : Left(p, n)' <=> Left(p, n)
    BY <1>2 DEF Left, Fits
  <2>2. RunsAtMost'
    BY <1>2 DEF TimerInv, CountsOK, RunsAtMost, Fits, Asked
  <2>3. \A b \in Agents : Active(b)' => Active(b) /\ cur'[b] = cur[b]
    BY <1>5, <1>6, <1>7
  <2>4. ASSUME NEW s \in queue'
        PROVE  Left(s.post, s.num)
    BY <1>2, <1>6 DEF TimerInv, CountsOK
  <2>5. \A b \in Agents : (pc[b] = "run" /\ Repeated(b))' => cur'[b].num # 0
    BY <1>2, <1>5, <1>6, <1>7 DEF TimerInv, CountsOK, Repeated
  <2>6. \A p \in Posts : p > posts => ran[p] = 0
    BY DEF TimerInv, CountsOK
  <2>7. \A b \in Agents : Active(b)' => Left(cur'[b].post, cur'[b].num)
    BY <2>3 DEF TimerInv, CountsOK
  <2> QED
    BY <1>2, <2>2, <2>4, <2>5, <2>6, <2>7 DEF CountsOK, Left, Fits
<1>13. CancelOK'
  <2>1. \A b \in Agents : Active(b)' \/ Erasing(b)' \/ pc'[b] = "run" =>
            cur'[b] = cur[b]
    BY <1>5, <1>6, <1>7
  <2> QED
    BY <1>1, <1>2, <1>6, <1>7, <2>1 DEF TimerInv, CancelOK
<1> QED
  BY <1>8, <1>9, <1>10, <1>11, <1>12, <1>13 DEF TimerInv

\* The timer thread takes an entry from the queue.
LEMMA TakeKeeps ==
    ASSUME TimerInv, TakeTop, queue' # queue PROVE TimerInv'
<1>1. /\ Timer \notin Callers /\ Timer \in Agents /\ Callers \subseteq Agents
      /\ TypeOK
  BY TimerAssumption DEF Agents, TimerInv
<1>2. /\ UNCHANGED <<running, loops, wpc, ids, touching, raced, opc, missed>>
      /\ posts' = posts /\ req' = req /\ ran' = ran /\ late' = late
      /\ cancelled' = cancelled
      /\ mtx' = Nobody
  BY DEF TakeTop, set, history
<1>3. PICK s \in queue :
          /\ queue' = queue \ {s}
          /\ cur' = [cur EXCEPT ![Timer] = [s EXCEPT !.left = 0]]
          /\ Goto(Timer, "check", IF req[s.post].repeated THEN "find" ELSE "run")
  BY DEF TakeTop
<1>4. s \in Entry /\ s.post > 0 /\ s.post <= posts /\ s.post \in Posts
  BY <1>1, TimerAssumption DEF TimerInv, TypeOK, NumbersOK, Entry, Posts
<1>5. /\ cur' \in [Agents -> Entry]
      /\ cur'[Timer].post = s.post /\ cur'[Timer].num = s.num
      /\ \A b \in Agents : b # Timer => cur'[b] = cur[b]
  <2>1. PICK e \in Entry : e = [s EXCEPT !.left = 0]
    <3>1. s \in Entry
      BY <1>4
    <3>2. [s EXCEPT !.left = 0] \in Entry
      BY <3>1 DEF Entry
    <3> QED
      BY <3>2
  <2>2. e.post = s.post /\ e.num = s.num
    BY <1>4, <2>1 DEF Entry
  <2>3. cur' = [cur EXCEPT ![Timer] = e]
    BY <1>3, <2>1
  <2> QED
    BY <1>1, <2>2, <2>3 DEF TypeOK
<1>6. /\ pc' \in [Agents -> Labels]
      /\ pc[Timer] = "check"
      /\ pc'[Timer] = IF req[s.post].repeated THEN "find" ELSE "run"
      /\ \A b \in Agents : b # Timer => pc'[b] = pc[b]
  <2>1. (IF req[s.post].repeated THEN "find" ELSE "run") \in Labels
    BY DEF Labels
  <2> QED
    BY <1>1, <1>3, <2>1, GotoFacts
<1>7. /\ ~Active(Timer) /\ Active(Timer)' /\ ~Erasing(Timer)'
      /\ \A b \in Agents : b # Timer => /\ Active(b)' <=> Active(b)
                                        /\ Erasing(b)' <=> Erasing(b)
  BY <1>6 DEF Active, Erasing
<1>8. TypeOK'
  BY <1>1, <1>2, <1>3, <1>5, <1>6 DEF TypeOK, Labels
<1>9. PlacesOK'
  BY <1>1, <1>6, <1>7 DEF TimerInv, PlacesOK
<1>10. NumbersOK'
  BY <1>2, <1>3, <1>4, <1>5, <1>7 DEF TimerInv, NumbersOK
<1>11. OneEntry'
  BY <1>2, <1>3, <1>5, <1>7 DEF TimerInv, OneEntry
<1>12. CountsOK'
  <2>1. RunsAtMost'
    BY <1>2 DEF TimerInv, CountsOK, RunsAtMost, Fits, Asked
  <2>2. \A b \in Agents : Active(b)' => Left(cur'[b].post, cur'[b].num)
    BY <1>5, <1>7 DEF TimerInv, CountsOK
  <2>3. \A r \in queue' : Left(r.post, r.num)
    BY <1>3 DEF TimerInv, CountsOK
  <2>4. \A b \in Agents : (pc[b] = "run" /\ Repeated(b))' => cur'[b].num # 0
    <3> SUFFICES ASSUME NEW b \in Agents, pc'[b] = "run", req[cur'[b].post].repeated
                 PROVE  cur'[b].num # 0
      BY <1>2 DEF Repeated
    <3>1. b # Timer
      BY <1>5, <1>6
    <3> QED
      BY <1>5, <1>6, <3>1 DEF TimerInv, CountsOK, Repeated
  <2>5. \A p \in Posts : p > posts => ran[p] = 0
    BY DEF TimerInv, CountsOK
  <2> QED
    BY <1>2, <2>1, <2>2, <2>3, <2>4, <2>5 DEF CountsOK, Left, Fits
<1>13. CancelOK'
  <2>1. ASSUME ~raced, NEW b \in Agents, pc'[b] = "run"
        PROVE  late[cur'[b].post] = 0
    <3>1. CASE b = Timer
      <4>1. ~req[s.post].repeated
        BY <1>6, <2>1, <3>1
      <4>2. s.post \notin cancelled
        BY <4>1 DEF TimerInv, CancelOK
      <4> QED
        BY <1>1, <1>4, <1>5, <3>1, <4>2 DEF TimerInv, CancelOK, TypeOK
    <3>2. CASE b # Timer
      BY <1>5, <1>6, <2>1, <3>2 DEF TimerInv, CancelOK
    <3> QED
      BY <3>1, <3>2
  <2>2. \A b \in Callers : cur'[b] = cur[b]
    BY <1>1, <1>5
  <2> QED
    BY <1>1, <1>2, <1>7, <2>1, <2>2 DEF TimerInv, CancelOK
<1> QED
  BY <1>8, <1>9, <1>10, <1>11, <1>12, <1>13 DEF TimerInv

\* The number of a call is new, and nothing is known of it yet.
LEMMA PostKeeps ==
    ASSUME TimerInv, NEW c \in Callers, Post(c) PROVE TimerInv'
<1> DEFINE p == posts + 1
<1>1. /\ Timer \notin Callers /\ Timer \in Agents /\ Callers \subseteq Agents
      /\ c \in Agents /\ TypeOK /\ IntHalf \in Nat /\ IntHalf > 1
  BY TimerAssumption DEF Agents, TimerInv
<1>2. /\ UNCHANGED <<running, loops, wpc, mtx, queue, ids, touching, raced, opc, missed>>
      /\ ran' = ran /\ late' = late /\ cancelled' = cancelled
      /\ posts' = p
  BY DEF Post, shared, set
<1>3. posts \in Nat /\ p \in Posts /\ p \in Nat /\ posts < p
  BY <1>1, TimerAssumption DEF Post, TypeOK, Posts
<1>4. PICK r \in Wishes :
          /\ req' = [req EXCEPT ![posts + 1] = r]
          /\ cur' = [cur EXCEPT ![c] = [NoEntry EXCEPT !.post = posts + 1,
                                                        !.num = ToInt(r.count)]]
  BY DEF Post
<1>5. /\ r \in Request /\ r.count \in Nat
      /\ ~r.repeated => r.count = 1
  <2>1. /\ \A d \in Deltas : d \in Nat
        /\ \A m \in Counts : m \in Nat
    BY TimerAssumption
  <2>2. CASE r \in [repeated : {TRUE}, delta : Deltas, count : Counts]
    <3>1. r.repeated = TRUE /\ r.delta \in Nat /\ r.count \in Nat
      BY <2>1, <2>2
    <3>2. r = [repeated |-> r.repeated, delta |-> r.delta, count |-> r.count]
      BY <2>2
    <3> QED
      BY <3>1, <3>2 DEF Request
  <2>3. CASE r \in [repeated : {FALSE}, delta : Deltas, count : {1}]
    <3>1. r.repeated = FALSE /\ r.delta \in Nat /\ r.count = 1
      BY <2>1, <2>3
    <3>2. r = [repeated |-> r.repeated, delta |-> r.delta, count |-> r.count]
      BY <2>3
    <3>3. r.repeated \in BOOLEAN /\ r.count \in Nat
      <4>1. r.repeated \in BOOLEAN
        BY <3>1, Zenon
      <4> QED
        BY <3>1, <4>1
    <3>4. r \in Request
      BY <3>1, <3>2, <3>3 DEF Request
    <3> QED
      BY <3>1, <3>3, <3>4
  <2> QED
    BY <1>4, <2>2, <2>3 DEF Wishes
<1>6. /\ req' \in [Posts -> Request]
      /\ req'[p] = r
      /\ \A q \in Posts : q # p => req'[q] = req[q]
  BY <1>1, <1>3, <1>4, <1>5 DEF TypeOK
<1>7. /\ cur' \in [Agents -> Entry]
      /\ cur'[c].post = p /\ cur'[c].num = ToInt(r.count)
      /\ \A b \in Agents : b # c => cur'[b] = cur[b]
  <2>1. ToInt(r.count) \in Int32
    BY <1>5, ToIntFacts
  <2>2. NoEntry \in Entry
    BY TimerAssumption DEF NoEntry, Entry, Int32
  <2> DEFINE e == [NoEntry EXCEPT !.post = p, !.num = ToInt(r.count)]
  <2>3. e \in Entry /\ e.post = p /\ e.num = ToInt(r.count)
    <3>1. PICK m \in Int32 : m = ToInt(r.count)
      BY <2>1
    <3>2. PICK q \in Posts : q = p
      BY <1>3
    <3> DEFINE f == [NoEntry EXCEPT !.post = q]
    <3>3. f \in Entry /\ f.post = q
      BY <2>2 DEF Entry
    <3> HIDE DEF f
    <3>4. /\ [f EXCEPT !.num = m] \in Entry
          /\ [f EXCEPT !.num = m].post = q /\ [f EXCEPT !.num = m].num = m
      BY <3>3 DEF Entry
    <3>5. e = [f EXCEPT !.num = m]
      BY <3>1, <3>2 DEF f
    <3> QED
      BY <3>1, <3>2, <3>4, <3>5
  <2>4. cur' = [cur EXCEPT ![c] = e]
    BY <1>4
  <2> HIDE DEF e
  <2> QED
    BY <1>1, <2>3, <2>4 DEF TypeOK
<1>8. /\ pc' \in [Agents -> Labels]
      /\ pc[c] = "idle" /\ pc'[c] = "start"
      /\ \A b \in Agents : b # c => pc'[b] = pc[b]
  BY <1>1, GotoFacts DEF Post, Labels
<1> HIDE DEF p
<1>9. /\ ~Active(c) /\ Active(c)' /\ ~Erasing(c)' /\ ~Erasing(c)
      /\ \A b \in Agents : b # c => /\ Active(b)' <=> Active(b)
                                    /\ Erasing(b)' <=> Erasing(b)
  BY <1>8 DEF Active, Erasing
\* Whoever had an entry has one of an earlier call.
<1>10. \A b \in Agents : b # c /\ (Active(b) \/ Erasing(b)) =>
           cur[b].post \in Posts /\ cur[b].post # p /\ cur[b].post <= posts
  BY <1>1, <1>3, TimerAssumption DEF TimerInv, NumbersOK, TypeOK, Entry, Posts
<1>11. \A s \in queue : s.post \in Posts /\ s.post # p /\ s.post <= posts
  BY <1>1, <1>3, TimerAssumption DEF TimerInv, NumbersOK, TypeOK, Entry, Posts
<1>12. \A q \in Posts : q # p => (q <= p <=> q <= posts)
  BY <1>3, TimerAssumption DEF p, Posts
<1>13. TypeOK'
  BY <1>1, <1>2, <1>3, <1>6, <1>7, <1>8 DEF TypeOK, Labels
<1>14. PlacesOK'
  BY <1>1, <1>8, <1>9 DEF TimerInv, PlacesOK
<1>15. NumbersOK'
  <2>1. \A b \in Agents : Active(b)' \/ Erasing(b)' =>
            cur'[b].post > 0 /\ cur'[b].post <= p
    <3> SUFFICES ASSUME NEW b \in Agents, Active(b)' \/ Erasing(b)'
                 PROVE  cur'[b].post > 0 /\ cur'[b].post <= p
      OBVIOUS
    <3>1. CASE b = c
      BY <1>3, <1>7, <3>1, TimerAssumption DEF Posts
    <3>2. CASE b # c
      <4>1. cur[b].post \in Posts /\ cur[b].post # p /\ cur[b].post <= posts
        BY <1>9, <1>10, <3>2
      <4> QED
        BY <1>7, <1>12, <3>2, <4>1, TimerAssumption DEF Posts
    <3> QED
      BY <3>1, <3>2
  <2>2. \A s \in queue : s.post > 0 /\ s.post <= p
    BY <1>11, <1>12 DEF TimerInv, NumbersOK
  <2>3. \A q \in Posts : q <= p /\ ~req'[q].repeated => req'[q].count = 1
    BY <1>5, <1>6, <1>12 DEF TimerInv, NumbersOK
  <2> QED
    BY <1>2, <2>1, <2>2, <2>3 DEF NumbersOK
<1>16. OneEntry'
  BY <1>2, <1>7, <1>9, <1>10, <1>11 DEF TimerInv, OneEntry
<1>17. CountsOK'
  <2> DEFINE NewLeft(q, m) ==
                 req'[q].count < IntHalf =>
                     /\ m >= 0
                     /\ m + ran[q] <= req'[q].count
                     /\ ~req'[q].repeated => m = 1
  <2>1. ran[p] = 0
    BY <1>3 DEF TimerInv, CountsOK
  <2>2. NewLeft(p, ToInt(r.count))
    BY <1>1, <1>5, <1>6, <2>1, ToIntFacts
  <2>3. \A q \in Posts : \A m : q # p /\ Left(q, m) => NewLeft(q, m)
    BY <1>6 DEF Left, Fits
  <2> HIDE DEF NewLeft
  <2>4. ASSUME NEW b \in Agents, Active(b)'
        PROVE  NewLeft(cur'[b].post, cur'[b].num)
    <3>1. CASE b = c
      BY <1>7, <2>2, <3>1
    <3>2. CASE b # c
      BY <1>7, <1>9, <1>10, <2>3, <2>4, <3>2 DEF TimerInv, CountsOK
    <3> QED
      BY <3>1, <3>2
  <2>5. \A s \in queue : NewLeft(s.post, s.num)
    BY <1>11, <2>3 DEF TimerInv, CountsOK
  <2>6. \A b \in Agents : pc'[b] = "run" /\ req'[cur'[b].post].repeated =>
            cur'[b].num # 0
    <3> SUFFICES ASSUME NEW b \in Agents, pc'[b] = "run",
                        req'[cur'[b].post].repeated
                 PROVE  cur'[b].num # 0
      OBVIOUS
    <3>1. b # c /\ pc[b] = "run" /\ Active(b) /\ cur'[b] = cur[b]
      BY <1>7, <1>8 DEF Active
    <3> QED
      BY <1>6, <1>10, <3>1 DEF TimerInv, CountsOK, Repeated
  <2>7. \A q \in Posts : q > p => ran[q] = 0
    BY <1>3, TimerAssumption DEF TimerInv, CountsOK, p, Posts
  <2>8. ASSUME NEW q \in 1..p, req'[q].count < IntHalf
        PROVE  ran[q] <= req'[q].count
    <3>1. q \in Posts
      BY <1>3, TimerAssumption DEF Posts
    <3>2. CASE q = p
      BY <1>5, <1>6, <2>1, <3>2
    <3>3. CASE q # p
      <4>1. q \in 1..posts
        BY <1>3, <1>12, <3>1, <3>3
      <4> QED
        BY <1>6, <2>8, <3>1, <3>3, <4>1 DEF TimerInv, CountsOK, RunsAtMost, Fits, Asked
    <3> QED
      BY <3>2, <3>3
  <2>9. RunsAtMost'
    BY <1>2, <2>8 DEF RunsAtMost, Fits, Asked
  <2> QED
    BY <1>2, <2>4, <2>5, <2>6, <2>7, <2>9 DEF CountsOK, NewLeft, Left, Fits, Repeated
<1>18. CancelOK'
  <2>1. \A q \in cancelled : q \in Posts /\ q <= posts /\ q # p /\ req[q].repeated
    BY <1>1, <1>3 DEF TimerInv, CancelOK, TypeOK
  <2>2. \A q \in cancelled : q <= p /\ req'[q].repeated
    BY <1>6, <1>12, <2>1
  <2>3. \A d \in Callers : Erasing(d)' =>
            Erasing(d) /\ d # c /\ cur'[d] = cur[d]
    BY <1>1, <1>7, <1>9
  <2>4. \A d \in Callers : Erasing(d)' => req'[cur'[d].post].repeated
    BY <1>1, <1>6, <1>10, <2>3 DEF TimerInv, CancelOK
  <2>5. \A b, d \in Callers : Active(b)' /\ Erasing(d)' => cur'[b].post # cur'[d].post
    BY <1>1, <1>7, <1>9, <1>10, <2>3 DEF TimerInv, CancelOK
  <2>6. \A b \in Callers : Active(b)' => cur'[b].post \notin cancelled
    BY <1>1, <1>7, <1>9, <2>1 DEF TimerInv, CancelOK
  <2>7. \A b \in Agents : pc'[b] = "run" => pc[b] = "run" /\ cur'[b] = cur[b]
    BY <1>7, <1>8
  <2> QED
    BY <1>2, <2>2, <2>4, <2>5, <2>6, <2>7 DEF TimerInv, CancelOK
<1> QED
  BY <1>13, <1>14, <1>15, <1>16, <1>17, <1>18 DEF TimerInv

\* A caller cancels a task whose posting call has returned.
LEMMA CancelKeeps ==
    ASSUME TimerInv, NEW c \in Callers, Cancel(c) PROVE TimerInv'
<1>1. /\ Timer \notin Callers /\ Timer \in Agents /\ Callers \subseteq Agents
      /\ c \in Agents /\ TypeOK
  BY TimerAssumption DEF Agents, TimerInv
<1>2. /\ UNCHANGED <<running, loops, wpc, mtx, queue, ids, touching, raced, opc, missed>>
      /\ posts' = posts /\ req' = req /\ ran' = ran /\ late' = late
      /\ cancelled' = cancelled
  BY DEF Cancel, shared, set, history
<1>3. PICK p \in 1..posts :
          /\ req[p].repeated
          /\ \A d \in Callers : pc[d] # "idle" => cur[d].post # p
          /\ cur' = [cur EXCEPT ![c] = [NoEntry EXCEPT !.post = p]]
  BY DEF Cancel
<1>4. p \in Posts /\ p > 0 /\ p <= posts
  BY <1>1, TimerAssumption DEF TypeOK, Posts
<1>5. /\ cur' \in [Agents -> Entry]
      /\ cur'[c].post = p
      /\ \A b \in Agents : b # c => cur'[b] = cur[b]
  <2> DEFINE e == [NoEntry EXCEPT !.post = p]
  <2>1. NoEntry \in Entry
    BY TimerAssumption DEF NoEntry, Entry, Int32
  <2>2. e \in Entry /\ e.post = p
    BY <1>4, <2>1 DEF Entry
  <2>3. cur' = [cur EXCEPT ![c] = e]
    BY <1>3
  <2> HIDE DEF e
  <2> QED
    BY <1>1, <2>2, <2>3 DEF TypeOK
<1>6. /\ pc' \in [Agents -> Labels]
      /\ pc[c] = "idle" /\ pc'[c] = "erase"
      /\ \A b \in Agents : b # c => pc'[b] = pc[b]
  BY <1>1, GotoFacts DEF Cancel, Labels
<1>7. /\ ~Active(c) /\ ~Active(c)' /\ Erasing(c)'
      /\ \A b \in Agents : b # c => /\ Active(b)' <=> Active(b)
                                    /\ Erasing(b)' <=> Erasing(b)
      /\ \A b \in Agents : Active(b) => pc[b] # "idle"
  BY <1>6 DEF Active, Erasing
<1>8. TypeOK'
  BY <1>1, <1>2, <1>5, <1>6 DEF TypeOK, Labels
<1>9. PlacesOK'
  BY <1>1, <1>6, <1>7 DEF TimerInv, PlacesOK
<1>10. NumbersOK'
  BY <1>2, <1>4, <1>5, <1>7 DEF TimerInv, NumbersOK
<1>11. OneEntry'
  BY <1>2, <1>5, <1>7 DEF TimerInv, OneEntry
<1>12. CountsOK'
  <2>1. RunsAtMost'
    BY <1>2 DEF TimerInv, CountsOK, RunsAtMost, Fits, Asked
  <2>2. \A b \in Agents : Active(b)' => Left(cur'[b].post, cur'[b].num)
    BY <1>5, <1>7 DEF TimerInv, CountsOK
  <2>3. \A b \in Agents : (pc[b] = "run" /\ Repeated(b))' => cur'[b].num # 0
    BY <1>2, <1>5, <1>6 DEF TimerInv, CountsOK, Repeated
  <2>4. /\ \A s \in queue : Left(s.post, s.num)
        /\ \A q \in Posts : q > posts => ran[q] = 0
    BY DEF TimerInv, CountsOK
  <2> QED
    BY <1>2, <2>1, <2>2, <2>3, <2>4 DEF CountsOK, Left, Fits
<1>13. CancelOK'
  <2>1. \A b \in Callers : Active(b)' => Active(b) /\ cur'[b] = cur[b] /\ cur[b].post # p
    BY <1>1, <1>3, <1>5, <1>7
  <2>2. \A d \in Callers : Erasing(d)' => req[cur'[d].post].repeated
    BY <1>1, <1>3, <1>5, <1>7 DEF TimerInv, CancelOK
  <2>3. \A b, d \in Callers : Active(b)' /\ Erasing(d)' => cur'[b].post # cur'[d].post
    BY <1>1, <1>5, <1>7, <2>1 DEF TimerInv, CancelOK
  <2>4. \A b \in Agents : pc'[b] = "run" => pc[b] = "run" /\ cur'[b] = cur[b]
    BY <1>5, <1>6
  <2> QED
    BY <1>2, <2>1, <2>2, <2>3, <2>4 DEF TimerInv, CancelOK
<1> QED
  BY <1>8, <1>9, <1>10, <1>11, <1>12, <1>13 DEF TimerInv

\* The id is out of the set, unless the erase was lost.
LEMMA EndEraseKeeps ==
    ASSUME TimerInv, NEW c \in Callers, EndErase(c) PROVE TimerInv'
<1> DEFINE p == cur[c].post
<1>1. /\ Timer \notin Callers /\ Timer \in Agents /\ Callers \subseteq Agents
      /\ c \in Agents /\ TypeOK
  BY TimerAssumption DEF Agents, TimerInv
<1>2. /\ UNCHANGED <<running, loops, wpc, mtx, queue, raced, cur, opc, missed>>
      /\ posts' = posts /\ req' = req /\ ran' = ran /\ late' = late
      /\ touching' = touching \ {c}
      /\ cancelled' = cancelled \cup {p}
  BY DEF EndErase, shared
<1>12. \/ ids' = ids \ {p}
       \/ raced /\ ids' = ids
  BY Zenon DEF EndErase
<1>3. /\ pc' \in [Agents -> Labels]
      /\ pc[c] = "erasing" /\ pc'[c] = "idle"
      /\ \A b \in Agents : b # c => pc'[b] = pc[b]
  BY <1>1, GotoFacts DEF EndErase, Labels
<1>4. /\ Erasing(c) /\ ~Active(c)
      /\ \A b \in Agents : /\ Active(b)' <=> Active(b)
                           /\ Erasing(b)' => Erasing(b)
                           /\ b # c => (Erasing(b)' <=> Erasing(b))
                           /\ pc'[b] = "run" => pc[b] = "run"
  BY <1>3 DEF Active, Erasing
<1>5. p \in Posts /\ p <= posts /\ req[p].repeated
  BY <1>1, <1>4, TimerAssumption
  DEF TimerInv, NumbersOK, CancelOK, TypeOK, Entry, Posts
<1>6. TypeOK'
  BY <1>1, <1>2, <1>3, <1>5, <1>12 DEF TypeOK, Labels
<1>7. PlacesOK'
  BY <1>1, <1>3, <1>4 DEF TimerInv, PlacesOK
<1>8. NumbersOK'
  BY <1>2, <1>4 DEF TimerInv, NumbersOK
<1>9. OneEntry'
  BY <1>2, <1>4 DEF TimerInv, OneEntry
<1>10. CountsOK'
  <2>1. \A q, n : Left(q, n)' <=> Left(q, n)
    BY <1>2 DEF Left, Fits
  <2>2. RunsAtMost'
    BY <1>2 DEF TimerInv, CountsOK, RunsAtMost, Fits, Asked
  <2> QED
    BY <1>2, <1>4, <2>1, <2>2 DEF TimerInv, CountsOK, Repeated
<1>11. CancelOK'
  <2>1. \A d \in Callers : Active(d) => cur[d].post \notin cancelled'
    BY <1>2, <1>4 DEF TimerInv, CancelOK
  <2>2. ~raced => \A q \in cancelled' : q \notin ids'
    BY <1>2, <1>12 DEF TimerInv, CancelOK
  <2>3. \A q \in cancelled' : q <= posts /\ req[q].repeated
    BY <1>2, <1>5 DEF TimerInv, CancelOK
  <2> QED
    BY <1>1, <1>2, <1>4, <2>1, <2>2, <2>3 DEF TimerInv, CancelOK
<1> QED
  BY <1>6, <1>7, <1>8, <1>9, <1>10, <1>11 DEF TimerInv

LEMMA TimerStep == TimerInv /\ [Next]_vars => TimerInv'
<1> SUFFICES ASSUME TimerInv, [Next]_vars PROVE TimerInv'
  OBVIOUS
<1>1. ASSUME NEW c \in Callers, Post(c) PROVE TimerInv'
  BY <1>1, PostKeeps
<1>2. ASSUME NEW c \in Callers, Cancel(c) PROVE TimerInv'
  BY <1>2, CancelKeeps
<1>3. ASSUME NEW c \in Callers, CallerStep(c) PROVE TimerInv'
  BY <1>3, CallerKeeps, EndInsertKeeps, EndEraseKeeps DEF CallerStep
<1>4. ASSUME NEW a \in Agents, PostRepeated(a) PROVE TimerInv'
  BY <1>4, FindKeeps, RunTaskKeeps, PushKeeps DEF PostRepeated
<1>5. CASE \/ Run \/ SpuriousWakeup \/ Worker \/ PoolWakeup
          \/ Stop \/ OwnerStep
  BY <1>5, LoopKeeps, TakeKeeps DEF Run, Worker
<1>6. CASE Tick
  BY <1>6, TickKeeps
<1>7. CASE UNCHANGED vars
  BY <1>7
  DEF vars, shared, set, history, TimerInv, TypeOK, PlacesOK, NumbersOK, OneEntry,
      CountsOK, CancelOK, Active, Erasing, Left, Fits, Asked, Repeated, RunsAtMost
<1> QED
  BY <1>1, <1>2, <1>3, <1>4, <1>5, <1>6, <1>7 DEF Next

LEMMA TimerAlways == Spec => []TimerInv
  BY TimerInit, TimerStep, PTL DEF Spec

-----------------------------------------------------------------------------
(* The loop of the timer thread. *)

LEMMA LoopInit == Init => LoopInv
<1> SUFFICES ASSUME Init PROVE LoopInv
  OBVIOUS
<1>1. /\ pc[Timer] = "idle" /\ Timer # Nobody /\ mtx = Nobody
      /\ \A c \in Callers : pc[c] = "idle"
      /\ queue = {} /\ loops = 0 /\ wpc = "none" /\ opc = "idle"
      /\ running = FALSE
  BY TimerAssumption DEF Init, Agents
<1> QED
  BY <1>1 DEF LoopInv, WorkerOK, NoEntryStranded, TimerNotLeftWaiting, Engaged,
              Begun

\* A caller's steps up to the push: there is no Stop, and whoever stores
\* running_ is the one who runs the loop.
LEMMA CallerLoopStep ==
    ASSUME TimerInv, LoopInv, NEW c \in Callers,
           Post(c) \/ Cancel(c) \/ CallerStep(c) \/ Find(c) \/ RunTask(c)
    PROVE  LoopInv'
<1>1. /\ c \in Agents /\ c # Timer /\ Timer \in Agents
      /\ Callers \subseteq Agents /\ TypeOK
  BY TimerAssumption DEF Agents, TimerInv
<1>2. /\ mtx' = mtx /\ queue' = queue /\ opc' = opc /\ missed' = missed
      /\ running' = running \/ (running' = TRUE /\ pc'[c] = "start_run")
      /\ \/ loops' = loops /\ wpc' = wpc /\ pc[c] # "start_run"
         \/ /\ loops' = loops + 1 /\ wpc # "sleep" /\ pc[c] = "start_run"
            /\ wpc' = IF wpc \in {"none", "wait"} THEN "lock" ELSE wpc
      /\ \A b \in Agents : b # c => pc'[b] = pc[b]
      /\ Begun(c)' => Begun(c) \/ running'
      /\ pc[c] # "idle" \/ opc = "idle"
  <2> USE <1>1
  <2>1. CASE Post(c)
    <3>1. /\ UNCHANGED <<mtx, queue, opc, missed, running, loops, wpc>>
          /\ opc = "idle" /\ Goto(c, "idle", "start")
      BY <2>1 DEF Post, shared
    <3>2. /\ pc[c] = "idle" /\ pc'[c] = "start"
          /\ \A b \in Agents : b # c => pc'[b] = pc[b]
      BY <3>1 DEF Goto, TypeOK
    <3>3. loops \in Nat
      BY DEF TypeOK
    <3> QED
      BY <3>1, <3>2, <3>3 DEF Begun
  <2>2. CASE Cancel(c)
    BY <2>2 DEF Cancel, Goto, shared, Begun, TypeOK
  <2>3. CASE StartLoad(c)
    BY <2>3 DEF StartLoad, Started, Goto, shared, Begun, TypeOK
  <2>4. CASE StartStore(c)
    BY <2>4 DEF StartStore, Goto, Begun, TypeOK
  <2>5. CASE StartRun(c)
    BY <2>5 DEF StartRun, Started, Goto, Begun, TypeOK
  <2>6. CASE BeginInsert(c) \/ EndInsert(c) \/ BeginErase(c) \/ EndErase(c)
    BY <2>6 DEF BeginInsert, EndInsert, BeginErase, EndErase, Goto, shared,
                Begun, TypeOK
  <2>7. CASE Find(c)
    BY <2>7 DEF Find, Rest, Goto, shared, Begun, TypeOK
  <2>8. CASE RunTask(c)
    BY <2>8 DEF RunTask, Rest, shared, Begun, TypeOK
  <2> QED
    BY <2>1, <2>2, <2>3, <2>4, <2>5, <2>6, <2>7, <2>8 DEF CallerStep
<1>3. /\ opc = "idle" /\ pc'[Timer] = pc[Timer] /\ loops \in Nat
  BY <1>1, <1>2 DEF LoopInv, TypeOK
<1>4. WorkerOK' /\ (Looked => Looked')
  <2>1. CASE loops' = loops /\ wpc' = wpc /\ pc[c] # "start_run"
    <3>1. WorkerOK'
      BY <1>2, <1>3, <2>1 DEF LoopInv, WorkerOK, IsShutdown
    <3> QED
      BY <1>1, <1>2, <1>3, <2>1, <3>1 DEF Looked
  <2>2. CASE /\ loops' = loops + 1 /\ wpc # "sleep" /\ pc[c] = "start_run"
             /\ wpc' = IF wpc \in {"none", "wait"} THEN "lock" ELSE wpc
    <3>1. /\ wpc \in {"none", "lock", "wait", "run"}
          /\ wpc = "run" <=> pc[Timer] # "idle"
      BY <1>1, <1>3, <2>2 DEF LoopInv, WorkerOK, IsShutdown, TypeOK
    <3> QED
      BY <1>3, <2>2, <3>1 DEF WorkerOK, Looked, IsShutdown
  <2> QED
    BY <1>2, <2>1, <2>2
<1>5. running' => Looked'
  BY <1>2, <1>4 DEF LoopInv, Looked
<1>6. Engaged' => running'
  <2>1. Engaged => running
    BY <1>3 DEF LoopInv
  <2>2. running => running'
    BY <1>2
  <2>3. \A d \in Callers : d # c => (Begun(d)' <=> Begun(d))
    BY <1>1, <1>2 DEF Begun
  <2>4. pc[c] = "start_run" => Begun(c)
    BY DEF Begun
  <2>5. queue' # {} \/ pc'[Timer] # "idle" => running'
    BY <1>2, <1>3, <2>1, <2>2 DEF Engaged
  <2>6. loops' > 0 => running'
    BY <1>2, <1>3, <2>1, <2>2, <2>4 DEF Engaged
  <2>7. ASSUME NEW d \in Callers, Begun(d)' PROVE running'
    BY <1>2, <2>1, <2>2, <2>3, <2>7 DEF Engaged
  <2> QED
    BY <2>5, <2>6, <2>7 DEF Engaged
<1>7. NoEntryStranded'
  <2>1. queue # {} => Engaged /\ pc[Timer] \notin {"sleep", "wait"}
    BY DEF LoopInv, NoEntryStranded, Engaged
  <2>2. queue' # {} => Looked' /\ pc'[Timer] \notin {"sleep", "wait"}
    BY <1>2, <1>3, <1>5, <1>6, <2>1 DEF Engaged
  <2> QED
    BY <2>2 DEF NoEntryStranded, Looked
<1>8. TimerNotLeftWaiting'
  BY <1>2, <1>3 DEF TimerNotLeftWaiting
<1> QED
  BY <1>2, <1>3, <1>4, <1>5, <1>6, <1>7, <1>8 DEF LoopInv

\* The push finds the timer thread in front of its predicate or in a wait,
\* and notifies it.
LEMMA PushLoopStep ==
    ASSUME TimerInv, LoopInv, NEW a \in Agents, Push(a) PROVE LoopInv'
<1>1. /\ Timer \in Agents /\ Callers \subseteq Agents /\ Timer \notin Callers
      /\ TypeOK /\ Timer # Nobody
  BY TimerAssumption DEF Agents, TimerInv
<1>2. /\ UNCHANGED <<running, loops, wpc, mtx, opc, missed>> /\ mtx = Nobody
      /\ pc[a] = "push"
      /\ pc' = [b \in Agents |->
                   IF b = a THEN Rest(a)
                   ELSE IF pc[b] \in {"wait", "timed"} THEN "lock" ELSE pc[b]]
  BY DEF Push
<1>3. \A b \in Agents : pc'[b] =
          IF b = a THEN Rest(a)
          ELSE IF pc[b] \in {"wait", "timed"} THEN "lock" ELSE pc[b]
  BY <1>2
<1>4. pc[Timer] \notin {"sleep", "check"}
  BY <1>1, <1>2 DEF LoopInv
<1>5. /\ pc'[Timer] \notin {"sleep", "wait", "check"}
      /\ pc[Timer] # "idle" <=> pc'[Timer] # "idle"
  BY <1>1, <1>2, <1>3, <1>4 DEF Rest
<1>6. \A c \in Callers : /\ pc[c] = "start_run" => pc'[c] = "start_run"
                         /\ Begun(c)' => Begun(c)
                         /\ pc[c] = "idle" => pc'[c] = "idle"
  BY <1>1, <1>2, <1>3 DEF Begun, Rest, TimerInv, PlacesOK, Active, Erasing
<1>7. Looked => Looked'
  BY <1>2, <1>5, <1>6 DEF Looked
<1>8. running \/ opc # "idle"
  <2>1. CASE a = Timer
    BY <1>2, <2>1 DEF LoopInv, Engaged
  <2>2. CASE a \in Callers
    BY <1>2, <2>2 DEF LoopInv, Engaged, Begun
  <2> QED
    BY <2>1, <2>2 DEF Agents
<1>9. NoEntryStranded'
  BY <1>2, <1>5, <1>7, <1>8 DEF LoopInv, NoEntryStranded, Looked
<1>10. TimerNotLeftWaiting'
  BY <1>2, <1>5 DEF LoopInv, TimerNotLeftWaiting
<1>11. WorkerOK'
  BY <1>2, <1>5 DEF LoopInv, WorkerOK, IsShutdown
<1> QED
  BY <1>1, <1>2, <1>5, <1>6, <1>7, <1>8, <1>9, <1>10, <1>11 DEF LoopInv

\* A step of the timer thread or of Stop after which nothing waits that did
\* not wait before, and the loop has ended only if running_ is gone.
LEMMA QuietLoopStep ==
    ASSUME TimerInv, LoopInv,
           \A c \in Callers : pc'[c] = pc[c],
           queue' \subseteq queue,
           opc' = opc \/ opc' # "idle",
           opc' # "idle" => ~running' /\ \A c \in Callers : pc[c] = "idle",
           running' = running \/ (~running' /\ opc' # "idle"),
           mtx' = Timer <=> pc'[Timer] \in {"sleep", "check"},
           running' => Looked',
           loops' > 0 \/ pc'[Timer] # "idle" => loops > 0 \/ pc[Timer] # "idle",
           queue' # {} => pc'[Timer] \notin {"sleep", "wait"},
           TimerNotLeftWaiting', WorkerOK'
    PROVE  LoopInv'
<1>1. \A c \in Callers : Begun(c)' <=> Begun(c)
  BY DEF Begun
<1>2. Engaged' => running' \/ opc' # "idle"
  BY <1>1 DEF LoopInv, Engaged
<1>3. queue' # {} => opc' # "idle" \/ Looked'
  BY <1>2 DEF Engaged
<1>4. NoEntryStranded'
  BY <1>3 DEF NoEntryStranded, Looked
<1> QED
  BY <1>2, <1>4 DEF LoopInv

\* The steps of the timer thread between two rounds.
LEMMA RunLoopStep ==
    ASSUME TimerInv, LoopInv,
           \/ BeginRun \/ TestQueue \/ Sleep \/ TakeTop \/ Timeout
           \/ SpuriousWakeup \/ Find(Timer) \/ RunTask(Timer)
    PROVE  LoopInv'
<1>1. /\ Timer \in Agents /\ Callers \subseteq Agents /\ Timer \notin Callers
      /\ TypeOK /\ Timer # Nobody /\ loops \in Nat
  BY TimerAssumption DEF Agents, TimerInv, TypeOK
<1>2. UNCHANGED <<running, opc, missed>>
  BY DEF BeginRun, TestQueue, Sleep, TakeTop, Timeout, SpuriousWakeup, Find,
         RunTask, shared
<1>3. /\ queue' \subseteq queue
      /\ loops' = loops \/ (wpc = "lock" /\ pc'[Timer] # "idle")
      /\ \/ wpc' = wpc /\ (pc'[Timer] # "idle" <=> pc[Timer] # "idle")
         \/ wpc' = "run" /\ pc'[Timer] # "idle"
         \/ wpc' = "lock" /\ pc'[Timer] = "idle"
      /\ loops' > 0 \/ pc'[Timer] # "idle" => loops > 0 \/ pc[Timer] # "idle"
      /\ mtx' = Timer <=> pc'[Timer] \in {"sleep", "check"}
      /\ pc[Timer] # "idle" /\ pc'[Timer] = "idle" => ~running
      /\ pc'[Timer] = "sleep" => running /\ queue' = {}
      /\ pc'[Timer] = "wait" => pc[Timer] = "sleep" /\ queue' = queue
      /\ \A c \in Callers : pc'[c] = pc[c]
  <2> USE <1>1
  <2>1. CASE BeginRun
    <3>1. loops - 1 \in Nat /\ loops' = loops - 1
      BY <2>1 DEF BeginRun
    <3>2. mtx # Timer
      BY <2>1 DEF BeginRun, Goto, LoopInv
    <3> QED
      BY <2>1, <3>1, <3>2 DEF BeginRun, Goto, TypeOK
  <2>2. CASE TestQueue
    BY <2>2 DEF TestQueue, Goto, TypeOK
  <2>3. CASE Sleep
    BY <2>3 DEF Sleep, Goto, TypeOK
  <2>4. CASE TakeTop
    BY <2>4 DEF TakeTop, Goto, TypeOK
  <2>5. CASE Timeout
    BY <2>5 DEF Timeout, Goto, TypeOK, shared, LoopInv
  <2>6. CASE SpuriousWakeup
    BY <2>6 DEF SpuriousWakeup, Goto, TypeOK, shared, LoopInv
  <2>7. CASE Find(Timer)
    BY <2>7 DEF Find, Rest, Goto, TypeOK, shared, LoopInv
  <2>8. CASE RunTask(Timer)
    BY <2>8 DEF RunTask, Rest, TypeOK, shared, LoopInv
  <2> QED
    BY <2>1, <2>2, <2>3, <2>4, <2>5, <2>6, <2>7, <2>8
<1>4. running => Looked'
  BY <1>3 DEF LoopInv, Looked
<1>5. queue' # {} => pc'[Timer] \notin {"sleep", "wait"}
  BY <1>3 DEF LoopInv, NoEntryStranded
<1>6. TimerNotLeftWaiting' /\ WorkerOK'
  BY <1>2, <1>3 DEF LoopInv, WorkerOK, TimerNotLeftWaiting, IsShutdown
<1>7. opc' # "idle" => ~running' /\ \A c \in Callers : pc[c] = "idle"
  BY <1>2 DEF LoopInv
<1> QED
  BY <1>2, <1>3, <1>4, <1>5, <1>6, <1>7, QuietLoopStep

\* The worker in the loop of its pool: it waits only without a Run_, and ends
\* only after Stop.
LEMMA PoolLoopStep ==
    ASSUME TimerInv, LoopInv, TestTasks \/ PoolSleep \/ PoolWakeup
    PROVE  LoopInv'
<1>1. UNCHANGED <<running, loops, mtx, queue, pc, opc, missed>>
  BY DEF TestTasks, PoolSleep, PoolWakeup
<1>2. /\ \/ wpc = "lock" /\ wpc' = "exit" /\ IsShutdown
         \/ wpc = "lock" /\ wpc' = "sleep" /\ loops = 0 /\ ~IsShutdown
         \/ wpc = "sleep" /\ wpc' = "wait"
         \/ wpc = "wait" /\ wpc' = "lock"
  BY DEF TestTasks, PoolSleep, PoolWakeup
<1>3. WorkerOK'
  BY <1>1, <1>2 DEF LoopInv, WorkerOK, IsShutdown
<1>4. TimerNotLeftWaiting'
  BY <1>1, <1>2 DEF LoopInv, TimerNotLeftWaiting, IsShutdown
<1>5. running' => Looked'
  BY <1>1, <1>2 DEF LoopInv, WorkerOK, Looked, IsShutdown
<1> QED
  BY <1>1, <1>3, <1>4, <1>5, QuietLoopStep DEF LoopInv, NoEntryStranded

\* Stop: no call is in progress, and a timer thread that is about to wait is
\* why missed holds.
LEMMA StopLoopStep ==
    ASSUME TimerInv, LoopInv, Stop \/ OwnerStep PROVE LoopInv'
<1>1. /\ Timer \in Agents /\ Callers \subseteq Agents /\ Timer \notin Callers
      /\ TypeOK
  BY TimerAssumption DEF Agents, TimerInv
<1>2. UNCHANGED <<mtx, queue>>
  BY DEF Stop, OwnerStep, NotifyAll, PoolStop, PoolNotifyAll, Join, shared
<1>3. CASE Stop
  <2>1. /\ UNCHANGED <<loops, wpc, pc>> /\ opc = "idle" /\ ~running' /\ opc' = "notify"
        /\ \A c \in Callers : pc[c] = "idle"
    BY <1>3 DEF Stop
  <2>2. TimerNotLeftWaiting'
    BY <2>1 DEF TimerNotLeftWaiting
  <2>3. WorkerOK'
    BY <2>1 DEF LoopInv, WorkerOK, IsShutdown
  <2> QED
    BY <1>1, <1>2, <2>1, <2>2, <2>3, QuietLoopStep DEF LoopInv, NoEntryStranded
<1>4. CASE NotifyAll
  <2>1. /\ UNCHANGED <<loops, wpc, running>> /\ opc = "notify" /\ opc' = "shutdown"
        /\ pc' = [pc EXCEPT ![Timer] =
                      IF pc[Timer] \in {"wait", "timed"} THEN "lock" ELSE pc[Timer]]
    BY <1>1, <1>4 DEF NotifyAll, shared, TypeOK
  <2>2. pc[Timer] = "sleep" => missed'
    BY <1>4, Zenon DEF NotifyAll
  <2>3. /\ pc'[Timer] = IF pc[Timer] \in {"wait", "timed"} THEN "lock"
                                                          ELSE pc[Timer]
        /\ \A c \in Callers : pc'[c] = pc[c]
    BY <1>1, <2>1 DEF TypeOK
  <2>4. TimerNotLeftWaiting'
    BY <2>1, <2>2, <2>3 DEF TimerNotLeftWaiting
  <2>5. ~running' /\ \A c \in Callers : pc[c] = "idle"
    BY <2>1 DEF LoopInv
  <2>6. WorkerOK'
    BY <2>1, <2>3 DEF LoopInv, WorkerOK, IsShutdown
  <2> QED
    BY <1>1, <1>2, <2>1, <2>3, <2>4, <2>5, <2>6, QuietLoopStep
    DEF LoopInv, NoEntryStranded
<1>5. CASE PoolStop
  <2>1. /\ UNCHANGED <<running, loops, wpc, pc, missed>> /\ opc = "shutdown"
        /\ \/ opc' = "join" /\ wpc = "none"
           \/ opc' = "pool_notify"
    BY <1>5 DEF PoolStop, shared
  <2>2. TimerNotLeftWaiting' /\ WorkerOK'
    BY <2>1 DEF LoopInv, TimerNotLeftWaiting, WorkerOK, IsShutdown
  <2>3. ~running' /\ \A c \in Callers : pc[c] = "idle"
    BY <2>1 DEF LoopInv
  <2> QED
    BY <1>1, <1>2, <2>1, <2>2, <2>3, QuietLoopStep DEF LoopInv, NoEntryStranded
<1>6. CASE PoolNotifyAll
  <2>1. /\ UNCHANGED <<running, loops, pc>>
        /\ opc = "pool_notify" /\ opc' = "join"
        /\ wpc' = IF wpc = "wait" THEN "lock" ELSE wpc
    BY <1>6 DEF PoolNotifyAll
  <2>2. missed \/ wpc = "sleep" => missed'
    BY <1>6, Zenon DEF PoolNotifyAll
  <2>3. TimerNotLeftWaiting' /\ WorkerOK'
    BY <2>1, <2>2 DEF LoopInv, TimerNotLeftWaiting, WorkerOK, IsShutdown
  <2>4. ~running' /\ \A c \in Callers : pc[c] = "idle"
    BY <2>1 DEF LoopInv
  <2> QED
    BY <1>1, <1>2, <2>1, <2>3, <2>4, QuietLoopStep DEF LoopInv, NoEntryStranded
<1>7. CASE Join
  <2>1. /\ UNCHANGED <<running, wpc, pc, missed>> /\ opc = "join"
        /\ opc' = "stopped" /\ loops' = 0 /\ wpc \in {"none", "exit"}
    BY <1>7 DEF Join
  <2>2. TimerNotLeftWaiting' /\ WorkerOK'
    BY <2>1 DEF LoopInv, TimerNotLeftWaiting, WorkerOK, IsShutdown
  <2>3. ~running' /\ \A c \in Callers : pc[c] = "idle"
    BY <2>1 DEF LoopInv
  <2> QED
    BY <1>1, <1>2, <2>1, <2>2, <2>3, QuietLoopStep DEF LoopInv, NoEntryStranded
<1> QED
  BY <1>3, <1>4, <1>5, <1>6, <1>7 DEF OwnerStep

LEMMA LoopStep == TimerInv /\ LoopInv /\ [Next]_vars => LoopInv'
<1> SUFFICES ASSUME TimerInv, LoopInv, [Next]_vars PROVE LoopInv'
  OBVIOUS
<1>1. ASSUME NEW c \in Callers, Post(c) \/ Cancel(c) \/ CallerStep(c)
      PROVE  LoopInv'
  BY <1>1, CallerLoopStep
<1>2. ASSUME NEW a \in Agents, PostRepeated(a) PROVE LoopInv'
  <2>1. CASE Push(a)
    BY <2>1, PushLoopStep
  <2>2. CASE a = Timer /\ (Find(a) \/ RunTask(a))
    BY <2>2, RunLoopStep
  <2>3. CASE a \in Callers /\ (Find(a) \/ RunTask(a))
    BY <2>3, CallerLoopStep
  <2> QED
    BY <1>2, <2>1, <2>2, <2>3 DEF PostRepeated, Agents
<1>3. CASE Tick \/ UNCHANGED vars
  <2>1. /\ UNCHANGED <<running, loops, wpc, mtx, pc, opc, missed>>
        /\ queue' # {} => queue # {}
    BY <1>3 DEF Tick, vars, shared
  <2> QED
    BY <2>1 DEF LoopInv, WorkerOK, IsShutdown, NoEntryStranded,
                TimerNotLeftWaiting, Looked, Engaged, Begun
<1> QED
  BY <1>1, <1>2, <1>3, RunLoopStep, PoolLoopStep, StopLoopStep
  DEF Next, Run, Worker

-----------------------------------------------------------------------------
(* Theorems. *)

(***************************************************************************)
(* Every variable of the timer keeps its type: repeat_num stays an int     *)
(* however a uint64_t was converted and however often it is decremented,   *)
(* as a number below zero is left alone (PostRepeatedTask_).               *)
(***************************************************************************)
THEOREM TimerTypes == Spec => []TypeOK
<1>1. TimerInv => TypeOK
  BY DEF TimerInv
<1> QED
  BY <1>1, TimerAlways, PTL

(***************************************************************************)
(* No task runs more often than the caller of PostRepeatedTask_ or         *)
(* PostDelayedTask_ asked for, although two callers may both start Run_:   *)
(* a task is either in the queue or with one thread, which counts the      *)
(* round before it pushes the task again.                                  *)
(***************************************************************************)
THEOREM NeverMoreOften == Spec => []RunsAtMost
<1>1. TimerInv => RunsAtMost
  BY DEF TimerInv, CountsOK
<1> QED
  BY <1>1, TimerAlways, PTL

(***************************************************************************)
(* After CancelRepeatedTask a task runs once more at most, unless the set  *)
(* of the ids was used by two threads at a time.                           *)
(***************************************************************************)
THEOREM CancelEndsTask == Spec => []CancelStops
<1>1. TimerInv => CancelStops
  BY DEF TimerInv, CancelOK, CancelStops
<1> QED
  BY <1>1, TimerAlways, PTL

(***************************************************************************)
(* The timer thread never sleeps beside a queued entry, and until Stop it  *)
(* is in its loop, or awake in its pool with a Run_ to run, or a caller is *)
(* about to post one, for any number of callers that start the loop at     *)
(* once; nor does it wait, in Run_ or in the loop of its pool, while the   *)
(* destructor joins it, unless one of the two notifications was missed.    *)
(***************************************************************************)
THEOREM EntriesAreLookedAfter == Spec => []TimerIsThere
<1>1. LoopInv => TimerIsThere
  BY DEF LoopInv, TimerIsThere
<1> QED
  BY TimerInit, TimerStep, LoopInit, LoopStep, <1>1, PTL DEF Spec
=============================================================================
