--------------------------- MODULE ExecutorTimer ---------------------------
(***************************************************************************)
(* logger::ctx::ExecutorTimer (executor_timer.cpp), reached through        *)
(* Executor::PostDelayedTask_, PostRepeatedTask_ and CancelRepeatedTask: a *)
(* priority queue of time points under mtx_, one timer thread that runs    *)
(* Run_, and the set of live repeated tasks, which callers and the timer   *)
(* thread use without a lock.  The timer thread is the worker of a pool of *)
(* its own, whose loop, queue and Stop are here as far as they decide      *)
(* whether Run_ is run and whether the destructor returns.                 *)
(*                                                                         *)
(* An entry keeps the time left until its time point instead of the time   *)
(* point itself, negative when it is overdue; time does not go on while    *)
(* an entry is MaxLate ticks overdue.  A call and its repeated task have   *)
(* the same number.                                                        *)
(***************************************************************************)
EXTENDS Integers, FiniteSets

CONSTANTS
    Callers,      \* threads that post and cancel tasks
    Timer,        \* the worker of thread_pool_
    Nobody,       \* mtx_ is not held
    Deltas,       \* delays, in ticks
    Counts,       \* repeat_num as it is passed: uint64_t
    IntHalf,      \* 2^31: an int is at least -IntHalf and below IntHalf
    Forever,      \* 2^64 - 1: what -1 becomes as a uint64_t
    MaxPosts,     \* bound: calls of PostDelayedTask and PostRepeatedTask
    MaxLate,      \* bound: how far the timer thread may be behind
    MaxRan        \* bound: how often a run of a task is counted

ASSUME TimerAssumption ==
    /\ Timer \notin Callers
    /\ Nobody \notin Callers \cup {Timer}
    /\ Deltas \subseteq Nat \ {0}
    /\ IntHalf \in Nat /\ IntHalf > 1
    /\ Forever \in Nat /\ (Forever + 1) % (2 * IntHalf) = 0
    /\ Counts \subseteq 0..Forever
    /\ MaxPosts \in Nat
    /\ MaxLate \in Nat
    /\ MaxRan \in Nat

Agents == Callers \cup {Timer}
Posts  == 1..MaxPosts

\* Mutant: the count is taken as an unsigned number.
ToInt_Unsigned(n) == n % (2 * IntHalf)

\* The conversion of repeat_num from uint64_t to int.
ToInt(n) ==
    LET r == n % (2 * IntHalf)
    IN  IF r >= IntHalf THEN r - 2 * IntHalf ELSE r

VARIABLES
    running,      \* running_
    loops,        \* Run_ tasks in the queue of thread_pool_
    wpc,          \* where the worker is in the loop of thread_pool_
    mtx,          \* holder of mtx_; only the timer holds it over several steps
    queue,        \* queue_
    ids,          \* repeated_id_state_set_
    touching,     \* agents in the middle of an insert or erase on it
    pc,           \* where each agent is
    cur,          \* the entry each agent works on; left once it is stamped
    opc,          \* where the destructor is in Stop, its own and the pool's
    posts,        \* calls so far
    req,          \* what each call asked for
    ran,          \* history: how often the task of each call has run
    late,         \* history: how often after it was cancelled
    cancelled,    \* history: calls whose CancelRepeatedTask returned
    raced,        \* history: repeated_id_state_set_ was used concurrently
    missed        \* history: a notify_all of a Stop came before the wait

shared  == <<running, loops, wpc, mtx, queue>>
set     == <<ids, touching, raced>>
history == <<posts, req, ran, late, cancelled>>
vars    == <<shared, set, pc, cur, opc, history, missed>>

Int32   == -IntHalf .. (IntHalf - 1)
Request == [repeated : BOOLEAN, delta : Nat, count : Nat]
Entry   == [post : Posts \cup {0}, left : Int, num : Int32]

NoEntry == [post |-> 0, left |-> 0, num |-> 0]

TypeOK ==
    /\ running \in BOOLEAN
    /\ loops \in Nat
    /\ wpc \in {"none", "lock", "sleep", "wait", "run", "exit"}
    /\ mtx \in {Timer, Nobody}
    /\ queue \subseteq Entry
    /\ ids \subseteq Posts
    /\ touching \subseteq Callers
    /\ pc \in [Agents -> {"idle", "start", "start_store", "start_run", "insert",
                          "inserting", "find", "run", "push", "erase",
                          "erasing", "lock", "sleep", "wait", "check", "timed"}]
    /\ cur \in [Agents -> Entry]
    /\ opc \in {"idle", "notify", "shutdown", "pool_notify", "join", "stopped"}
    /\ posts \in Posts \cup {0}
    /\ req \in [Posts -> Request]
    /\ ran \in [Posts -> 0..MaxRan]
    /\ late \in [Posts -> 0..MaxRan]
    /\ cancelled \subseteq Posts
    /\ raced \in BOOLEAN
    /\ missed \in BOOLEAN

Init ==
    /\ running = FALSE
    /\ loops = 0
    /\ wpc = "none"
    /\ mtx = Nobody
    /\ queue = {}
    /\ ids = {}
    /\ touching = {}
    /\ pc = [a \in Agents |-> "idle"]
    /\ cur = [a \in Agents |-> NoEntry]
    /\ opc = "idle"
    /\ posts = 0
    /\ req = [p \in Posts |-> [repeated |-> FALSE, delta |-> 0, count |-> 0]]
    /\ ran = [p \in Posts |-> 0]
    /\ late = [p \in Posts |-> 0]
    /\ cancelled = {}
    /\ raced = FALSE
    /\ missed = FALSE

Goto(a, from, to) ==
    /\ pc[a] = from
    /\ pc' = [pc EXCEPT ![a] = to]

\* A caller's call returns; the timer thread goes round its loop again.
Rest(a) == IF a = Timer THEN "lock" ELSE "idle"

Repeated(a) == req[cur[a].post].repeated

\* time_point = now() + delta
Stamped(a) == [cur EXCEPT ![a].left = req[cur[a].post].delta]

-----------------------------------------------------------------------------
(* Posting a task (lines 68-85), after Start (lines 31-39). *)

\* What may be asked for: a delayed task has no count, it is posted once.
Wishes ==
    [repeated : {TRUE}, delta : Deltas, count : Counts]
        \cup [repeated : {FALSE}, delta : Deltas, count : {1}]

\* PostDelayedTask_ and PostRepeatedTask_ of the Executor.
Post(c) ==
    /\ opc = "idle"
    /\ posts < MaxPosts
    /\ Goto(c, "idle", "start")
    /\ posts' = posts + 1
    /\ \E r \in Wishes :
          /\ req' = [req EXCEPT ![posts + 1] = r]
          /\ cur' = [cur EXCEPT ![c] = [NoEntry EXCEPT !.post = posts + 1,
                                                        !.num = ToInt(r.count)]]
    /\ UNCHANGED <<shared, set, opc, ran, late, cancelled, missed>>

\* A repeated task is inserted first, a delayed one goes to the queue.
Started(c, from) ==
    \/ Goto(c, from, "insert") /\ Repeated(c) /\ UNCHANGED cur
    \/ Goto(c, from, "push") /\ ~Repeated(c) /\ cur' = Stamped(c)

\* running_ is loaded and stored in two steps: two callers may both start
\* the loop.
StartLoad(c) ==
    /\ \/ ~running /\ Goto(c, "start", "start_store") /\ UNCHANGED cur
       \/ running /\ Started(c, "start")
    /\ UNCHANGED <<shared, set, opc, history, missed>>

StartStore(c) ==
    /\ Goto(c, "start_store", "start_run")
    /\ running' = TRUE
    /\ UNCHANGED <<loops, wpc, mtx, queue, set, cur, opc, history, missed>>

\* thread_pool_->Start(), which makes the worker, and RunTask(Run_), which
\* takes the mutex of the pool and notifies the worker.
StartRun(c) ==
    /\ wpc # "sleep"
    /\ Started(c, "start_run")
    /\ loops' = loops + 1
    /\ wpc' = IF wpc \in {"none", "wait"} THEN "lock" ELSE wpc
    /\ UNCHANGED <<running, mtx, queue, set, opc, history, missed>>

(***************************************************************************)
(* The unordered_set is changed and searched without a lock.  An operation *)
(* that overlaps another one is a data race, after which an insert or an   *)
(* erase may be lost and a search may give either answer.                  *)
(***************************************************************************)
Touch(a) == raced' = (raced \/ touching \ {a} # {})

BeginInsert(c) ==
    /\ Goto(c, "insert", "inserting")
    /\ touching' = touching \cup {c}
    /\ Touch(c)
    /\ UNCHANGED <<shared, ids, cur, opc, history, missed>>

EndInsert(c) ==
    /\ Goto(c, "inserting", "find")
    /\ touching' = touching \ {c}
    /\ \/ ids' = ids \cup {cur[c].post}
       \/ raced /\ UNCHANGED ids
    /\ UNCHANGED <<shared, raced, cur, opc, history, missed>>

-----------------------------------------------------------------------------
(* PostRepeatedTask_ (lines 87-103): the caller's first round, and every   *)
(* later one on the timer thread.                                          *)

\* Mutant: only the count is looked at.
Find_NoId(a) ==
    /\ Touch(a)
    /\ \/ cur[a].num # 0 /\ Goto(a, "find", "run")
       \/ cur[a].num = 0 /\ Goto(a, "find", Rest(a))
    /\ UNCHANGED <<shared, ids, touching, cur, opc, history, missed>>

\* A task that was cancelled or has no rounds left ends here.
Find(a) ==
    /\ Touch(a)
    /\ \E found \in {cur[a].post \in ids} \cup (IF raced' THEN BOOLEAN ELSE {}) :
          \/ found /\ cur[a].num # 0 /\ Goto(a, "find", "run")
          \/ ~(found /\ cur[a].num # 0) /\ Goto(a, "find", Rest(a))
    /\ UNCHANGED <<shared, ids, touching, cur, opc, history, missed>>

Count(f, p) == [f EXCEPT ![p] = IF @ < MaxRan THEN @ + 1 ELSE @]

\* Mutant: repeat_num is not decremented.
RunTask_NoDecrement(a) ==
    LET p == cur[a].post
    IN  /\ pc[a] = "run"
        /\ pc' = [pc EXCEPT ![a] = IF Repeated(a) THEN "push" ELSE Rest(a)]
        /\ ran' = Count(ran, p)
        /\ late' = IF p \in cancelled THEN Count(late, p) ELSE late
        /\ cur' = Stamped(a)
        /\ UNCHANGED <<shared, set, opc, posts, req, cancelled, missed>>

\* The task: Executor::PostTask to a runner.  A repeated one is counted and
\* gets its next time point, before mtx_ is taken.
RunTask(a) ==
    LET p == cur[a].post
    IN  /\ pc[a] = "run"
        /\ pc' = [pc EXCEPT ![a] = IF Repeated(a) THEN "push" ELSE Rest(a)]
        /\ ran' = Count(ran, p)
        /\ late' = IF p \in cancelled THEN Count(late, p) ELSE late
        /\ cur' = [Stamped(a) EXCEPT ![a].num =
                      IF ~Repeated(a) \/ @ < 0 THEN @ ELSE @ - 1]
        /\ UNCHANGED <<shared, set, opc, posts, req, cancelled, missed>>

\* Mutant: the timer thread is not notified.
Push_NoNotify(a) ==
    /\ mtx = Nobody
    /\ Goto(a, "push", Rest(a))
    /\ queue' = queue \cup {cur[a]}
    /\ cur' = [cur EXCEPT ![a] = NoEntry]
    /\ UNCHANGED <<running, loops, wpc, mtx, set, opc, history, missed>>

\* The push and the notify_all, under mtx_.
Push(a) ==
    /\ mtx = Nobody
    /\ pc[a] = "push"
    /\ pc' = [b \in Agents |->
                 IF b = a THEN Rest(a)
                 ELSE IF pc[b] \in {"wait", "timed"} THEN "lock" ELSE pc[b]]
    /\ queue' = queue \cup {cur[a]}
    /\ cur' = [cur EXCEPT ![a] = NoEntry]
    /\ UNCHANGED <<running, loops, wpc, mtx, set, opc, history, missed>>

-----------------------------------------------------------------------------
(* CancelRepeatedTask (lines 113-115), once the call has returned its id. *)

Cancel(c) ==
    /\ opc = "idle"
    /\ Goto(c, "idle", "erase")
    /\ \E p \in 1..posts :
          /\ req[p].repeated
          /\ p \notin cancelled
          /\ \A d \in Callers : pc[d] # "idle" => cur[d].post # p
          /\ cur' = [cur EXCEPT ![c] = [NoEntry EXCEPT !.post = p]]
    /\ UNCHANGED <<shared, set, opc, history, missed>>

BeginErase(c) ==
    /\ Goto(c, "erase", "erasing")
    /\ touching' = touching \cup {c}
    /\ Touch(c)
    /\ UNCHANGED <<shared, ids, cur, opc, history, missed>>

EndErase(c) ==
    /\ Goto(c, "erasing", "idle")
    /\ touching' = touching \ {c}
    /\ \/ ids' = ids \ {cur[c].post}
       \/ raced /\ UNCHANGED ids
    /\ cancelled' = cancelled \cup {cur[c].post}
    /\ UNCHANGED <<shared, raced, cur, opc, posts, req, ran, late, missed>>

-----------------------------------------------------------------------------
(* The worker of thread_pool_ (threadpool.cpp, lines 67-88).               *)

\* is_shutdown_ of the pool.
IsShutdown == opc \in {"pool_notify", "join", "stopped"}

\* The worker takes the mutex of the pool, finds a Run_ and runs it.
BeginRun ==
    /\ wpc = "lock"
    /\ ~IsShutdown
    /\ loops > 0
    /\ loops' = loops - 1
    /\ wpc' = "run"
    /\ Goto(Timer, "idle", "lock")
    /\ UNCHANGED <<running, mtx, queue, set, cur, opc, history, missed>>

\* Mutant: the predicate of the worker does not look at is_shutdown_.
TestTasks_NoShutdown ==
    /\ wpc = "lock"
    /\ \/ loops > 0 /\ IsShutdown /\ wpc' = "exit"
       \/ loops = 0 /\ wpc' = "sleep"
    /\ UNCHANGED <<running, loops, mtx, queue, set, pc, cur, opc, history, missed>>

\* It ends, or finds nothing and is about to wait, with the mutex held.
TestTasks ==
    /\ wpc = "lock"
    /\ \/ IsShutdown /\ wpc' = "exit"
       \/ ~IsShutdown /\ loops = 0 /\ wpc' = "sleep"
    /\ UNCHANGED <<running, loops, mtx, queue, set, pc, cur, opc, history, missed>>

\* It waits; or wakes for no reason.
PoolSleep ==
    /\ wpc = "sleep"
    /\ wpc' = "wait"
    /\ UNCHANGED <<running, loops, mtx, queue, set, pc, cur, opc, history, missed>>

PoolWakeup ==
    /\ wpc = "wait"
    /\ wpc' = "lock"
    /\ UNCHANGED <<running, loops, mtx, queue, set, pc, cur, opc, history, missed>>

-----------------------------------------------------------------------------
(* Run_ on the timer thread (lines 46-66). *)

\* Mutant: the predicate of the wait does not look at running_.
TestQueue_NoRunning ==
    /\ mtx = Nobody
    /\ mtx' = Timer
    /\ Goto(Timer, "lock", IF queue # {} THEN "check" ELSE "sleep")
    /\ UNCHANGED <<running, loops, wpc, queue, set, cur, opc, history, missed>>

\* Take mtx_ and evaluate the predicate of the wait.
TestQueue ==
    /\ mtx = Nobody
    /\ mtx' = Timer
    /\ Goto(Timer, "lock", IF ~running \/ queue # {} THEN "check" ELSE "sleep")
    /\ UNCHANGED <<running, loops, wpc, queue, set, cur, opc, history, missed>>

Sleep ==
    /\ Goto(Timer, "sleep", "wait")
    /\ mtx' = Nobody
    /\ UNCHANGED <<running, loops, wpc, queue, set, cur, opc, history, missed>>

SpuriousWakeup ==
    /\ Goto(Timer, "wait", "lock")
    /\ UNCHANGED <<shared, set, cur, opc, history, missed>>

Earliest(s) == s \in queue /\ \A r \in queue : s.left <= r.left

\* End, or take the earliest entry when it is due, or wait for it (50 ms at
\* most); each of these releases mtx_.
TakeTop ==
    /\ mtx' = Nobody
    /\ \/ /\ ~running
          /\ Goto(Timer, "check", "idle")
          /\ wpc' = "lock"
          /\ UNCHANGED <<queue, cur>>
       \/ /\ running
          /\ \E s \in queue :
                /\ Earliest(s)
                /\ s.left <= 0
                /\ queue' = queue \ {s}
                /\ cur' = [cur EXCEPT ![Timer] = [s EXCEPT !.left = 0]]
                /\ Goto(Timer, "check",
                        IF req[s.post].repeated THEN "find" ELSE "run")
          /\ UNCHANGED wpc
       \/ /\ running
          /\ \A s \in queue : s.left > 0
          /\ Goto(Timer, "check", "timed")
          /\ UNCHANGED <<wpc, queue, cur>>
    /\ UNCHANGED <<running, loops, set, opc, history, missed>>

\* wait_for times out, or wakes for no reason.
Timeout ==
    /\ Goto(Timer, "timed", "lock")
    /\ UNCHANGED <<shared, set, cur, opc, history, missed>>

-----------------------------------------------------------------------------
(* Stop (lines 40-44), from the destructor: no call is in progress. *)

Stop ==
    /\ opc = "idle"
    /\ \A c \in Callers : pc[c] = "idle"
    /\ opc' = "notify"
    /\ running' = FALSE
    /\ UNCHANGED <<loops, wpc, mtx, queue, set, pc, cur, history, missed>>

\* notify_all, without mtx_: a timer thread that has evaluated its predicate
\* and does not wait yet is not woken.
NotifyAll ==
    /\ opc = "notify"
    /\ opc' = "shutdown"
    /\ pc' = [pc EXCEPT ![Timer] = IF @ \in {"wait", "timed"} THEN "lock" ELSE @]
    /\ missed' = (missed \/ pc[Timer] = "sleep")
    /\ UNCHANGED <<shared, set, cur, history>>

\* thread_pool_.reset(), which is the Stop of the pool.  A pool that was never
\* started has no worker to stop; otherwise is_shutdown_ is stored.
PoolStop ==
    /\ opc = "shutdown"
    /\ opc' = IF wpc = "none" THEN "join" ELSE "pool_notify"
    /\ UNCHANGED <<shared, set, pc, cur, history, missed>>

\* The notify_all of the pool, without its mutex either.
PoolNotifyAll ==
    /\ opc = "pool_notify"
    /\ opc' = "join"
    /\ wpc' = IF wpc = "wait" THEN "lock" ELSE wpc
    /\ missed' = (missed \/ wpc = "sleep")
    /\ UNCHANGED <<running, loops, mtx, queue, set, pc, cur, history>>

\* The worker is joined, and the tasks it left go with the pool.
Join ==
    /\ opc = "join"
    /\ wpc \in {"none", "exit"}
    /\ opc' = "stopped"
    /\ loops' = 0
    /\ UNCHANGED <<running, wpc, mtx, queue, set, pc, cur, history, missed>>

-----------------------------------------------------------------------------
\* Time passes, for the entries and for the time points not yet pushed.
Later(s) == [s EXCEPT !.left = @ - 1]

Stamps == {a \in Agents : pc[a] = "push"}

Tick ==
    /\ queue # {} \/ Stamps # {}
    /\ \A s \in queue \cup {cur[a] : a \in Stamps} : s.left > -MaxLate
    /\ queue' = {Later(s) : s \in queue}
    /\ cur' = [a \in Agents |-> IF a \in Stamps THEN Later(cur[a]) ELSE cur[a]]
    /\ UNCHANGED <<running, loops, wpc, mtx, set, pc, opc, history, missed>>

CallerStep(c) ==
    \/ StartLoad(c) \/ StartStore(c) \/ StartRun(c)
    \/ BeginInsert(c) \/ EndInsert(c) \/ BeginErase(c) \/ EndErase(c)

PostRepeated(a) == Find(a) \/ RunTask(a) \/ Push(a)

Run == TestQueue \/ Sleep \/ TakeTop \/ Timeout

Worker == BeginRun \/ TestTasks \/ PoolSleep

OwnerStep == NotifyAll \/ PoolStop \/ PoolNotifyAll \/ Join

Next ==
    \/ \E c \in Callers : Post(c) \/ Cancel(c) \/ CallerStep(c)
    \/ \E a \in Agents : PostRepeated(a)
    \/ Run \/ SpuriousWakeup
    \/ Worker \/ PoolWakeup
    \/ Stop \/ OwnerStep
    \/ Tick

Spec == Init /\ [][Next]_vars

(***************************************************************************)
(* Calls that have begun go on, the timer thread runs, wait_for times out  *)
(* and time passes.  Strong fairness of Push and StartRun: a caller that    *)
(* asks for mtx_, or for the mutex of the pool, gets it although the timer *)
(* thread takes it again and again.                                        *)
(***************************************************************************)
Fairness ==
    /\ \A c \in Callers : WF_vars(CallerStep(c)) /\ SF_vars(StartRun(c))
    /\ \A a \in Agents : WF_vars(PostRepeated(a)) /\ SF_vars(Push(a))
    /\ WF_vars(Run) /\ WF_vars(Worker)
    /\ WF_vars(OwnerStep)
    /\ WF_vars(Tick)

FairSpec == Spec /\ Fairness

-----------------------------------------------------------------------------
(* Properties. *)

\* What the caller meant: a count that an int can hold, or for ever.
Fits(p)  == req[p].count < IntHalf
Asked(p) == IF Fits(p) THEN req[p].count ELSE MaxRan

(***************************************************************************)
(* A task never runs more often than it was asked to, by however many      *)
(* threads it was posted and although two callers may both start Run_; a   *)
(* delayed task runs once at most.  Only for counts that fit an int: a     *)
(* larger one may become negative, which repeats for ever.                 *)
(***************************************************************************)
RunsAtMost == \A p \in 1..posts : Fits(p) => ran[p] <= Asked(p)

(***************************************************************************)
(* Once CancelRepeatedTask has returned, the task runs at most once more:  *)
(* the round that was past its check.  Unless the set was used             *)
(* concurrently, which nothing prevents.                                   *)
(***************************************************************************)
CancelStops == ~raced => \A p \in Posts : late[p] <= 1

(***************************************************************************)
(* The timer thread is there when it has something to do.  It does not     *)
(* sleep beside an entry, whenever in its loop the entry was pushed, and   *)
(* until Stop it is in the loop, or awake in its pool with a Run_ to run,  *)
(* or a caller is about to post one, although running_ is loaded and       *)
(* stored by any number of callers before one of them runs the loop.  And  *)
(* it waits neither for entries once Stop has notified, nor for tasks      *)
(* while the destructor joins it, unless one of the two notify_all, of     *)
(* Stop and of the Stop of thread_pool_, fell between predicate and wait.  *)
(***************************************************************************)
NoEntryStranded ==
    queue # {} =>
        /\ pc[Timer] \notin {"sleep", "wait"}
        /\ \/ pc[Timer] # "idle" \/ opc # "idle"
           \/ loops > 0 /\ wpc = "lock"
           \/ \E c \in Callers : pc[c] = "start_run"

TimerNotLeftWaiting ==
    ~missed =>
        /\ opc \notin {"idle", "notify"} => pc[Timer] \notin {"sleep", "wait"}
        /\ opc = "join" => wpc \notin {"sleep", "wait"}

TimerIsThere == NoEntryStranded /\ TimerNotLeftWaiting

(***************************************************************************)
(* A task runs as often as it was asked to, also when it is posted while   *)
(* the timer thread waits for a later entry or for the first one, unless   *)
(* it is cancelled, the timer is stopped or the set was used concurrently. *)
(***************************************************************************)
RunsAll ==
    \A p \in Posts :
        (p <= posts /\ (Fits(p) \/ req[p].count = Forever))
            ~> (ran[p] = Asked(p) \/ p \in cancelled \/ raced \/ opc # "idle")

(***************************************************************************)
(* Stop returns, unless a notify_all was missed: its own fell between the  *)
(* predicate and the wait of Run_ while the queue was empty, or that of    *)
(* the Stop of thread_pool_ between the predicate and the wait of the      *)
(* worker, which has come back from Run_ or has not begun one.             *)
(***************************************************************************)
TimerStops == (opc = "notify") ~> (opc = "stopped" \/ missed)
=============================================================================
