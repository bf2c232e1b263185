-------------------------- MODULE ExecutorContext --------------------------
(***************************************************************************)
(* logger::ctx::ExecutorContext (executor_context.cpp): the dictionary of  *)
(* task runners by tag, reached through Context, ExecutorManager and       *)
(* Executor.  NEW_TASK_RUNNER asks for a tag and gets another one when     *)
(* that is taken; POST_TASK looks the runner up.  A runner is a ThreadPool *)
(* of one thread, named here by the number of the call that made it.       *)
(***************************************************************************)
EXTENDS Integers, FiniteSets

CONSTANTS
    Callers,     \* threads
    Nobody,      \* mtx_ is not held
    Tags,        \* tags that callers choose
    MaxRunners   \* bound: calls of NEW_TASK_RUNNER

ASSUME ContextAssumption ==
    /\ Nobody \notin Callers
    /\ Tags \subseteq Nat
    /\ MaxRunners \in Nat

VARIABLES
    mtx,         \* holder of mtx_
    dict,        \* task_runner_dict_: tag -> runner
    s_counter,   \* the static counter of GetNextRunnerTag_
    pc,          \* where each caller is
    tag,         \* latest_tag
    calls,       \* calls of NEW_TASK_RUNNER so far
    call,        \* the call each caller is in
    given        \* history: the tag each finished call returned

vars == <<mtx, dict, s_counter, pc, tag, calls, call, given>>

TypeOK ==
    /\ mtx \in Callers \cup {Nobody}
    /\ DOMAIN dict \subseteq Nat
    /\ dict \in [DOMAIN dict -> Nat]
    /\ s_counter \in Nat
    /\ pc \in [Callers -> {"idle", "lock", "search", "emplace"}]
    /\ tag \in [Callers -> Nat]
    /\ calls \in Nat
    /\ call \in [Callers -> Nat]
    /\ DOMAIN given \subseteq Nat
    /\ given \in [DOMAIN given -> Nat]

Init ==
    /\ mtx = Nobody
    /\ dict = [t \in {} |-> 0]
    /\ s_counter = 0
    /\ pc = [c \in Callers |-> "idle"]
    /\ tag = [c \in Callers |-> 0]
    /\ calls = 0
    /\ call = [c \in Callers |-> 0]
    /\ given = [n \in {} |-> 0]

NoRunner == 0    \* nullptr: PostTask drops the task

\* What PostTask and PostTaskAndGetResult find for a tag.
GetTaskRunner(t) == IF t \in DOMAIN dict THEN dict[t] ELSE NoRunner

Put(f, x, y) == [z \in DOMAIN f \cup {x} |-> IF z = x THEN y ELSE f[z]]

-----------------------------------------------------------------------------
\* NEW_TASK_RUNNER(t)
NewTaskRunner(c) ==
    /\ pc[c] = "idle"
    /\ calls < MaxRunners
    /\ calls' = calls + 1
    /\ call' = [call EXCEPT ![c] = calls + 1]
    /\ \E t \in Tags : tag' = [tag EXCEPT ![c] = t]
    /\ pc' = [pc EXCEPT ![c] = "lock"]
    /\ UNCHANGED <<mtx, dict, s_counter, given>>

\* Mutant: mtx_ is not waited for.
Lock_Shared(c) ==
    /\ pc[c] = "lock"
    /\ mtx' = c
    /\ pc' = [pc EXCEPT ![c] = "search"]
    /\ UNCHANGED <<dict, s_counter, tag, calls, call, given>>

Lock(c) ==
    /\ pc[c] = "lock"
    /\ mtx = Nobody
    /\ mtx' = c
    /\ pc' = [pc EXCEPT ![c] = "search"]
    /\ UNCHANGED <<dict, s_counter, tag, calls, call, given>>

\* Mutant: a tag from the counter is not looked up again.
GetNextRunnerTag_Once(c) ==
    /\ pc[c] = "search"
    /\ \/ /\ tag[c] \in DOMAIN dict
          /\ s_counter' = s_counter + 1
          /\ tag' = [tag EXCEPT ![c] = s_counter + 1]
       \/ /\ tag[c] \notin DOMAIN dict
          /\ UNCHANGED <<s_counter, tag>>
    /\ pc' = [pc EXCEPT ![c] = "emplace"]
    /\ UNCHANGED <<mtx, dict, calls, call, given>>

\* Mutant: the counter is read but not incremented.
GetNextRunnerTag_Same(c) ==
    /\ pc[c] = "search"
    /\ \/ /\ tag[c] \in DOMAIN dict
          /\ tag' = [tag EXCEPT ![c] = s_counter + 1]
          /\ UNCHANGED pc
       \/ /\ tag[c] \notin DOMAIN dict
          /\ pc' = [pc EXCEPT ![c] = "emplace"]
          /\ UNCHANGED tag
    /\ UNCHANGED <<mtx, dict, s_counter, calls, call, given>>

\* The loop: a tag that is taken is replaced by the next one of the counter.
GetNextRunnerTag(c) ==
    /\ pc[c] = "search"
    /\ \/ /\ tag[c] \in DOMAIN dict
          /\ s_counter' = s_counter + 1
          /\ tag' = [tag EXCEPT ![c] = s_counter + 1]
          /\ UNCHANGED pc
       \/ /\ tag[c] \notin DOMAIN dict
          /\ pc' = [pc EXCEPT ![c] = "emplace"]
          /\ UNCHANGED <<s_counter, tag>>
    /\ UNCHANGED <<mtx, dict, calls, call, given>>

\* The runner is made, started and put into the dictionary, unless the tag is
\* there: emplace does not replace an entry.
AddTaskRunner(c) ==
    /\ pc[c] = "emplace"
    /\ dict' = IF tag[c] \in DOMAIN dict THEN dict ELSE Put(dict, tag[c], call[c])
    /\ given' = Put(given, call[c], tag[c])
    /\ mtx' = Nobody
    /\ pc' = [pc EXCEPT ![c] = "idle"]
    /\ UNCHANGED <<s_counter, tag, calls, call>>

Add(c) == Lock(c) \/ GetNextRunnerTag(c) \/ AddTaskRunner(c)

Next == \E c \in Callers : NewTaskRunner(c) \/ Add(c)

Spec == Init /\ [][Next]_vars

\* A call that has begun goes on, and gets mtx_ some time.
FairSpec == Spec /\ \A c \in Callers : WF_vars(Add(c)) /\ SF_vars(Lock(c))

-----------------------------------------------------------------------------
(***************************************************************************)
(* The tag a call of NEW_TASK_RUNNER returned belongs to the runner of     *)
(* that call for good, whatever tags other callers ask for before or after *)
(* it.  POST_TASK and WAIT_TASK_IDLE of two sinks thus never meet in one   *)
(* queue.                                                                  *)
(***************************************************************************)
RunnerOfItsOwn ==
    \A n \in DOMAIN given : GetTaskRunner(given[n]) = n

\* Why: the tag found free stays free until it is used, because mtx_ is held,
\* and every call has a number of its own.
ContextInv ==
    /\ TypeOK
    /\ \A c \in Callers : pc[c] \in {"search", "emplace"} => mtx = c
    /\ \A c \in Callers : pc[c] = "emplace" => tag[c] \notin DOMAIN dict
    /\ \A c \in Callers : pc[c] # "idle" =>
           call[c] > 0 /\ call[c] <= calls /\ call[c] \notin DOMAIN given
    /\ \A c, d \in Callers :
           pc[c] # "idle" /\ pc[d] # "idle" /\ call[c] = call[d] => c = d
    /\ \A n \in DOMAIN given : n > 0 /\ n <= calls
    /\ RunnerOfItsOwn

(***************************************************************************)
(* NEW_TASK_RUNNER returns: the search ends although callers may have      *)
(* taken the tags the counter is about to give.                            *)
(***************************************************************************)
AddReturns == \A c \in Callers : (pc[c] = "lock") ~> (pc[c] = "idle")
=============================================================================
