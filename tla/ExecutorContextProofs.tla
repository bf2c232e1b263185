----------------------- MODULE ExecutorContextProofs -----------------------
(* Proofs about ExecutorContext. *)
EXTENDS ExecutorContext, TLAPS

LEMMA ContextInit == Init => ContextInv
<1> SUFFICES ASSUME Init PROVE ContextInv
  OBVIOUS
<1>1. DOMAIN dict = {} /\ DOMAIN given = {}
  BY DEF Init
<1>2. dict \in [DOMAIN dict -> Nat] /\ given \in [DOMAIN given -> Nat]
  BY DEF Init
<1> QED
  BY <1>1, <1>2 DEF Init, ContextInv, TypeOK, RunnerOfItsOwn

\* Each step of AddTaskRunner keeps the invariant.
LEMMA ContextStep == ContextInv /\ [Next]_vars => ContextInv'
<1> SUFFICES ASSUME ContextInv, [Next]_vars PROVE ContextInv'
  OBVIOUS
<1> USE ContextAssumption
<1>1. CASE UNCHANGED vars
  BY <1>1 DEF ContextInv, TypeOK, RunnerOfItsOwn, GetTaskRunner, vars
<1>2. ASSUME NEW c \in Callers, NewTaskRunner(c) PROVE ContextInv'
  <2>1. TypeOK'
    BY <1>2 DEF ContextInv, TypeOK, NewTaskRunner
  <2>2. RunnerOfItsOwn'
    BY <1>2 DEF ContextInv, RunnerOfItsOwn, GetTaskRunner, NewTaskRunner
  <2> QED
    BY <1>2, <2>1, <2>2 DEF ContextInv, TypeOK, NewTaskRunner
<1>3. ASSUME NEW c \in Callers, Lock(c) PROVE ContextInv'
  <2>1. TypeOK'
    BY <1>3 DEF ContextInv, TypeOK, Lock
  <2>2. RunnerOfItsOwn'
    BY <1>3 DEF ContextInv, RunnerOfItsOwn, GetTaskRunner, Lock
  <2> QED
    BY <1>3, <2>1, <2>2 DEF ContextInv, TypeOK, Lock
<1>4. ASSUME NEW c \in Callers, GetNextRunnerTag(c) PROVE ContextInv'
  <2>1. TypeOK'
    BY <1>4 DEF ContextInv, TypeOK, GetNextRunnerTag
  <2>2. RunnerOfItsOwn'
    BY <1>4 DEF ContextInv, RunnerOfItsOwn, GetTaskRunner, GetNextRunnerTag
  <2> QED
    BY <1>4, <2>1, <2>2 DEF ContextInv, TypeOK, GetNextRunnerTag
<1>5. ASSUME NEW c \in Callers, AddTaskRunner(c) PROVE ContextInv'
  <2>1. /\ pc[c] = "emplace" /\ mtx = c
        /\ tag[c] \notin DOMAIN dict /\ call[c] \notin DOMAIN given
        /\ tag[c] \in Nat /\ call[c] \in Nat
        /\ call[c] > 0 /\ call[c] <= calls
    BY <1>5 DEF ContextInv, TypeOK, AddTaskRunner
  <2>2. dict' = [z \in DOMAIN dict \cup {tag[c]} |->
                    IF z = tag[c] THEN call[c] ELSE dict[z]]
    BY <1>5, <2>1 DEF AddTaskRunner, Put
  <2>3. given' = [z \in DOMAIN given \cup {call[c]} |->
                    IF z = call[c] THEN tag[c] ELSE given[z]]
    BY <1>5 DEF AddTaskRunner, Put
  <2>4. /\ mtx' = Nobody /\ pc' = [pc EXCEPT ![c] = "idle"]
        /\ UNCHANGED <<s_counter, tag, calls, call>>
    BY <1>5 DEF AddTaskRunner
  <2>5. TypeOK'
    BY <2>1, <2>2, <2>3, <2>4 DEF ContextInv, TypeOK
  <2>6. \A n \in DOMAIN given : given[n] # tag[c] /\ given[n] \in DOMAIN dict
    BY <2>1 DEF ContextInv, RunnerOfItsOwn, GetTaskRunner, NoRunner
  <2>7. RunnerOfItsOwn'
    BY <2>1, <2>2, <2>3, <2>6 DEF ContextInv, RunnerOfItsOwn, GetTaskRunner
  <2>8. \A d \in Callers : d # c => pc[d] \notin {"search", "emplace"}
    BY <2>1 DEF ContextInv
  <2>9. \A d \in Callers : pc'[d] # "idle" =>
            d # c /\ pc'[d] = pc[d] /\ call[d] # call[c]
    BY <2>1, <2>4 DEF ContextInv, TypeOK
  <2> QED
    BY <2>1, <2>2, <2>3, <2>4, <2>5, <2>7, <2>8, <2>9 DEF ContextInv, TypeOK
<1> QED
  BY <1>1, <1>2, <1>3, <1>4, <1>5 DEF Next, Add

\* The strengthened invariant holds throughout: types, the lock, and that no
\* tag of a call under way is in the dictionary.
THEOREM ContextInvariant == Spec => []ContextInv
BY ContextInit, ContextStep, PTL DEF Spec

\* The tag a call of NEW_TASK_RUNNER returned belongs to the runner of that
\* call for good, for any number of callers and any tags they ask for.
THEOREM RunnersApart == Spec => []RunnerOfItsOwn
<1>1. ContextInv => RunnerOfItsOwn
  BY DEF ContextInv
<1> QED
  BY ContextInvariant, <1>1, PTL
=============================================================================
