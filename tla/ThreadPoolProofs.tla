-------------------------- MODULE ThreadPoolProofs --------------------------
(***************************************************************************)
(* ThreadPool for any number of workers, producers and tasks: headMutex_   *)
(* has one owner, a worker that pops finds its task, and the pool takes    *)
(* every task once and in order.                                           *)
(***************************************************************************)
EXTENDS ThreadPool, SequenceTheorems, TLAPS

-----------------------------------------------------------------------------
(* Types, and who holds headMutex_.                                        *)

\* The types at the start.
LEMMA TypeInit == Init => TypeOK
  <1> SUFFICES ASSUME Init PROVE TypeOK
    OBVIOUS
  <1>1. queue \in Seq(Task) /\ taken \in Seq(Task)
    BY EmptySeq DEF Init
  <1>2. 0 \in 0..MaxTasks
    BY PoolAssumption
  <1>3. QED
    BY <1>1, <1>2, PoolAssumption DEF Init, TypeOK, States

\* The head of the queue may be taken: it is a task, and the rest are tasks.
LEMMA TakeHead ==
    ASSUME queue \in Seq(Task), queue # <<>>
    PROVE  /\ Head(queue) \in Task /\ Head(queue) \in 0..MaxTasks
           /\ Tail(queue) \in Seq(Task)
  BY PoolAssumption DEF Task

\* The types, for a step of a worker.
LEMMA TypeWorker ==
    ASSUME TypeOK, PopFindsTask, NEW w \in Workers, WorkerStep(w)
    PROVE  TypeOK'
  <1> USE PoolAssumption DEF TypeOK, States, Goto
  <1>1. CASE TestRunning(w)
    BY <1>1 DEF TestRunning
  <1>2. CASE LockHead(w)
    BY <1>2 DEF LockHead
  <1>3. CASE Predicate(w)
    BY <1>3 DEF Predicate
  <1>4. CASE Block(w)
    BY <1>4 DEF Block
  <1>5. CASE Wake(w)
    BY <1>5 DEF Wake
  <1>6. CASE Pop(w)
    <2>1. queue # <<>>
      BY <1>6 DEF Pop, PopFindsTask
    <2>2. queue' \in Seq(Task) /\ taken' \in Seq(Task) /\ task' \in [Workers -> 0..MaxTasks]
      BY <1>6, <2>1, TakeHead DEF Pop
    <2>3. QED
      BY <1>6, <2>2 DEF Pop
  <1>7. CASE Run(w)
    BY <1>7 DEF Run
  <1>8. QED
    BY <1>1, <1>2, <1>3, <1>4, <1>5, <1>6, <1>7 DEF WorkerStep

\* The types, for a step of anyone else.
LEMMA TypeOthers ==
    ASSUME TypeOK, \/ \E w \in Workers : SpuriousWake(w)
                   \/ \E p \in Producers : Push(p) \/ Notify(p)
                   \/ Stop
                   \/ UNCHANGED vars
    PROVE  TypeOK'
  <1> USE PoolAssumption DEF TypeOK, States
  <1>1. CASE \E w \in Workers : SpuriousWake(w)
    BY <1>1 DEF SpuriousWake
  <1>2. ASSUME NEW p \in Producers, Push(p) PROVE TypeOK'
    <2>1. added' \in Task
      BY <1>2 DEF Push, Task
    <2>2. queue' \in Seq(Task)
      BY <1>2, <2>1 DEF Push
    <2>3. QED
      BY <1>2, <2>1, <2>2 DEF Push, Task
  <1>3. CASE \E p \in Producers : Notify(p)
    BY <1>3 DEF Notify
  <1>4. CASE Stop
    BY <1>4 DEF Stop
  <1>5. CASE UNCHANGED vars
    BY <1>5 DEF vars
  <1>6. QED
    BY <1>1, <1>2, <1>3, <1>4, <1>5

-----------------------------------------------------------------------------
(* A worker at its pop.  Only another worker at its own pop could take the *)
(* task it has seen, and headMutex_ keeps the two apart.                   *)

\* headMutex_ lets one worker pop at a time.
LEMMA OneAtPop ==
    ASSUME TypeOK, NEW v \in Workers, NEW w \in Workers, pc[v] = "pop", pc[w] = "pop"
    PROVE  v = w
  BY DEF TypeOK

\* A worker pops a task only after it has seen one, and no other can pop it.
LEMMA FindsWorker ==
    ASSUME TypeOK, PopFindsTask, NEW w \in Workers, WorkerStep(w)
    PROVE  PopFindsTask'
  <1> SUFFICES ASSUME NEW v \in Workers, pc'[v] = "pop" PROVE queue' # <<>>
    BY DEF PopFindsTask
  <1> USE DEF Goto
  <1>0. pc \in [Workers -> States]
    BY DEF TypeOK
  <1>1. CASE Pop(w)
    <2>1. pc[w] = "pop" /\ pc'[w] = "run"
      BY <1>0, <1>1 DEF Pop
    <2>2. v # w /\ pc[v] = "pop"
      BY <1>0, <1>1, <2>1 DEF Pop
    <2>3. QED
      BY <2>1, <2>2, OneAtPop
  <1>2. CASE Predicate(w)
    <2>1. CASE v = w
      BY <1>0, <1>2, <2>1 DEF Predicate
    <2>2. CASE v # w
      BY <1>0, <1>2, <2>2 DEF Predicate, PopFindsTask
    <2>3. QED
      BY <2>1, <2>2
  <1>3. CASE TestRunning(w) \/ LockHead(w) \/ Block(w) \/ Wake(w) \/ Run(w)
    <2>1. queue' = queue /\ (v = w => pc'[v] # "pop") /\ (v # w => pc'[v] = pc[v])
      BY <1>0, <1>3 DEF TestRunning, LockHead, Block, Wake, Run
    <2>2. QED
      BY <2>1 DEF PopFindsTask
  <1>4. QED
    BY <1>1, <1>2, <1>3 DEF WorkerStep

\* A producer only adds tasks.
LEMMA FindsOthers ==
    ASSUME TypeOK, PopFindsTask,
           \/ \E w \in Workers : SpuriousWake(w)
           \/ \E p \in Producers : Push(p) \/ Notify(p)
           \/ Stop
           \/ UNCHANGED vars
    PROVE  PopFindsTask'
  <1>1. ASSUME NEW p \in Producers, Push(p) PROVE PopFindsTask'
    <2>1. queue' = Append(queue, added') /\ pc' = pc
      BY <1>1 DEF Push
    <2>2. added' \in Task
      BY <1>1, PoolAssumption DEF Push, TypeOK, Task
    <2>3. queue' # <<>>
      BY <2>1, <2>2 DEF TypeOK
    <2>4. QED
      BY <2>3 DEF PopFindsTask
  <1>2. CASE ~ \E p \in Producers : Push(p)
    BY <1>2 DEF PopFindsTask, SpuriousWake, Notify, Stop, vars
  <1>3. QED
    BY <1>1, <1>2

PoolInv == TypeOK /\ PopFindsTask

\* Types and the predicate of the wait together.
LEMMA PoolInvariant == Spec => []PoolInv
  <1>1. Init => PoolInv
    BY TypeInit DEF PoolInv, PopFindsTask, Init
  <1>2. PoolInv /\ [Next]_vars => PoolInv'
    BY TypeWorker, TypeOthers, FindsWorker, FindsOthers DEF PoolInv, Next
  <1>3. QED
    BY <1>1, <1>2, PTL DEF Spec

-----------------------------------------------------------------------------
\* The types, and headMutex_ held exactly by a worker between the lock and the
\* unlock of waitAndPop (ThreadSafeQueue.hpp:76-91).
THEOREM TypeCorrect == Spec => []TypeOK
  BY PoolInvariant, PTL DEF PoolInv

\* The predicate of the wait still holds when the head is popped
\* (ThreadSafeQueue.hpp:70-91), for any number of workers and producers.
THEOREM PopAlwaysFindsTask == Spec => []PopFindsTask
  BY PoolInvariant, PTL DEF PoolInv

-----------------------------------------------------------------------------
(* The pool and the abstract executor.                                     *)

AllGone == \A w \in Workers : pc[w] = "exit"

\* The initial states are mapped to initial states.
LEMMA ExecutorInit == Workers # {} /\ Init => Executor!Init
  BY DEF Init, Executor!Init

\* A worker takes a task, or ends, or does nothing that TaskExecutor sees.
LEMMA ExecutorWorker ==
    ASSUME PoolInv, NEW w \in Workers, WorkerStep(w)
    PROVE  [Executor!Next]_(Executor!vars)
  <1> USE DEF Goto, Executor!vars
  <1>0. pc \in [Workers -> States]
    BY DEF PoolInv, TypeOK
  <1>1. CASE TestRunning(w)
    <2>1. UNCHANGED <<queue, taken>> /\ pc[w] = "test"
      BY <1>1 DEF TestRunning
    <2>2. CASE AllGone'
      BY <2>1, <2>2 DEF AllGone, Executor!Next, Executor!Stop
    <2>3. CASE ~AllGone'
      BY <2>1, <2>3 DEF AllGone
    <2>4. QED
      BY <2>2, <2>3
  <1>2. CASE Pop(w)
    <2>1. pc[w] = "pop" /\ pc'[w] = "run"
      BY <1>0, <1>2 DEF Pop
    <2>2. ~AllGone /\ ~AllGone'
      BY <2>1 DEF AllGone
    <2>3. queue # <<>>
      BY <2>1 DEF PoolInv, PopFindsTask
    <2>4. Executor!Execute
      BY <1>2, <2>2, <2>3 DEF Pop, AllGone, Executor!Execute
    <2>5. QED
      BY <2>4 DEF Executor!Next
  <1>3. CASE LockHead(w) \/ Predicate(w) \/ Block(w) \/ Wake(w) \/ Run(w)
    <2>1. UNCHANGED <<queue, taken>> /\ pc[w] # "exit" /\ pc'[w] # "exit"
      BY <1>0, <1>3 DEF LockHead, Predicate, Block, Wake, Run
    <2>2. ~AllGone /\ ~AllGone'
      BY <2>1 DEF AllGone
    <2>3. QED
      BY <2>1, <2>2 DEF AllGone
  <1>4. QED
    BY <1>1, <1>2, <1>3 DEF WorkerStep

\* A producer submits a task, stop stops.
LEMMA ExecutorOthers ==
    ASSUME PoolInv,
           \/ \E w \in Workers : SpuriousWake(w)
           \/ \E p \in Producers : Push(p) \/ Notify(p)
           \/ Stop
           \/ UNCHANGED vars
    PROVE  [Executor!Next]_(Executor!vars)
  <1>1. ASSUME NEW p \in Producers, Push(p) PROVE Executor!Submit
    <2>1. added' \in Task
      BY <1>1, PoolAssumption DEF Push, PoolInv, TypeOK, Task
    <2>2. queue' = Append(queue, added') /\ UNCHANGED <<pc, taken>>
      BY <1>1 DEF Push
    <2>3. QED
      BY <2>1, <2>2 DEF Executor!Submit
  <1>2. CASE ~ \E p \in Producers : Push(p)
    BY <1>2 DEF SpuriousWake, Notify, Stop, vars, Executor!vars
  <1>3. QED
    BY <1>1, <1>2 DEF Executor!Next

\* A pool with at least one worker implements the safety part of TaskExecutor:
\* every task is taken once, in order, and none after the last worker has
\* ended.
THEOREM ImplementsExecutor ==
    ASSUME Workers # {}
    PROVE  Spec => ExecutorSafety
  <1>1. Init => Executor!Init
    BY ExecutorInit
  <1>2. PoolInv /\ [Next]_vars => [Executor!Next]_(Executor!vars)
    BY ExecutorWorker, ExecutorOthers DEF Next
  <1>3. QED
    BY <1>1, <1>2, PoolInvariant, PTL DEF Spec, ExecutorSafety
=============================================================================
