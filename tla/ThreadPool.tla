----------------------------- MODULE ThreadPool -----------------------------
(***************************************************************************)
(* ThreadPool (base/ThreadPool.cpp) and the ThreadSafeQueue it takes its   *)
(* tasks from (base/ThreadSafeQueue.hpp).                                  *)
(*                                                                         *)
(* The queue has a mutex for each end.  What push does under tailMutex_    *)
(* and what getTail reads is one step each; the list between head_ and     *)
(* tail_ is the sequence queue.  The consumers' end is modelled in full:   *)
(* the condition variable is waited for under headMutex_, which push does  *)
(* not take when it notifies.                                              *)
(***************************************************************************)
EXTENDS Naturals, Sequences, FiniteSets

CONSTANTS
    Workers,        \* the threads of the pool
    Producers,      \* the threads that call addTask
    none,           \* no owner
    MaxTasks        \* bound: calls of addTask

ASSUME PoolAssumption == none \notin Workers /\ MaxTasks \in Nat

VARIABLES
    running,        \* running_
    queue,          \* the tasks between head_ and tail_, oldest first
    headMutex,      \* the worker that holds headMutex_, or none
    waiting,        \* the workers blocked in cv_.wait
    pc,             \* where each worker is
    pushed,         \* BOOLEAN for each producer: in push, before notify_one
    task,           \* the task each worker has taken, 0 for none
    taken,          \* history: the tasks taken, oldest first
    added           \* history: tasks added

vars == <<running, queue, headMutex, waiting, pc, pushed, task, taken, added>>

States == {"test", "lock", "predicate", "block", "wait", "pop", "run", "exit"}

Task == 1..MaxTasks

TypeOK ==
    /\ running \in BOOLEAN
    /\ queue \in Seq(Task)
    /\ headMutex \in Workers \cup {none}
    /\ waiting \subseteq Workers
    /\ pc \in [Workers -> States]
    /\ pushed \in [Producers -> BOOLEAN]
    /\ task \in [Workers -> 0..MaxTasks]
    /\ taken \in Seq(Task)
    /\ added \in 0..MaxTasks
    /\ \A w \in Workers : (headMutex = w) <=> (pc[w] \in {"predicate", "block", "pop"})
    /\ \A w \in waiting : pc[w] = "wait"

\* After start(): running_ is set before the threads exist.
Init ==
    /\ running = TRUE
    /\ queue = <<>>
    /\ headMutex = none
    /\ waiting = {}
    /\ pc = [w \in Workers |-> "test"]
    /\ pushed = [p \in Producers |-> FALSE]
    /\ task = [w \in Workers |-> 0]
    /\ taken = <<>>
    /\ added = 0

Goto(w, state) == pc' = [pc EXCEPT ![w] = state]

----------------------------------------------------------------------------
(* The producers.                                                          *)

Push(p) ==
    /\ ~pushed[p]
    /\ added < MaxTasks
    /\ added' = added + 1
    /\ queue' = Append(queue, added')
    /\ pushed' = [pushed EXCEPT ![p] = TRUE]
    /\ UNCHANGED <<running, headMutex, waiting, pc, task, taken>>

\* notify_one wakes one worker that waits, if there is one at this moment.
Notify(p) ==
    /\ pushed[p]
    /\ pushed' = [pushed EXCEPT ![p] = FALSE]
    /\ \/ waiting = {} /\ UNCHANGED waiting
       \/ \E w \in waiting : waiting' = waiting \ {w}
    /\ UNCHANGED <<running, queue, headMutex, pc, task, taken, added>>

\* stop() and nothing else: it notifies nobody.
Stop ==
    /\ running
    /\ running' = FALSE
    /\ UNCHANGED <<queue, headMutex, waiting, pc, pushed, task, taken, added>>

----------------------------------------------------------------------------
(* A worker: runInThread and waitAndPop.                                   *)

TestRunning(w) ==
    /\ pc[w] = "test"
    /\ Goto(w, IF running THEN "lock" ELSE "exit")
    /\ UNCHANGED <<running, queue, headMutex, waiting, pushed, task, taken, added>>

LockHead(w) ==
    /\ pc[w] = "lock"
    /\ headMutex = none
    /\ headMutex' = w
    /\ Goto(w, "predicate")
    /\ UNCHANGED <<running, queue, waiting, pushed, task, taken, added>>

\* head_.get() != getTail()
Predicate(w) ==
    /\ pc[w] = "predicate"
    /\ Goto(w, IF queue # <<>> THEN "pop" ELSE "block")
    /\ UNCHANGED <<running, queue, headMutex, waiting, pushed, task, taken, added>>

\* Mutant: the worker goes to sleep with the mutex.
BlockHoldingMutex(w) ==
    /\ pc[w] = "block"
    /\ waiting' = waiting \cup {w}
    /\ Goto(w, "wait")
    /\ UNCHANGED <<running, queue, headMutex, pushed, task, taken, added>>

\* wait: the worker joins the waiting ones and releases the mutex at once.
Block(w) ==
    /\ pc[w] = "block"
    /\ headMutex' = none
    /\ waiting' = waiting \cup {w}
    /\ Goto(w, "wait")
    /\ UNCHANGED <<running, queue, pushed, task, taken, added>>

\* Mutant: the predicate is not evaluated again.
WakeBelieving(w) ==
    /\ pc[w] = "wait" /\ w \notin waiting
    /\ headMutex = none
    /\ headMutex' = w
    /\ Goto(w, "pop")
    /\ UNCHANGED <<running, queue, waiting, pushed, task, taken, added>>

\* Notified: the mutex is taken again, then the predicate is tested.
Wake(w) ==
    /\ pc[w] = "wait" /\ w \notin waiting
    /\ headMutex = none
    /\ headMutex' = w
    /\ Goto(w, "predicate")
    /\ UNCHANGED <<running, queue, waiting, pushed, task, taken, added>>

\* A condition variable may wake a thread for no reason.
SpuriousWake(w) ==
    /\ w \in waiting
    /\ waiting' = waiting \ {w}
    /\ UNCHANGED <<running, queue, headMutex, pc, pushed, task, taken, added>>

\* Mutant: the value is moved out of the head, the head stays.
PopKeepsHead(w) ==
    /\ pc[w] = "pop"
    /\ headMutex' = none
    /\ task' = [task EXCEPT ![w] = Head(queue)]
    /\ taken' = Append(taken, Head(queue))
    /\ Goto(w, "run")
    /\ UNCHANGED <<running, queue, waiting, pushed, added>>

\* waitPopHead: the value and the head, then the mutex is released.
Pop(w) ==
    /\ pc[w] = "pop"
    /\ headMutex' = none
    /\ task' = [task EXCEPT ![w] = Head(queue)]
    /\ taken' = Append(taken, Head(queue))
    /\ queue' = Tail(queue)
    /\ Goto(w, "run")
    /\ UNCHANGED <<running, waiting, pushed, added>>

\* Mutant: a worker ends after its first task.
RunOnce(w) ==
    /\ pc[w] = "run"
    /\ task' = [task EXCEPT ![w] = 0]
    /\ Goto(w, "exit")
    /\ UNCHANGED <<running, queue, headMutex, waiting, pushed, taken, added>>

Run(w) ==
    /\ pc[w] = "run"
    /\ task' = [task EXCEPT ![w] = 0]
    /\ Goto(w, "test")
    /\ UNCHANGED <<running, queue, headMutex, waiting, pushed, taken, added>>

----------------------------------------------------------------------------
WorkerStep(w) ==
    \/ TestRunning(w) \/ LockHead(w) \/ Predicate(w) \/ Block(w)
    \/ Wake(w) \/ Pop(w) \/ Run(w)

Next ==
    \/ \E w \in Workers : WorkerStep(w) \/ SpuriousWake(w)
    \/ \E p \in Producers : Push(p) \/ Notify(p)
    \/ Stop

\* Every thread is scheduled; a mutex need not be fair, tasks end, and nobody
\* has to add tasks, to stop the pool or to be woken for no reason.
Fairness ==
    /\ \A w \in Workers : WF_vars(WorkerStep(w))
    /\ \A p \in Producers : WF_vars(Notify(p))

Spec == Init /\ [][Next]_vars /\ Fairness

----------------------------------------------------------------------------
(* Properties.                                                             *)

\* A worker that has seen a task under headMutex_ still finds it when it pops:
\* no other worker can have taken it, however it was woken.
PopFindsTask == \A w \in Workers : pc[w] = "pop" => queue # <<>>

\* Tasks are taken exactly once and in the order in which they were added, by
\* however many workers.
Executor == INSTANCE TaskExecutor
    WITH Functors <- Task, pending <- queue, ran <- taken,
         stopped <- \A w \in Workers : pc[w] = "exit"

ExecutorSafety == Executor!Init /\ [][Executor!Next]_(Executor!vars)

\* A worker that is not asleep does not go to sleep over a task: it or another
\* one takes all there are.
DrainedWhileAwake ==
    (queue # <<>> /\ \E w \in Workers : pc[w] \in {"test", "lock", "run"})
        ~> (queue = <<>> \/ ~running)

\* Every task is taken while the pool runs.
EveryTaskTaken == (queue # <<>>) ~> (queue = <<>> \/ ~running)
=============================================================================
