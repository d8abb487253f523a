---------------------------- MODULE TaskExecutor ----------------------------
(***************************************************************************)
(* What an EventLoop promises to the threads that hand it functors: a      *)
(* consumer that runs every functor exactly once, in the order in which    *)
(* they were handed over, and goes on running them until it stops.         *)
(* EventLoop implements this specification (EventLoop!Executor); a         *)
(* ThreadPool implements its safety part, with tasks for functors and      *)
(* "taken" for "ran" (ThreadPool!Executor).                                *)
(***************************************************************************)
EXTENDS Sequences

CONSTANT Functors    \* what can be handed over

VARIABLES
    pending,    \* functors handed over and not run yet, oldest first
    ran,        \* functors that have run, oldest first
    stopped     \* the consumer has stopped for good

vars == <<pending, ran, stopped>>

Init == pending = <<>> /\ ran = <<>> /\ stopped = FALSE

\* A thread hands over one functor; nothing prevents it after the stop.
Submit == /\ \E f \in Functors : pending' = Append(pending, f)
          /\ UNCHANGED <<ran, stopped>>

\* The consumer runs the oldest functor.
Execute == /\ ~stopped
           /\ pending # <<>>
           /\ ran' = Append(ran, Head(pending))
           /\ pending' = Tail(pending)
           /\ UNCHANGED stopped

\* The consumer stops; what is pending stays pending.
Stop == stopped' = TRUE /\ UNCHANGED <<pending, ran>>

Next == Submit \/ Execute \/ Stop

Spec == Init /\ [][Next]_vars /\ WF_vars(Execute)
=============================================================================
