-------------------------- MODULE EventLoopProofs --------------------------
(***************************************************************************)
(* What holds of an EventLoop for any set of threads and channels and any  *)
(* number of calls, and then of a loop in a thread of its own: all that    *)
(* holds of every loop, and that the pointer startLoop returns is good     *)
(* until somebody quits.                                                   *)
(***************************************************************************)
EXTENDS EventLoopThread, SequenceTheorems, TLAPS

-----------------------------------------------------------------------------
(* The loop.                                                                *)

\* A next-state relation without the grouping that only fairness needs.
LEMMA NextCases ==
    ASSUME Next
    PROVE  \/ EnterLoop
           \/ TestQuit
           \/ Poll
           \/ PollInterrupted
           \/ \E c \in Channels : HandleEvent(c)
           \/ HandleRead
           \/ BeginFunctors
           \/ SwapFunctors
           \/ CallFunctor
           \/ EndFunctors
           \/ QueueFromLoop
           \/ QuitFromLoop
           \/ \E t \in Threads : QueueInLoop(t)
           \/ \E t \in Threads : Quit(t)
           \/ \E t \in Threads : WriteWakeup(t)
           \/ \E c \in Channels : BecomeReady(c)
  BY DEF Next, LoopStep

-----------------------------------------------------------------------------
\* The variables keep their types, functors run only between the swap and the
\* end of runFunctors, and callingFunctors_ says so (EventLoop.cpp:150-164).
LEMMA TypeInit == Init => TypeOK
  <1> SUFFICES ASSUME Init PROVE TypeOK
    OBVIOUS
  <1>1. <<>> \in Seq(Nat)
    BY EmptySeq
  <1>2. other \in [Threads -> {"idle", "pushed", "quitting"}]
    BY DEF Init
  <1>3. QED
    BY <1>1, <1>2 DEF Init, TypeOK, LoopStates

\* The types, action by action.
LEMMA TypeNext == TypeOK /\ [Next]_vars => TypeOK'
  <1> SUFFICES ASSUME TypeOK, [Next]_vars PROVE TypeOK'
    OBVIOUS
  <1> USE DEF TypeOK, LoopStates
  <1>1. CASE EnterLoop
    BY <1>1 DEF EnterLoop
  <1>2. CASE TestQuit
    BY <1>2 DEF TestQuit
  <1>3. CASE Poll
    BY <1>3 DEF Poll, Pollable
  <1>4. CASE PollInterrupted
    BY <1>4 DEF PollInterrupted
  <1>5. CASE \E c \in Channels : HandleEvent(c)
    BY <1>5 DEF HandleEvent
  <1>6. CASE HandleRead
    BY <1>6 DEF HandleRead
  <1>7. CASE BeginFunctors
    BY <1>7 DEF BeginFunctors
  <1>8. CASE SwapFunctors
    BY <1>8 DEF SwapFunctors
  <1>9. CASE CallFunctor
    BY <1>9, HeadTailProperties, AppendProperties DEF CallFunctor
  <1>10. CASE EndFunctors
    BY <1>10 DEF EndFunctors
  <1>11. CASE QueueFromLoop
    BY <1>11, AppendProperties DEF QueueFromLoop
  <1>12. CASE QuitFromLoop
    BY <1>12 DEF QuitFromLoop
  <1>13. CASE \E t \in Threads : QueueInLoop(t)
    BY <1>13, AppendProperties DEF QueueInLoop
  <1>14. CASE \E t \in Threads : Quit(t)
    BY <1>14 DEF Quit
  <1>15. CASE \E t \in Threads : WriteWakeup(t)
    BY <1>15 DEF WriteWakeup
  <1>16. CASE \E c \in Channels : BecomeReady(c)
    BY <1>16 DEF BecomeReady
  <1>17. CASE UNCHANGED vars
    BY <1>17 DEF vars
  <1>18. QED
    BY NextCases, <1>1, <1>2, <1>3, <1>4, <1>5, <1>6, <1>7, <1>8, <1>9, <1>10,
       <1>11, <1>12, <1>13, <1>14, <1>15, <1>16, <1>17

\* The types of every variable of a loop and of the threads that call it
\* (EventLoop.cpp:33-164), for any number of threads.
THEOREM TypeCorrect == Spec => []TypeOK
  BY TypeInit, TypeNext, PTL DEF Spec

-----------------------------------------------------------------------------
(* No wakeup is lost.  The three facts below are inductive once the types    *)
(* are known: what queueInLoop and quit leave behind for a loop on its way   *)
(* to epoll_wait is a readable eventfd or a writer about to make it so.      *)

Woken == TypeOK /\ NoLostFunctor /\ NoLostQuit /\ WakeupReadable

\* At the start nothing has been queued.
LEMMA WokenInit == Init => Woken
  BY TypeInit DEF Init, Woken, NoLostFunctor, NoLostQuit, WakeupReadable

\* Every step that queues a functor or sets quit_ leaves a wakeup behind.
LEMMA WokenNext == Woken /\ [Next]_vars => Woken'
  <1> SUFFICES ASSUME Woken, [Next]_vars PROVE Woken'
    OBVIOUS
  <1>0. TypeOK /\ TypeOK'
    BY TypeNext DEF Woken
  <1> USE <1>0 DEF Woken, NoLostFunctor, NoLostQuit, WakeupReadable
  <1>1. CASE EnterLoop
    BY <1>1 DEF EnterLoop
  <1>2. CASE TestQuit
    BY <1>2 DEF TestQuit
  <1>3. CASE Poll
    BY <1>3, ChannelsAssumption DEF Poll, Pollable, TypeOK
  <1>4. CASE PollInterrupted
    BY <1>4 DEF PollInterrupted
  <1>5. CASE \E c \in Channels : HandleEvent(c)
    BY <1>5 DEF HandleEvent
  <1>6. CASE HandleRead
    BY <1>6 DEF HandleRead
  <1>7. CASE BeginFunctors
    BY <1>7 DEF BeginFunctors
  <1>8. CASE SwapFunctors
    BY <1>8 DEF SwapFunctors
  <1>9. CASE CallFunctor
    BY <1>9 DEF CallFunctor
  <1>10. CASE EndFunctors
    BY <1>10 DEF EndFunctors
  <1>11. CASE QueueFromLoop
    <2>1. counter' \in Nat /\ (pc = "call" => counter' > 0)
      BY <1>11 DEF QueueFromLoop, TypeOK
    <2>2. counter > 0 => counter' > 0
      BY <1>11 DEF QueueFromLoop, TypeOK
    <2>3. QED
      BY <1>11, <2>1, <2>2 DEF QueueFromLoop
  <1>12. CASE QuitFromLoop
    BY <1>12 DEF QuitFromLoop
  <1>13. CASE \E t \in Threads : QueueInLoop(t)
    BY <1>13 DEF QueueInLoop, TypeOK
  <1>14. CASE \E t \in Threads : Quit(t)
    BY <1>14 DEF Quit, TypeOK
  <1>15. CASE \E t \in Threads : WriteWakeup(t)
    BY <1>15 DEF WriteWakeup, TypeOK
  <1>16. CASE \E c \in Channels : BecomeReady(c)
    BY <1>16 DEF BecomeReady
  <1>17. CASE UNCHANGED vars
    BY <1>17 DEF vars
  <1>18. QED
    BY NextCases, <1>1, <1>2, <1>3, <1>4, <1>5, <1>6, <1>7, <1>8, <1>9, <1>10,
       <1>11, <1>12, <1>13, <1>14, <1>15, <1>16, <1>17

\* The three facts together.
LEMMA AlwaysWoken == Spec => []Woken
  BY WokenInit, WokenNext, PTL DEF Spec

\* A loop on its way to epoll_wait with functors queued will be woken
\* (EventLoop.cpp:102-111), for any number of threads and of calls.
THEOREM FunctorNeverLost == Spec => []NoLostFunctor
  BY AlwaysWoken, PTL DEF Woken

\* A loop in epoll_wait that has been told to quit will be woken
\* (EventLoop.cpp:87-92).
THEOREM QuitNeverLost == Spec => []NoLostQuit
  BY AlwaysWoken, PTL DEF Woken

\* handleRead never reads an empty eventfd (EventLoop.cpp:142-148).
THEOREM WakeupAlwaysReadable == Spec => []WakeupReadable
  BY AlwaysWoken, PTL DEF Woken

-----------------------------------------------------------------------------
(* Three facts about sequences: a queue kept in two halves behaves as one.   *)

\* The last functor queued is the last of all.
LEMMA ConcatAppend ==
    ASSUME NEW S, NEW s \in Seq(S), NEW t \in Seq(S), NEW e \in S
    PROVE  s \o Append(t, e) = Append(s \o t, e)
  OBVIOUS

\* The first one running is the first of all.
LEMMA ConcatTail ==
    ASSUME NEW S, NEW s \in Seq(S), NEW t \in Seq(S), s # <<>>
    PROVE  /\ s \o t # <<>>
           /\ Head(s \o t) = Head(s)
           /\ Tail(s \o t) = Tail(s) \o t
  OBVIOUS

\* A functor that is run moves from the queue to the history.
LEMMA MoveHead ==
    ASSUME NEW S, NEW r \in Seq(S), NEW s \in Seq(S), s # <<>>
    PROVE  Append(r, Head(s)) \o Tail(s) = r \o s
  OBVIOUS

-----------------------------------------------------------------------------
(* Every step is a step of TaskExecutor or leaves its variables alone.       *)

\* Each step, mapped.
LEMMA ExecutorStep ==
    ASSUME TypeOK, TypeOK', [Next]_vars
    PROVE  [Executor!Next]_(Executor!vars)
  <1> DEFINE queue == running \o functors_
  <1> USE DEF Executor!vars
  <1>1. CASE QueueFromLoop \/ \E t \in Threads : QueueInLoop(t)
    <2>1. /\ calls + 1 \in 1..MaxCalls
          /\ functors_' = Append(functors_, calls + 1)
          /\ UNCHANGED <<pc, running, ran>>
      BY <1>1, CallsAssumption DEF QueueFromLoop, QueueInLoop, TypeOK
    <2>2a. running \in Seq(Nat) /\ functors_ \in Seq(Nat) /\ calls + 1 \in Nat
      BY DEF TypeOK
    <2>2b. running \o Append(functors_, calls + 1) = Append(queue, calls + 1)
      BY <2>2a, ConcatAppend
    <2>2. queue' = Append(queue, calls + 1)
      BY <2>1, <2>2b
    <2>3. Executor!Submit
      BY <2>1, <2>2 DEF Executor!Submit
    <2>4. QED
      BY <2>3 DEF Executor!Next
  <1>2. CASE CallFunctor
    <2>1. /\ queue # <<>>
          /\ Head(queue) = Head(running)
          /\ Tail(queue) = Tail(running) \o functors_
      BY <1>2, ConcatTail DEF CallFunctor, TypeOK
    <2>2. Executor!Execute
      BY <1>2, <2>1 DEF CallFunctor, Executor!Execute
    <2>3. QED
      BY <2>2 DEF Executor!Next
  <1>3. CASE SwapFunctors
    <2>1. running = <<>> /\ functors_' = <<>> /\ running' = functors_
      BY <1>3 DEF SwapFunctors, TypeOK
    <2>2. queue' = queue
      BY <2>1, ConcatEmptySeq DEF TypeOK
    <2>3. QED
      BY <1>3, <2>2 DEF SwapFunctors
  <1>4. CASE TestQuit
    BY <1>4 DEF TestQuit, Executor!Next, Executor!Stop
  <1>5. CASE \/ EnterLoop \/ Poll \/ PollInterrupted \/ HandleRead
             \/ \E c \in Channels : HandleEvent(c)
             \/ BeginFunctors \/ EndFunctors \/ QuitFromLoop
    BY <1>5 DEF EnterLoop, Poll, PollInterrupted, HandleRead, HandleEvent,
                BeginFunctors, EndFunctors, QuitFromLoop
  <1>6. CASE \/ \E t \in Threads : Quit(t)
             \/ \E t \in Threads : WriteWakeup(t)
             \/ \E c \in Channels : BecomeReady(c)
             \/ UNCHANGED vars
    BY <1>6 DEF Quit, WriteWakeup, BecomeReady, vars
  <1>7. QED
    BY NextCases, <1>1, <1>2, <1>3, <1>4, <1>5, <1>6

\* An EventLoop is, step by step, the single consumer of TaskExecutor: it runs
\* the functors of all threads once each, oldest first, and loses none of them
\* while the queue is swapped out and refilled (EventLoop.cpp:102-111, 150-164).
THEOREM ImplementsExecutor == Spec => ExecutorSafety
  <1>1. Init => Executor!Init
    <2>1. <<>> \o <<>> = <<>>
      BY EmptySeq, ConcatEmptySeq
    <2>2. QED
      BY <2>1 DEF Init, Executor!Init
  <1>2. TypeOK /\ TypeOK' /\ [Next]_vars => [Executor!Next]_(Executor!vars)
    BY ExecutorStep
  <1>3. QED
    BY <1>1, <1>2, TypeCorrect, PTL DEF Spec, ExecutorSafety

-----------------------------------------------------------------------------
(* The order of the functors.  InOrder is not inductive by itself: that the  *)
(* next functor is larger than all the others needs the bound by calls.      *)

Increasing(h) == \A i, j \in 1..Len(h) : i < j => h[i] < h[j]

Below(h, n) == \A i \in 1..Len(h) : h[i] <= n

Ordered == InOrder /\ Below(History, calls)

\* A new number is greater than those before it.
LEMMA AppendNext ==
    ASSUME NEW h \in Seq(Nat), NEW n \in Nat, Increasing(h), Below(h, n)
    PROVE  Increasing(Append(h, n + 1)) /\ Below(Append(h, n + 1), n + 1)
  <1> DEFINE g == Append(h, n + 1)
  <1>1. Len(h) \in Nat /\ Len(g) = Len(h) + 1
    OBVIOUS
  <1>2. \A i \in 1..Len(h) : g[i] = h[i] /\ h[i] \in Nat /\ h[i] <= n
    BY ElementOfSeq DEF Below
  <1>3. g[Len(h) + 1] = n + 1
    OBVIOUS
  <1> HIDE DEF g
  <1>4. ASSUME NEW i \in 1..Len(g), NEW j \in 1..Len(g), i < j PROVE g[i] < g[j]
    <2>1. i \in 1..Len(h)
      BY <1>1, <1>4
    <2>2. CASE j \in 1..Len(h)
      BY <1>2, <1>4, <2>1, <2>2 DEF Increasing
    <2>3. CASE j = Len(h) + 1
      BY <1>2, <1>3, <2>1, <2>3
    <2>4. QED
      BY <1>1, <2>2, <2>3
  <1>5. ASSUME NEW i \in 1..Len(g) PROVE g[i] <= n + 1
    <2>1. CASE i \in 1..Len(h)
      BY <1>2, <2>1
    <2>2. CASE i = Len(h) + 1
      BY <1>3, <2>2
    <2>3. QED
      BY <1>1, <2>1, <2>2
  <1>6. Increasing(g) /\ Below(g, n + 1)
    BY <1>4, <1>5 DEF Increasing, Below
  <1>7. QED
    BY <1>6 DEF g

\* Every step keeps the order.
LEMMA OrderedNext == TypeOK /\ TypeOK' /\ Ordered /\ [Next]_vars => Ordered'
  <1> SUFFICES ASSUME TypeOK, TypeOK', Ordered, [Next]_vars PROVE Ordered'
    OBVIOUS
  <1>a. /\ History \in Seq(Nat)
        /\ calls \in Nat /\ calls' \in Nat
        /\ Increasing(History) /\ Below(History, calls)
    BY ConcatProperties DEF TypeOK, History, Ordered, InOrder, Increasing
  <1>b. ASSUME History' = History, calls <= calls' PROVE Ordered'
    <2>1. \A i \in 1..Len(History) : History[i] \in Nat
      BY <1>a, ElementOfSeq
    <2>2. Below(History, calls')
      BY <1>a, <1>b, <2>1 DEF Below
    <2>3. QED
      BY <1>a, <1>b, <2>2 DEF Ordered, InOrder, Increasing, Below
  <1>1. CASE QueueFromLoop \/ \E t \in Threads : QueueInLoop(t)
    <2>1. /\ calls' = calls + 1
          /\ functors_' = Append(functors_, calls + 1)
          /\ UNCHANGED <<running, ran>>
      BY <1>1 DEF QueueFromLoop, QueueInLoop
    <2>2. /\ calls + 1 \in Nat
          /\ ran \o running \in Seq(Nat)
          /\ functors_ \in Seq(Nat)
      BY ConcatProperties DEF TypeOK
    <2>3. (ran \o running) \o Append(functors_, calls + 1)
            = Append((ran \o running) \o functors_, calls + 1)
      BY <2>2, ConcatAppend
    <2>4. History' = Append(History, calls + 1)
      BY <2>1, <2>3 DEF History
    <2>5. Increasing(History') /\ Below(History', calls')
      BY <1>a, <2>1, <2>4, AppendNext
    <2>6. QED
      BY <2>5 DEF Ordered, InOrder, Increasing, Below
  <1>2. CASE CallFunctor
    <2>1. Append(ran, Head(running)) \o Tail(running) = ran \o running
      BY <1>2, MoveHead DEF CallFunctor, TypeOK
    <2>2. History' = History /\ calls' = calls
      BY <1>2, <2>1 DEF CallFunctor, History
    <2>3. QED
      BY <1>a, <1>b, <2>2
  <1>3. CASE SwapFunctors
    <2>1. running = <<>> /\ functors_' = <<>> /\ running' = functors_ /\ ran' = ran
      BY <1>3 DEF SwapFunctors, TypeOK
    <2>2. ran \o <<>> = ran /\ ran \o functors_ \in Seq(Nat)
      BY ConcatEmptySeq, ConcatProperties DEF TypeOK
    <2>3. (ran \o functors_) \o <<>> = ran \o functors_
      BY <2>2, ConcatEmptySeq
    <2>4. History' = History /\ calls' = calls
      BY <1>3, <2>1, <2>2, <2>3 DEF History, SwapFunctors
    <2>5. QED
      BY <1>a, <1>b, <2>4
  <1>4. CASE \/ EnterLoop \/ TestQuit \/ Poll \/ PollInterrupted \/ HandleRead
             \/ \E c \in Channels : HandleEvent(c)
             \/ BeginFunctors \/ EndFunctors \/ QuitFromLoop
    <2>1. UNCHANGED <<ran, running, functors_>> /\ calls' \in {calls, calls + 1}
      BY <1>4 DEF EnterLoop, TestQuit, Poll, PollInterrupted, HandleRead,
         HandleEvent, BeginFunctors, EndFunctors, QuitFromLoop
    <2>2. History' = History /\ calls <= calls'
      BY <1>a, <2>1 DEF History
    <2>3. QED
      BY <1>b, <2>2
  <1>5. CASE \/ \E t \in Threads : Quit(t)
             \/ \E t \in Threads : WriteWakeup(t)
             \/ \E c \in Channels : BecomeReady(c)
             \/ UNCHANGED vars
    <2>1. UNCHANGED <<ran, running, functors_>> /\ calls' \in {calls, calls + 1}
      BY <1>5 DEF Quit, WriteWakeup, BecomeReady, vars
    <2>2. History' = History /\ calls <= calls'
      BY <1>a, <2>1 DEF History
    <2>3. QED
      BY <1>b, <2>2
  <1>6. QED
    BY NextCases, <1>1, <1>2, <1>3, <1>4, <1>5

\* Functors run exactly once and in the order of the queueInLoop calls, across
\* the swap and however the pushes of several threads fall (EventLoop.cpp:104-107,
\* 155-161).
THEOREM FunctorsInOrder == Spec => []InOrder
  <1>1. Init => Ordered
    <2>1. Init => History = <<>>
      BY EmptySeq, ConcatEmptySeq DEF Init, History
    <2>2. QED
      BY <2>1 DEF Ordered, InOrder, Below
  <1>2. QED
    BY <1>1, OrderedNext, TypeCorrect, PTL DEF Spec, Ordered

-----------------------------------------------------------------------------
(* The loop on its thread.                                                  *)

\* The actions of the two threads.
LEMMA ThreadCases ==
    ASSUME ThreadNext
    PROVE  \/ Start
           \/ PassLatch
           \/ TestLoop
           \/ SpuriousWake
           \/ ReturnLoop
           \/ RunInThread
           \/ Publish
           \/ InLoop
           \/ Callback
           \/ Clear
           \/ End
           \/ \E t \in Threads : Begin(t)
           \/ \E t \in Threads : Finish(t)
           \/ UseAfterEnd
           \/ \E c \in Channels : Event(c)
  BY DEF ThreadNext, OwnerStep, ThreadStep

\* What the threads around loop() do is, to the loop, one of its own steps, a
\* call of one of its users, or nothing.
LEMMA StepOfLoop ==
    ASSUME [ThreadNext]_allVars
    PROVE  /\ [Next]_vars
           /\ UNCHANGED vars \/ UNCHANGED threadVars
  <1>1. CASE Start
    BY <1>1 DEF Start
  <1>2. CASE PassLatch
    BY <1>2 DEF PassLatch
  <1>3. CASE TestLoop
    BY <1>3 DEF TestLoop
  <1>4. CASE SpuriousWake
    BY <1>4 DEF SpuriousWake
  <1>5. CASE ReturnLoop
    BY <1>5 DEF ReturnLoop
  <1>6. CASE RunInThread
    BY <1>6 DEF RunInThread
  <1>7. CASE Publish
    BY <1>7 DEF Publish
  <1>8. CASE InLoop
    BY <1>8 DEF InLoop, Next
  <1>9. CASE Callback
    BY <1>9 DEF Callback, Next
  <1>10. CASE Clear
    BY <1>10 DEF Clear
  <1>11. CASE End
    BY <1>11 DEF End
  <1>12. CASE \E t \in Threads : Begin(t)
    BY <1>12 DEF Begin, Next
  <1>13. CASE \E t \in Threads : Finish(t)
    BY <1>13 DEF Finish, Next
  <1>14. CASE UseAfterEnd
    BY <1>14 DEF UseAfterEnd
  <1>15. CASE \E c \in Channels : Event(c)
    BY <1>15 DEF Event, Next
  <1>16. CASE UNCHANGED allVars
    BY <1>16 DEF allVars
  <1>17. QED
    BY ThreadCases, <1>1, <1>2, <1>3, <1>4, <1>5, <1>6, <1>7, <1>8, <1>9,
       <1>10, <1>11, <1>12, <1>13, <1>14, <1>15, <1>16

\* A loop in its thread behaves as EventLoop says: every step of startLoop, of
\* threadFunc and of the users is a step of EventLoop, or leaves it alone.
THEOREM ImplementsLoop == ThreadSpec => Init /\ [][Next]_vars
  <1>1. ThreadInit => Init
    BY DEF ThreadInit
  <1>2. [ThreadNext]_allVars => [Next]_vars
    BY StepOfLoop
  <1>3. QED
    BY <1>1, <1>2, PTL DEF ThreadSpec

\* In its thread, too, a loop on its way to epoll_wait with functors queued
\* will be woken (EventLoop.cpp:109).
THEOREM ThreadLosesNoFunctor == ThreadSpec => []NoLostFunctor
  <1>1. Woken => NoLostFunctor
    BY DEF Woken
  <1>2. QED
    BY <1>1, ImplementsLoop, WokenInit, WokenNext, PTL

\* And so will a loop in epoll_wait that was told to quit (EventLoop.cpp:87-92).
THEOREM ThreadLosesNoQuit == ThreadSpec => []NoLostQuit
  <1>1. Woken => NoLostQuit
    BY DEF Woken
  <1>2. QED
    BY <1>1, ImplementsLoop, WokenInit, WokenNext, PTL

-----------------------------------------------------------------------------
(* The pointer.                                                              *)

\* The types, action by action.
LEMMA ThreadTypeNext == ThreadTypeOK /\ [ThreadNext]_allVars => ThreadTypeOK'
  <1> SUFFICES ASSUME ThreadTypeOK, [ThreadNext]_allVars PROVE ThreadTypeOK'
    OBVIOUS
  <1>0. TypeOK'
    BY StepOfLoop, TypeNext DEF ThreadTypeOK
  <1>1. CASE UNCHANGED threadVars
    <2>1. pc' # "init" => pc # "init" \/ thread = "published"
      <3>1. CASE ThreadNext
        BY <3>1, <1>1, ThreadCases
           DEF Start, PassLatch, TestLoop, SpuriousWake, ReturnLoop, RunInThread,
               Publish, InLoop, Callback, Clear, End, Begin, Finish, UseAfterEnd,
               Event, QueueInLoop, Quit, WriteWakeup, vars, threadVars, ThreadTypeOK
      <3>2. QED
        BY <3>1 DEF allVars, vars
    <2>2. QED
      BY <1>0, <1>1, <2>1 DEF ThreadTypeOK, threadVars
  <1>2. CASE UNCHANGED vars /\ ~UNCHANGED threadVars
    <2>0. pc' = pc
      BY <1>2 DEF vars
    <2> USE <1>0, <1>2, <2>0 DEF ThreadTypeOK, threadVars
    <2>1. CASE ThreadNext
      <3>1. CASE Start
        BY <3>1 DEF Start
      <3>2. CASE PassLatch
        BY <3>2 DEF PassLatch
      <3>3. CASE TestLoop
        BY <3>3 DEF TestLoop
      <3>4. CASE SpuriousWake
        BY <3>4 DEF SpuriousWake
      <3>5. CASE ReturnLoop
        BY <3>5 DEF ReturnLoop
      <3>6. CASE RunInThread
        BY <3>6 DEF RunInThread
      <3>7. CASE Publish
        BY <3>7 DEF Publish
      <3>8. CASE InLoop
        BY <3>8 DEF InLoop
      <3>9. CASE Callback
        BY <3>9 DEF Callback
      <3>10. CASE Clear
        BY <3>10 DEF Clear
      <3>11. CASE End
        BY <3>11 DEF End
      <3>12. CASE \E t \in Threads : Begin(t)
        BY <3>12 DEF Begin
      <3>13. CASE \E t \in Threads : Finish(t)
        BY <3>13 DEF Finish
      <3>14. CASE UseAfterEnd
        BY <3>14 DEF UseAfterEnd
      <3>15. CASE \E c \in Channels : Event(c)
        BY <3>15 DEF Event
      <3>16. QED
        BY <2>1, ThreadCases, <3>1, <3>2, <3>3, <3>4, <3>5, <3>6, <3>7, <3>8,
           <3>9, <3>10, <3>11, <3>12, <3>13, <3>14, <3>15
    <2>2. QED
      BY <2>1 DEF allVars
  <1>3. QED
    BY <1>1, <1>2, StepOfLoop

\* loop() returns only when told to; the pointer is null, or dangles, only
\* after that; and nobody reads loop_ before the thread has published it.
PointerInv ==
    /\ ThreadTypeOK
    /\ pc = "exit" => quit_
    /\ thread \in {"cleared", "ended"} => pc = "exit"
    /\ owner \in {"returning", "has"} => thread \in {"published", "cleared", "ended"}
    /\ given = "null" => thread \in {"cleared", "ended"}
    /\ dangling => thread = "ended"

\* What a step of the loop does to pc and quit_.
LEMMA LoopStops ==
    ASSUME TypeOK, [Next]_vars, pc = "exit" => quit_
    PROVE  /\ pc' = "exit" => quit_'
           /\ pc = "exit" => pc' = "exit"
  <1>1. CASE EnterLoop
    BY <1>1 DEF EnterLoop, TypeOK
  <1>2. CASE TestQuit
    BY <1>2 DEF TestQuit, TypeOK
  <1>3. CASE Poll
    BY <1>3 DEF Poll, TypeOK
  <1>4. CASE PollInterrupted
    BY <1>4 DEF PollInterrupted, TypeOK
  <1>5. CASE \E c \in Channels : HandleEvent(c)
    BY <1>5 DEF HandleEvent, TypeOK
  <1>6. CASE HandleRead
    BY <1>6 DEF HandleRead, TypeOK
  <1>7. CASE BeginFunctors
    BY <1>7 DEF BeginFunctors, TypeOK
  <1>8. CASE SwapFunctors
    BY <1>8 DEF SwapFunctors, TypeOK
  <1>9. CASE CallFunctor
    BY <1>9 DEF CallFunctor, TypeOK
  <1>10. CASE EndFunctors
    BY <1>10 DEF EndFunctors, TypeOK
  <1>11. CASE QueueFromLoop
    BY <1>11 DEF QueueFromLoop, TypeOK
  <1>12. CASE QuitFromLoop
    BY <1>12 DEF QuitFromLoop, TypeOK
  <1>13. CASE \E t \in Threads : QueueInLoop(t)
    BY <1>13 DEF QueueInLoop, TypeOK
  <1>14. CASE \E t \in Threads : Quit(t)
    BY <1>14 DEF Quit, TypeOK
  <1>15. CASE \E t \in Threads : WriteWakeup(t)
    BY <1>15 DEF WriteWakeup, TypeOK
  <1>16. CASE \E c \in Channels : BecomeReady(c)
    BY <1>16 DEF BecomeReady, TypeOK
  <1>17. CASE UNCHANGED vars
    BY <1>17 DEF vars, TypeOK
  <1>18. QED
    BY NextCases, <1>1, <1>2, <1>3, <1>4, <1>5, <1>6, <1>7, <1>8, <1>9, <1>10,
       <1>11, <1>12, <1>13, <1>14, <1>15, <1>16, <1>17

\* At the start there is no loop.
LEMMA PointerInit == ThreadInit => PointerInv
  BY TypeInit DEF ThreadInit, Init, PointerInv, ThreadTypeOK

\* No step of either thread leaves a pointer to a loop that is gone.
LEMMA PointerNext == PointerInv /\ [ThreadNext]_allVars => PointerInv'
  <1> SUFFICES ASSUME PointerInv, [ThreadNext]_allVars PROVE PointerInv'
    OBVIOUS
  <1>1. ThreadTypeOK'
    BY ThreadTypeNext DEF PointerInv
  <1>2. /\ pc' = "exit" => quit_'
        /\ pc = "exit" => pc' = "exit"
    BY StepOfLoop, LoopStops DEF PointerInv, ThreadTypeOK
  <1>3. CASE UNCHANGED threadVars
    BY <1>1, <1>2, <1>3 DEF PointerInv, threadVars
  <1>4. CASE UNCHANGED vars /\ ~UNCHANGED threadVars
    <2> USE <1>1, <1>2, <1>4 DEF PointerInv, threadVars, ThreadTypeOK
    <2>1. CASE ThreadNext
      <3>1. CASE Start
        BY <3>1 DEF Start
      <3>2. CASE PassLatch
        BY <3>2 DEF PassLatch
      <3>3. CASE TestLoop
        BY <3>3 DEF TestLoop
      <3>4. CASE SpuriousWake
        BY <3>4 DEF SpuriousWake
      <3>5. CASE ReturnLoop
        BY <3>5 DEF ReturnLoop
      <3>6. CASE RunInThread
        BY <3>6 DEF RunInThread
      <3>7. CASE Publish
        BY <3>7 DEF Publish
      <3>8. CASE InLoop
        BY <3>8 DEF InLoop
      <3>9. CASE Callback
        BY <3>9 DEF Callback
      <3>10. CASE Clear
        BY <3>10 DEF Clear
      <3>11. CASE End
        BY <3>11 DEF End
      <3>12. CASE \E t \in Threads : Begin(t)
        BY <3>12 DEF Begin
      <3>13. CASE \E t \in Threads : Finish(t)
        BY <3>13 DEF Finish
      <3>14. CASE UseAfterEnd
        BY <3>14 DEF UseAfterEnd
      <3>15. CASE \E c \in Channels : Event(c)
        BY <3>15 DEF Event
      <3>16. QED
        BY <2>1, ThreadCases, <3>1, <3>2, <3>3, <3>4, <3>5, <3>6, <3>7, <3>8,
           <3>9, <3>10, <3>11, <3>12, <3>13, <3>14, <3>15
    <2>2. QED
      BY <2>1 DEF allVars
  <1>5. QED
    BY <1>3, <1>4, StepOfLoop

\* The variables around loop() keep their types; loop_ is set exactly while the
\* thread is between its two lock sections.
THEOREM ThreadTypeCorrect == ThreadSpec => []ThreadTypeOK
  <1>1. PointerInv => ThreadTypeOK
    BY DEF PointerInv
  <1>2. QED
    BY <1>1, PointerInit, PointerNext, PTL DEF ThreadSpec

\* startLoop never returns null and no call reaches a loop that is gone, unless
\* the loop has been told to quit (EventLoopThread.cpp:27-56).
THEOREM PointerAlwaysGood == ThreadSpec => []PointerGood
  <1>1. PointerInv => PointerGood
    BY DEF PointerInv, PointerGood
  <1>2. QED
    BY <1>1, PointerInit, PointerNext, PTL DEF ThreadSpec
=============================================================================
