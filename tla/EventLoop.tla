----------------------------- MODULE EventLoop -----------------------------
(***************************************************************************)
(* One EventLoop (net/EventLoop.cpp) and the threads that use it.  The     *)
(* loop's own thread alternates between epoll_wait, the handlers of the    *)
(* channels that are ready, and the functors queued for it.  Every other   *)
(* thread may queue a functor, or ask the loop to quit; both are two steps *)
(* there, a write to shared state and then a write to the eventfd, and the *)
(* loop or another thread may run between the two.                         *)
(***************************************************************************)
EXTENDS Naturals, Sequences

CONSTANTS
    Threads,    \* the threads other than the loop's own
    Channels,   \* the channels of the loop, the one of wakeupFd_ excepted
    Wakeup,     \* wakeupChannel_
    MaxCalls    \* bound: the calls of queueInLoop and quit in a behaviour

ASSUME CallsAssumption == MaxCalls \in Nat
ASSUME ChannelsAssumption == Wakeup \notin Channels

VARIABLES
    pc,                 \* where the loop's thread is
    activeChannels_,    \* the channels the last poll returned, not yet handled
    callingFunctors_,
    quit_,
    functors_,          \* the queue protected by mutex_
    running,            \* what runFunctors swapped out and has not called yet
    counter,            \* the value of the eventfd wakeupFd_
    ready,              \* the channels whose descriptor has an event
    other,              \* where each other thread is inside its call
    calls,              \* calls made so far; names the functors
    ran                 \* history: the functors called so far

vars == <<pc, activeChannels_, callingFunctors_, quit_, functors_, running,
          counter, ready, other, calls, ran>>

LoopStates == {"init", "while", "poll", "handle", "swap", "call", "exit"}

TypeOK ==
    /\ pc \in LoopStates
    /\ activeChannels_ \subseteq Channels \cup {Wakeup}
    /\ callingFunctors_ \in BOOLEAN
    /\ quit_ \in BOOLEAN
    /\ functors_ \in Seq(Nat)
    /\ running \in Seq(Nat)
    /\ counter \in Nat
    /\ ready \subseteq Channels
    /\ other \in [Threads -> {"idle", "pushed", "quitting"}]
    /\ calls \in Nat
    /\ ran \in Seq(Nat)
    /\ callingFunctors_ <=> pc \in {"swap", "call"}
    /\ running # <<>> => pc = "call"
    /\ activeChannels_ # {} => pc = "handle"

Init ==
    /\ pc = "init"
    /\ activeChannels_ = {}
    /\ callingFunctors_ = FALSE
    /\ quit_ = FALSE
    /\ functors_ = <<>>
    /\ running = <<>>
    /\ counter = 0
    /\ ready = {}
    /\ other = [t \in Threads |-> "idle"]
    /\ calls = 0
    /\ ran = <<>>

----------------------------------------------------------------------------
(* The loop's thread.                                                      *)

\* loop() is entered: quit_ is cleared, whatever it was.
EnterLoop ==
    /\ pc = "init"
    /\ pc' = "while"
    /\ quit_' = FALSE
    /\ UNCHANGED <<activeChannels_, callingFunctors_, functors_, running,
                   counter, ready, other, calls, ran>>

\* Mutant: quit_ is cleared by every iteration instead of once by loop().
TestQuitClears ==
    /\ pc = "while"
    /\ pc' = "poll"
    /\ quit_' = FALSE
    /\ UNCHANGED <<activeChannels_, callingFunctors_, functors_, running,
                   counter, ready, other, calls, ran>>

\* while (!quit_)
TestQuit ==
    /\ pc = "while"
    /\ pc' = IF quit_ THEN "exit" ELSE "poll"
    /\ UNCHANGED <<activeChannels_, callingFunctors_, quit_, functors_, running,
                   counter, ready, other, calls, ran>>

Pollable == ready \cup (IF counter > 0 THEN {Wakeup} ELSE {})

\* epoll_wait (timeout -1) returns every level-triggered channel with an event.
Poll ==
    /\ pc = "poll"
    /\ Pollable # {}
    /\ activeChannels_' = Pollable
    /\ pc' = "handle"
    /\ UNCHANGED <<callingFunctors_, quit_, functors_, running, counter, ready,
                   other, calls, ran>>

\* epoll_wait is interrupted (EINTR): no channel is active, the loop goes on.
PollInterrupted ==
    /\ pc = "poll"
    /\ activeChannels_' = {}
    /\ pc' = "handle"
    /\ UNCHANGED <<callingFunctors_, quit_, functors_, running, counter, ready,
                   other, calls, ran>>

\* Mutant: the handler of another channel drains the eventfd.
HandleEventDrains(c) ==
    /\ pc = "handle"
    /\ c \in activeChannels_ \ {Wakeup}
    /\ activeChannels_' = activeChannels_ \ {c}
    /\ ready' = ready \ {c}
    /\ counter' = 0
    /\ UNCHANGED <<pc, callingFunctors_, quit_, functors_, running, other,
                   calls, ran>>

\* handleEvent of an I/O channel; what its handler does to this loop is a
\* QueueFromLoop or a QuitFromLoop.
HandleEvent(c) ==
    /\ pc = "handle"
    /\ c \in activeChannels_ \ {Wakeup}
    /\ activeChannels_' = activeChannels_ \ {c}
    /\ ready' = ready \ {c}
    /\ UNCHANGED <<pc, callingFunctors_, quit_, functors_, running, counter,
                   other, calls, ran>>

\* handleRead of the eventfd: one read takes the whole count.
HandleRead ==
    /\ pc = "handle"
    /\ Wakeup \in activeChannels_
    /\ activeChannels_' = activeChannels_ \ {Wakeup}
    /\ counter' = 0
    /\ UNCHANGED <<pc, callingFunctors_, quit_, functors_, running, ready,
                   other, calls, ran>>

\* The handlers are done: runFunctors raises callingFunctors_.
BeginFunctors ==
    /\ pc = "handle"
    /\ activeChannels_ = {}
    /\ callingFunctors_' = TRUE
    /\ pc' = "swap"
    /\ UNCHANGED <<activeChannels_, quit_, functors_, running, counter, ready,
                   other, calls, ran>>

\* functors.swap(functors_) under the mutex.
SwapFunctors ==
    /\ pc = "swap"
    /\ running' = functors_
    /\ functors_' = <<>>
    /\ pc' = "call"
    /\ UNCHANGED <<activeChannels_, callingFunctors_, quit_, counter, ready,
                   other, calls, ran>>

\* One functor is called.
CallFunctor ==
    /\ pc = "call"
    /\ running # <<>>
    /\ ran' = Append(ran, Head(running))
    /\ running' = Tail(running)
    /\ UNCHANGED <<pc, activeChannels_, callingFunctors_, quit_, functors_,
                   counter, ready, other, calls>>

\* Mutant: callingFunctors_ is not lowered again.
EndFunctorsForgets ==
    /\ pc = "call"
    /\ running = <<>>
    /\ pc' = "while"
    /\ UNCHANGED <<activeChannels_, callingFunctors_, quit_, functors_, running,
                   counter, ready, other, calls, ran>>

\* The last functor has returned.
EndFunctors ==
    /\ pc = "call"
    /\ running = <<>>
    /\ callingFunctors_' = FALSE
    /\ pc' = "while"
    /\ UNCHANGED <<activeChannels_, quit_, functors_, running, counter, ready,
                   other, calls, ran>>

\* Mutant: a functor queued by a functor does not wake the loop.
QueueFromLoopSilent ==
    /\ pc \in {"handle", "call"}
    /\ calls < MaxCalls
    /\ calls' = calls + 1
    /\ functors_' = Append(functors_, calls + 1)
    /\ UNCHANGED <<pc, activeChannels_, callingFunctors_, quit_, running,
                   counter, ready, other, ran>>

\* A handler or a functor queues a functor: only a call made while functors
\* run (they have been swapped out already) writes the eventfd.
QueueFromLoop ==
    /\ pc \in {"handle", "call"}
    /\ calls < MaxCalls
    /\ calls' = calls + 1
    /\ functors_' = Append(functors_, calls + 1)
    /\ counter' = IF callingFunctors_ THEN counter + 1 ELSE counter
    /\ UNCHANGED <<pc, activeChannels_, callingFunctors_, quit_, running, ready,
                   other, ran>>

\* A handler or a functor calls quit(): no wakeup is needed.
QuitFromLoop ==
    /\ pc \in {"handle", "call"}
    /\ calls < MaxCalls
    /\ calls' = calls + 1
    /\ quit_' = TRUE
    /\ UNCHANGED <<pc, activeChannels_, callingFunctors_, functors_, running,
                   counter, ready, other, ran>>

----------------------------------------------------------------------------
(* The other threads, and the descriptors.                                 *)

\* queueInLoop (or runInLoop) by another thread, first half: the push.
QueueInLoop(t) ==
    /\ other[t] = "idle"
    /\ calls < MaxCalls
    /\ calls' = calls + 1
    /\ functors_' = Append(functors_, calls + 1)
    /\ other' = [other EXCEPT ![t] = "pushed"]
    /\ UNCHANGED <<pc, activeChannels_, callingFunctors_, quit_, running,
                   counter, ready, ran>>

\* quit() by another thread, first half.
Quit(t) ==
    /\ other[t] = "idle"
    /\ calls < MaxCalls
    /\ calls' = calls + 1
    /\ quit_' = TRUE
    /\ other' = [other EXCEPT ![t] = "quitting"]
    /\ UNCHANGED <<pc, activeChannels_, callingFunctors_, functors_, running,
                   counter, ready, ran>>

\* Mutant: quit() does not wake the loop.
WriteWakeupNotForQuit(t) ==
    /\ other[t] # "idle"
    /\ counter' = IF other[t] = "pushed" THEN counter + 1 ELSE counter
    /\ other' = [other EXCEPT ![t] = "idle"]
    /\ UNCHANGED <<pc, activeChannels_, callingFunctors_, quit_, functors_,
                   running, ready, calls, ran>>

\* Mutant: no wakeup while functors run, as the loop is awake anyway.
WriteWakeupOptimised(t) ==
    /\ other[t] # "idle"
    /\ counter' = IF callingFunctors_ THEN counter ELSE counter + 1
    /\ other' = [other EXCEPT ![t] = "idle"]
    /\ UNCHANGED <<pc, activeChannels_, callingFunctors_, quit_, functors_,
                   running, ready, calls, ran>>

\* The second half of both: wakeup() adds one to the eventfd.
WriteWakeup(t) ==
    /\ other[t] # "idle"
    /\ counter' = counter + 1
    /\ other' = [other EXCEPT ![t] = "idle"]
    /\ UNCHANGED <<pc, activeChannels_, callingFunctors_, quit_, functors_,
                   running, ready, calls, ran>>

\* A descriptor gets an event (the kernel, a timer, a peer).
BecomeReady(c) ==
    /\ c \notin ready
    /\ ready' = ready \cup {c}
    /\ UNCHANGED <<pc, activeChannels_, callingFunctors_, quit_, functors_,
                   running, counter, other, calls, ran>>

----------------------------------------------------------------------------
\* The steps the loop's thread takes by itself.
LoopStep ==
    \/ EnterLoop
    \/ TestQuit
    \/ Poll
    \/ \E c \in Channels : HandleEvent(c)
    \/ HandleRead
    \/ BeginFunctors
    \/ SwapFunctors
    \/ CallFunctor
    \/ EndFunctors

Next ==
    \/ LoopStep
    \/ PollInterrupted
    \/ QueueFromLoop
    \/ QuitFromLoop
    \/ \E t \in Threads : QueueInLoop(t) \/ Quit(t) \/ WriteWakeup(t)
    \/ \E c \in Channels : BecomeReady(c)

\* The loop's thread is scheduled, epoll_wait returns once something is ready,
\* and handlers and functors return; a thread that has begun a call finishes
\* it.  No thread has to make a call, no descriptor to become ready.
Fairness ==
    /\ WF_vars(LoopStep)
    /\ \A t \in Threads : WF_vars(WriteWakeup(t))

Spec == Init /\ [][Next]_vars /\ Fairness

----------------------------------------------------------------------------
(* Properties.                                                             *)

\* A loop that is going to block, or is blocked, in epoll_wait while functors
\* are queued has an eventfd that will wake it: it is readable already, or a
\* thread that has pushed is about to write it.  (EventLoop.cpp:109: the
\* condition under which queueInLoop decides to call wakeup.)
NoLostFunctor ==
    pc \in {"init", "while", "poll", "call"} /\ functors_ # <<>> =>
        counter > 0 \/ \E t \in Threads : other[t] = "pushed"

\* A loop in epoll_wait that has been told to quit will be woken, or is going
\* to be: quit() of EventLoop.cpp:87 does not leave it asleep.
NoLostQuit ==
    pc = "poll" /\ quit_ =>
        counter > 0 \/ \E t \in Threads : other[t] = "quitting"

\* handleRead (EventLoop.cpp:142) never finds the eventfd empty: a descriptor
\* reported readable cannot be drained by anybody else before its handler.
WakeupReadable == Wakeup \in activeChannels_ => counter > 0

\* Every functor ever queued: those that have run, are running, still wait.
History == ran \o running \o functors_

\* The functors that have run, those that are running and those still queued
\* are, one after the other, in the order of the calls that queued them: no
\* functor is lost, run twice or overtaken (EventLoop.cpp:150-164).
InOrder ==
    \A i, j \in 1..Len(History) : i < j => History[i] < History[j]

\* The promise of TaskExecutor, with its liveness: a functor that is pending
\* in a loop that does not stop is eventually run, whatever thread queued it
\* and wherever the loop was at that moment.
Executor == INSTANCE TaskExecutor
    WITH Functors <- 1..MaxCalls, pending <- running \o functors_, ran <- ran,
         stopped <- (pc = "exit")

ExecutorSpec == Executor!Spec

\* The safety half of it: every step of the loop and of the threads is a step
\* of TaskExecutor, or leaves its variables alone.
ExecutorSafety == Executor!Init /\ [][Executor!Next]_(Executor!vars)
=============================================================================
