-------------------------- MODULE EventLoopThread --------------------------
(***************************************************************************)
(* A thread with an EventLoop of its own (net/EventLoopThread.cpp, on      *)
(* base/Thread.cpp).  The owner, EventLoopThreadPool::start, creates the   *)
(* thread and waits until it has published its loop; the pointer it gets   *)
(* goes to the users of the pool, the Threads of EventLoop.  The loop is a *)
(* local variable of threadFunc: it is gone when loop() has returned,      *)
(* whoever still holds the pointer.                                        *)
(*                                                                         *)
(* The destructors are not modelled: ~EventLoopThread calls quit, as any   *)
(* user may, and then ~Thread, which does not join a thread that is        *)
(* joinable (Thread.cpp:74), ends the process.                             *)
(***************************************************************************)
EXTENDS EventLoop

VARIABLES
    owner,      \* where startLoop is
    thread,     \* where the new thread is around loop()
    loop_,      \* BOOLEAN: loop_ points to the loop, not null
    given,      \* what startLoop has returned
    dangling    \* history: somebody has used the loop after its end

threadVars == <<owner, thread, loop_, given, dangling>>
allVars == <<vars, threadVars>>

ThreadTypeOK ==
    /\ TypeOK
    /\ owner \in {"new", "latch", "waiting", "blocked", "returning", "has"}
    /\ thread \in {"none", "created", "running", "published", "cleared", "ended"}
    /\ loop_ \in BOOLEAN
    /\ given \in {"none", "null", "loop"}
    /\ dangling \in BOOLEAN
    /\ owner = "new" <=> thread = "none"
    /\ loop_ <=> thread = "published"
    /\ given # "none" <=> owner = "has"
    /\ pc # "init" => thread \in {"published", "cleared", "ended"}

ThreadInit ==
    /\ Init
    /\ owner = "new"
    /\ thread = "none"
    /\ loop_ = FALSE
    /\ given = "none"
    /\ dangling = FALSE

----------------------------------------------------------------------------
(* startLoop, in the owner's thread.                                       *)

\* Thread::start creates the thread and waits for its latch.
Start ==
    /\ owner = "new"
    /\ owner' = "latch"
    /\ thread' = "created"
    /\ UNCHANGED <<vars, loop_, given, dangling>>

PassLatch ==
    /\ owner = "latch"
    /\ thread # "created"
    /\ owner' = "waiting"
    /\ UNCHANGED <<vars, thread, loop_, given, dangling>>

\* Mutant: a wait without a predicate, which trusts whatever wakes it.
TestLoopOnce ==
    /\ owner = "waiting"
    /\ owner' \in {"blocked", "returning"}
    /\ UNCHANGED <<vars, thread, loop_, given, dangling>>

\* The predicate of cond_.wait, with mutex_ held: at first, and after every
\* wakeup.
TestLoop ==
    /\ owner = "waiting"
    /\ owner' = IF loop_ THEN "returning" ELSE "blocked"
    /\ UNCHANGED <<vars, thread, loop_, given, dangling>>

SpuriousWake ==
    /\ owner = "blocked"
    /\ owner' = "waiting"
    /\ UNCHANGED <<vars, thread, loop_, given, dangling>>

\* return loop_: mutex_ has been released, the thread may be anywhere by now.
ReturnLoop ==
    /\ owner = "returning"
    /\ owner' = "has"
    /\ given' = IF loop_ THEN "loop" ELSE "null"
    /\ UNCHANGED <<vars, thread, loop_, dangling>>

----------------------------------------------------------------------------
(* threadFunc, in the new thread.                                          *)

\* runInThread counts the latch down before it calls threadFunc.
RunInThread ==
    /\ thread = "created"
    /\ thread' = "running"
    /\ UNCHANGED <<vars, owner, loop_, given, dangling>>

\* Mutant: the owner is not notified.
PublishSilently ==
    /\ thread = "running"
    /\ thread' = "published"
    /\ loop_' = TRUE
    /\ UNCHANGED <<vars, owner, given, dangling>>

\* The loop is there and callback_ has been called: loop_ and notify_one.
Publish ==
    /\ thread = "running"
    /\ thread' = "published"
    /\ loop_' = TRUE
    /\ owner' = IF owner = "blocked" THEN "waiting" ELSE owner
    /\ UNCHANGED <<vars, given, dangling>>

\* loop(), and what its handlers and functors do to it.
InLoop ==
    /\ thread = "published"
    /\ LoopStep
    /\ UNCHANGED threadVars

Callback ==
    /\ thread = "published"
    /\ PollInterrupted \/ QueueFromLoop \/ QuitFromLoop
    /\ UNCHANGED threadVars

\* loop() has returned: loop_ = nullptr.
Clear ==
    /\ thread = "published"
    /\ pc = "exit"
    /\ thread' = "cleared"
    /\ loop_' = FALSE
    /\ UNCHANGED <<vars, owner, given, dangling>>

\* The end of threadFunc destroys the loop.
End ==
    /\ thread = "cleared"
    /\ thread' = "ended"
    /\ UNCHANGED <<vars, owner, loop_, given, dangling>>

----------------------------------------------------------------------------
(* The users of the pointer.                                               *)

Begin(t) ==
    /\ given = "loop"
    /\ thread # "ended"
    /\ QueueInLoop(t) \/ Quit(t)
    /\ UNCHANGED threadVars

Finish(t) ==
    /\ thread # "ended"
    /\ WriteWakeup(t)
    /\ UNCHANGED threadVars

\* A call that begins, or goes on, after the end of the loop; what it does to
\* the memory the loop has left is not followed.
UseAfterEnd ==
    /\ given = "loop"
    /\ thread = "ended"
    /\ dangling' = TRUE
    /\ UNCHANGED <<vars, owner, thread, loop_, given>>

Event(c) ==
    /\ thread = "published"
    /\ BecomeReady(c)
    /\ UNCHANGED threadVars

----------------------------------------------------------------------------
OwnerStep == Start \/ PassLatch \/ TestLoop \/ ReturnLoop

ThreadStep == RunInThread \/ Publish \/ InLoop \/ Clear \/ End

ThreadNext ==
    \/ OwnerStep
    \/ SpuriousWake
    \/ ThreadStep
    \/ Callback
    \/ \E t \in Threads : Begin(t) \/ Finish(t)
    \/ UseAfterEnd
    \/ \E c \in Channels : Event(c)

\* Fairness of EventLoop, and of the two threads around loop().  Nobody wakes
\* a condition variable that is not notified.
ThreadFairness ==
    /\ WF_allVars(OwnerStep)
    /\ WF_allVars(ThreadStep)
    /\ \A t \in Threads : WF_allVars(Finish(t))

ThreadSpec == ThreadInit /\ [][ThreadNext]_allVars /\ ThreadFairness

----------------------------------------------------------------------------
(* Properties.                                                             *)

\* startLoop returns the loop and never null, and the loop is there as long as
\* nobody has told it to quit: the unlocked read of loop_ (line 36) and every
\* pointer EventLoopThreadPool keeps rely on it.
PointerGood == given = "null" \/ dangling => quit_

\* startLoop returns: the notification does not fall between its test of loop_
\* and its wait (EventLoopThread.cpp:33-35, 48-50).  The exception is a loop
\* that a callback of its own quits first: loop_ is null again by then, and
\* startLoop waits for ever.
StartReturns == (owner # "new") ~> (owner = "has" \/ quit_)

\* A quit() that reaches a loop which is looping ends its thread; one that is
\* made after startLoop has returned and before loop() is entered is lost,
\* EventLoop.cpp:69 clears it.
QuitEndsThread == (quit_ /\ pc # "init") ~> (thread = "ended")
=============================================================================
