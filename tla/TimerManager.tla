---------------------------- MODULE TimerManager ----------------------------
(***************************************************************************)
(* TimerManager (net/TimerManager.cpp): the timers of one loop in a        *)
(* priority queue and one timerfd armed for the earliest of them.  Timers  *)
(* come from other threads through the loop's functor queue, or from a     *)
(* timer's callback.                                                       *)
(*                                                                         *)
(* Time is counted in ticks, which pass between any two steps.  A call that *)
(* arms the timerfd for a time that is not ahead does not arm it at all;    *)
(* late records that this has happened.                                     *)
(***************************************************************************)
EXTENDS Naturals, SequencesExt

CONSTANTS
    Delays,         \* delays and intervals that callers ask for
    MaxTimers,      \* bound: timers created
    MaxTime         \* bound: ticks

ASSUME TimeAssumption ==
    /\ Delays \subseteq Nat
    /\ MaxTimers \in Nat /\ MaxTime \in Nat

VARIABLES
    now,            \* steady_clock::now()
    timer,          \* the Timer objects by seq_: see TimerType
    timers,         \* timers_: those in the priority queue
    functors,       \* calls of other threads that the loop has not run yet
    armed,          \* when the timerfd will expire, 0 if it is disarmed
    readable,       \* BOOLEAN: it has expired and has not been read
    pc,             \* the loop: "idle", or in handleRead at "run"
    expired,        \* the timers handleRead took out of the queue, in order
    done,           \* how many of them have been run or skipped
    readTime,       \* the now of handleRead
    ran,            \* history: the timer run last by handleRead, 0 for none
    late            \* history: resetTimerFd was given a time that was over

vars == <<now, timer, timers, functors, armed, readable, pc, expired, done,
          readTime, ran, late>>

handling == <<pc, expired, done, readTime, ran>>

Timers == 1..MaxTimers

TimerType == [expiration : Nat, interval : Nat, deleted : BOOLEAN]

TypeOK ==
    /\ now \in 0..MaxTime
    /\ timer \in Seq(TimerType) /\ Len(timer) <= MaxTimers
    /\ timers \subseteq 1..Len(timer)
    /\ functors \in Seq([call : {"add", "cancel"}, id : Timers])
    /\ armed \in Nat
    /\ readable \in BOOLEAN
    /\ pc \in {"idle", "run"}
    /\ expired \in Seq(Timers)
    /\ done \in 0..Len(expired)
    /\ readTime \in 0..now
    /\ ran \in 0..MaxTimers
    /\ late \in BOOLEAN
    /\ \A i \in 1..Len(expired) : expired[i] \notin timers
    /\ readable => armed = 0

Init ==
    /\ now = 0
    /\ timer = <<>> /\ timers = {} /\ functors = <<>>
    /\ armed = 0 /\ readable = FALSE
    /\ pc = "idle" /\ expired = <<>> /\ done = 0 /\ readTime = 0
    /\ ran = 0 /\ late = FALSE

----------------------------------------------------------------------------
(* The queue and the timerfd.                                              *)

\* TimerCmp: by expiration, then by seq_.
Before(t, i, j) ==
    \/ t[i].expiration < t[j].expiration
    \/ t[i].expiration = t[j].expiration /\ i < j

Top(t, ts) == CHOOSE i \in ts : \A j \in ts : j = i \/ Before(t, i, j)

\* timerfd_settime for expiration - now: nothing to wait for disarms the
\* timer, a negative time is refused and leaves it as it is.
ResetTimerFd(expiration) ==
    /\ armed' = IF expiration > now THEN expiration
                ELSE IF expiration = now THEN 0 ELSE armed
    /\ readable' = IF expiration >= now THEN FALSE ELSE readable
    /\ late' = (late \/ expiration <= now)

KeepTimerFd == UNCHANGED <<armed, readable, late>>

\* Mutant: the timerfd is armed for the first timer only.
AddTimerInLoopOnce(i, t) ==
    /\ timer' = t
    /\ timers' = timers \cup {i}
    /\ IF timers = {} THEN ResetTimerFd(t[i].expiration) ELSE KeepTimerFd

\* addTimerInLoop and insert, of timer i of the timers t.
AddTimerInLoop(i, t) ==
    /\ timer' = t
    /\ timers' = timers \cup {i}
    /\ IF timers = {} \/ timer[Top(timer, timers)].expiration > t[i].expiration
       THEN ResetTimerFd(t[i].expiration)
       ELSE KeepTimerFd

NewTimer(delay, interval) ==
    [expiration |-> now + delay, interval |-> interval, deleted |-> FALSE]

\* The weak_ptr can be locked: somebody still holds the timer.
Alive(i) ==
    \/ i \in timers
    \/ Contains(expired, i)
    \/ Contains(functors, [call |-> "add", id |-> i])

CancelInLoop(i) ==
    /\ timer' = IF Alive(i) THEN [timer EXCEPT ![i].deleted = TRUE] ELSE timer
    /\ UNCHANGED timers
    /\ KeepTimerFd

----------------------------------------------------------------------------
(* Other threads: runAfter (no interval), runEvery, cancel.                *)

AddTimer(delay, interval) ==
    /\ Len(timer) < MaxTimers
    /\ timer' = Append(timer, NewTimer(delay, interval))
    /\ functors' = Append(functors, [call |-> "add", id |-> Len(timer')])
    /\ KeepTimerFd
    /\ UNCHANGED <<now, timers, handling>>

\* To cancel a timer twice, or after its end, changes nothing.
Cancel(i) ==
    /\ i \in 1..Len(timer)
    /\ Alive(i) /\ ~timer[i].deleted
    /\ ~Contains(functors, [call |-> "cancel", id |-> i])
    /\ functors' = Append(functors, [call |-> "cancel", id |-> i])
    /\ KeepTimerFd
    /\ UNCHANGED <<now, timer, timers, handling>>

----------------------------------------------------------------------------
(* The loop.                                                               *)

RunFunctor ==
    /\ pc = "idle"
    /\ functors # <<>>
    /\ functors' = Tail(functors)
    /\ LET f == Head(functors)
       IN  IF f.call = "add" THEN AddTimerInLoop(f.id, timer) ELSE CancelInLoop(f.id)
    /\ UNCHANGED <<now, handling>>

Due == {i \in timers : timer[i].expiration <= now}

Sorted(ts) ==
    CHOOSE s \in SetToSeqs(ts) :
        \A i, j \in DOMAIN s : i < j => Before(timer, s[i], s[j])

Live(ts) == {i \in ts : ~timer[i].deleted}

\* Mutant: the expired timers in the order of their creation.
GetExpiredUnordered ==
    /\ timers' = timers \ Due
    /\ expired' = SetToSortSeq(Live(Due), LAMBDA i, j : i < j)

GetExpired ==
    /\ timers' = timers \ Due
    /\ expired' = Sorted(Live(Due))

\* handleRead up to getExpired.
HandleRead ==
    /\ pc = "idle"
    /\ readable
    /\ readable' = FALSE
    /\ readTime' = now
    /\ GetExpired
    /\ done' = 0
    /\ pc' = "run"
    /\ UNCHANGED <<now, timer, functors, armed, ran, late>>

\* A timer that has not been cancelled since is run.  Its callback adds a
\* timer, cancels one, or does neither.
Run ==
    /\ pc = "run"
    /\ done < Len(expired)
    /\ done' = done + 1
    /\ LET i == expired[done + 1]
       IN  IF timer[i].deleted
           THEN UNCHANGED <<timer, timers, armed, readable, late, ran>>
           ELSE /\ ran' = i
                /\ \/ UNCHANGED <<timer, timers, armed, readable, late>>
                   \/ \E d \in Delays, r \in BOOLEAN :
                        /\ Len(timer) < MaxTimers
                        /\ AddTimerInLoop(Len(timer) + 1,
                                          Append(timer, NewTimer(d, IF r THEN d ELSE 0)))
                   \/ \E j \in 1..Len(timer) : CancelInLoop(j)
    /\ UNCHANGED <<now, functors, pc, expired, readTime>>

\* restart and insert for the repeating timers that are still wanted.
Restarted == {i \in ToSet(expired) : timer[i].interval > 0 /\ ~timer[i].deleted}

Restart ==
    [i \in 1..Len(timer) |->
        IF i \in Restarted
        THEN [timer[i] EXCEPT !.expiration = readTime + timer[i].interval]
        ELSE timer[i]]

\* Mutant: the timerfd is left alone.
ResetNoArm ==
    /\ pc = "run" /\ done = Len(expired)
    /\ timer' = Restart
    /\ timers' = timers \cup Restarted
    /\ KeepTimerFd
    /\ pc' = "idle" /\ expired' = <<>> /\ done' = 0 /\ readTime' = 0 /\ ran' = 0
    /\ UNCHANGED <<now, functors>>

\* reset: the repeating timers return to the queue, cancelled ones leave it
\* until one that is wanted is on top, and the timerfd is armed for that one.
Reset ==
    /\ pc = "run" /\ done = Len(expired)
    /\ timer' = Restart
    /\ LET all    == timers \cup Restarted
           wanted == {i \in all : ~Restart[i].deleted}
           first  == Top(Restart, wanted)
       IN  IF wanted = {}
           THEN timers' = {} /\ KeepTimerFd
           ELSE /\ timers' = {i \in all : i = first \/ Before(Restart, first, i)}
                /\ ResetTimerFd(Restart[first].expiration)
    /\ pc' = "idle" /\ expired' = <<>> /\ done' = 0 /\ readTime' = 0 /\ ran' = 0
    /\ UNCHANGED <<now, functors>>

----------------------------------------------------------------------------
(* Time.                                                                   *)

Tick ==
    /\ now < MaxTime
    /\ now' = now + 1
    /\ IF armed # 0 /\ armed <= now'
       THEN readable' = TRUE /\ armed' = 0 /\ UNCHANGED late
       ELSE KeepTimerFd
    /\ UNCHANGED <<timer, timers, functors, handling>>

----------------------------------------------------------------------------
LoopStep == RunFunctor \/ HandleRead \/ Run \/ Reset

Next ==
    \/ LoopStep
    \/ \E d \in Delays, r \in BOOLEAN : AddTimer(d, IF r THEN d ELSE 0)
    \/ \E i \in Timers : Cancel(i)
    \/ Tick

\* The loop handles what is readable and queued (EventLoop); time passes.
Fairness == WF_vars(LoopStep) /\ WF_vars(Tick)

Spec == Init /\ [][Next]_vars /\ Fairness

----------------------------------------------------------------------------
(* Properties.                                                             *)

\* When the loop is not at work on the timers, the timerfd has expired or will
\* expire no later than the first timer that is queued: across insertions in
\* front of it, cancellations of it and callbacks that do either.
ArmedForFirst ==
    pc = "idle" /\ ~late /\ Live(timers) # {} =>
        readable \/ (armed # 0 /\ armed <= timer[Top(timer, Live(timers))].expiration)

\* A timer that runs is due, has left the queue and was not cancelled, even by a
\* callback before it in the same round; and no timer that is still to run comes
\* before it.
RunsDue ==
    [][ran' \notin {0, ran} =>
          /\ timer[ran'].expiration <= now
          /\ ran' \notin timers
          /\ ~timer[ran'].deleted
          /\ \A i \in Live(timers) \cup {expired[k] : k \in done'..Len(expired)} :
                i = ran' \/ Before(timer, ran', i)]_vars

\* Each expiration is served: the timer leaves the queue for its callback or
\* is cancelled.
EveryTimerServed ==
    \A i \in Timers : \A e \in 0..MaxTime :
        (i \in timers /\ timer[i].expiration = e) ~>
            (i \notin timers \/ timer[i].expiration # e \/ timer[i].deleted \/ late)
=============================================================================
