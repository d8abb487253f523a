------------------------ MODULE TimerManagerProofs ------------------------
(***************************************************************************)
(* What holds of a TimerManager for any delays and any number of timers:   *)
(* the types, the timerfd armed for the first timer of the queue, and that *)
(* timers run when due, in order, and not after they have been cancelled.  *)
(* The order of TimerCmp needs two facts that the code takes from the      *)
(* library: a least element, and a sorting of any finite set of timers.    *)
(***************************************************************************)
EXTENDS TimerManager, FunctionTheorems, FiniteSetTheorems, SequenceTheorems,
        WellFoundedInduction, TLAPS

\* What other threads leave for the loop.
Calls == [call : {"add", "cancel"}, id : Timers]

\* Between two rounds nothing of the last one is left.
Idle == pc = "idle" => expired = <<>> /\ done = 0 /\ ran = 0 /\ readTime = 0

\* Every timer that somebody speaks of has been created.
Known ==
    /\ \A k \in 1..Len(functors) : functors[k].id <= Len(timer)
    /\ \A k \in 1..Len(expired) : expired[k] <= Len(timer)

\* ArmedForFirst of every timer of the queue: addTimerInLoop compares a new
\* timer with the top of the queue, which may be one that has been cancelled.
ArmedForAll ==
    pc = "idle" /\ ~late =>
        \A i \in timers : readable \/ (armed # 0 /\ armed <= timer[i].expiration)

\* The expired timers are in order, over at the time of handleRead, and before
\* every timer of the queue, those included that callbacks have added since.
InOrder ==
    \A k \in 1..Len(expired) :
        /\ timer[expired[k]].expiration <= readTime
        /\ \A m \in 1..Len(expired) : k < m => Before(timer, expired[k], expired[m])
        /\ \A i \in timers : Before(timer, expired[k], i)

IInv == TypeOK /\ Idle /\ Known /\ ArmedForAll /\ InOrder

-----------------------------------------------------------------------------
(* The order of the queue.                                                  *)

\* A nonempty set of numbers has a least one.
LEMMA LeastNumber ==
    ASSUME NEW S \in SUBSET Nat, S # {}
    PROVE  \E m \in S : \A n \in S : m <= n
<1>1. PICK m \in S : \A n \in S : ~(<<n, m>> \in OpToRel(<, Nat))
  BY NatLessThanWellFounded, WFMin
<1>2. \A n \in S : m <= n
  <2> SUFFICES ASSUME NEW n \in S, n < m PROVE FALSE
    OBVIOUS
  <2>1. <<n, m>> \in OpToRel(<, Nat)
    BY DEF OpToRel
  <2> QED
    BY <1>1, <2>1
<1> QED
  BY <1>2

\* The parts of a timer.
LEMMA TimerParts ==
    ASSUME NEW t \in Seq(TimerType), NEW i \in 1..Len(t)
    PROVE  /\ t[i] \in TimerType
           /\ t[i].expiration \in Nat /\ t[i].interval \in Nat
           /\ t[i].deleted \in BOOLEAN
<1>1. t[i] \in TimerType
  OBVIOUS
<1> QED
  BY <1>1 DEF TimerType

\* TimerCmp is a strict linear order of the timers.
LEMMA BeforeIsOrder ==
    ASSUME NEW t \in Seq(TimerType)
    PROVE  /\ \A i \in 1..Len(t) : ~Before(t, i, i)
           /\ \A i, j \in 1..Len(t) : i # j => Before(t, i, j) \/ Before(t, j, i)
           /\ \A i, j, k \in 1..Len(t) :
                 Before(t, i, j) /\ Before(t, j, k) => Before(t, i, k)
<1>1. \A i \in 1..Len(t) : t[i].expiration \in Nat
  BY TimerParts
<1> QED
  BY <1>1 DEF Before

\* The queue has a top unless it is empty.
LEMMA TopIsFirst ==
    ASSUME NEW t \in Seq(TimerType), NEW ts \in SUBSET (1..Len(t)), ts # {}
    PROVE  /\ Top(t, ts) \in ts
           /\ \A j \in ts : j = Top(t, ts) \/ Before(t, Top(t, ts), j)
           /\ \A j \in ts : t[Top(t, ts)].expiration <= t[j].expiration
<1> DEFINE Times == {t[i].expiration : i \in ts}
<1>1. \A i \in ts : t[i].expiration \in Nat
  BY TimerParts
<1>2. PICK e \in Times : \A f \in Times : e <= f
  <2>1. Times \in SUBSET Nat /\ Times # {}
    BY <1>1
  <2> HIDE DEF Times
  <2> QED
    BY <2>1, LeastNumber
<1> DEFINE Early == {i \in ts : t[i].expiration = e}
<1>3. PICK first \in Early : \A i \in Early : first <= i
  <2>1. PICK x \in ts : t[x].expiration = e
    BY <1>2
  <2>2. Early # {}
    BY <2>1
  <2>3. Early \in SUBSET Nat
    OBVIOUS
  <2> HIDE DEF Early
  <2> QED
    BY <2>2, <2>3, LeastNumber
<1>4. \A j \in ts : j = first \/ Before(t, first, j)
  <2> SUFFICES ASSUME NEW j \in ts PROVE j = first \/ Before(t, first, j)
    OBVIOUS
  <2>1. t[j].expiration \in Nat /\ e <= t[j].expiration
    BY <1>1, <1>2
  <2>2. /\ first \in ts /\ t[first].expiration = e /\ e \in Nat
        /\ first \in Nat /\ j \in Nat
    BY <1>1, <1>3
  <2>3. t[j].expiration = e => first <= j
    BY <1>3
  <2> QED
    BY <2>1, <2>2, <2>3 DEF Before
<1>5. /\ Top(t, ts) \in ts
      /\ \A j \in ts : j = Top(t, ts) \/ Before(t, Top(t, ts), j)
  <2>1. first \in ts
    BY <1>3
  <2> HIDE DEF Times, Early
  <2> QED
    BY <1>4, <2>1 DEF Top
<1>6. \A j \in ts : t[Top(t, ts)].expiration <= t[j].expiration
  <2> SUFFICES ASSUME NEW j \in ts
               PROVE  t[Top(t, ts)].expiration <= t[j].expiration
    OBVIOUS
  <2>1. PICK top \in ts : top = Top(t, ts)
    BY <1>5
  <2>2. t[top].expiration \in Nat /\ t[j].expiration \in Nat
    BY <1>1
  <2>3. j = top \/ Before(t, top, j)
    BY <1>5, <2>1
  <2>4. t[top].expiration <= t[j].expiration
    BY <2>2, <2>3 DEF Before
  <2> QED
    BY <2>1, <2>4
<1> QED
  BY <1>5, <1>6

\* Every set of timers can be put in order: each goes behind as many as come
\* before it.
LEMMA CanBeSorted ==
    ASSUME NEW t \in Seq(TimerType), NEW ts \in SUBSET (1..Len(t))
    PROVE  \E s \in SetToSeqs(ts) :
               \A i, j \in DOMAIN s : i < j => Before(t, s[i], s[j])
<1> DEFINE n == Cardinality(ts)
           Earlier(x) == {y \in ts : Before(t, y, x)}
           rank == [x \in ts |-> Cardinality(Earlier(x)) + 1]
<1>1. IsFiniteSet(ts) /\ n \in Nat
  <2>1. IsFiniteSet(1..Len(t))
    BY FS_Interval
  <2> QED
    BY <2>1, FS_Subset, FS_CardinalityType
<1>2. \A x \in ts : /\ IsFiniteSet(Earlier(x))
                    /\ Cardinality(Earlier(x)) \in Nat
                    /\ Cardinality(Earlier(x)) < n
  <2> SUFFICES ASSUME NEW x \in ts
               PROVE  /\ IsFiniteSet(Earlier(x))
                      /\ Cardinality(Earlier(x)) \in Nat
                      /\ Cardinality(Earlier(x)) < n
    OBVIOUS
  <2>1. x \notin Earlier(x) /\ Earlier(x) \in SUBSET ts
    BY BeforeIsOrder
  <2>2. /\ IsFiniteSet(Earlier(x)) /\ Cardinality(Earlier(x)) <= n
        /\ n = Cardinality(Earlier(x)) => ts = Earlier(x)
    BY <1>1, <2>1, FS_Subset
  <2>3. Cardinality(Earlier(x)) \in Nat
    BY <2>2, FS_CardinalityType
  <2> HIDE DEF Earlier, n
  <2> QED
    BY <1>1, <2>1, <2>2, <2>3
<1>3. \A x, y \in ts : Before(t, x, y) => rank[x] < rank[y]
  <2> SUFFICES ASSUME NEW x \in ts, NEW y \in ts, Before(t, x, y)
               PROVE  rank[x] < rank[y]
    OBVIOUS
  <2>1. Earlier(x) \in SUBSET Earlier(y)
    BY BeforeIsOrder
  <2>2. x \in Earlier(y) /\ x \notin Earlier(x)
    BY BeforeIsOrder
  <2>3. /\ Cardinality(Earlier(x)) <= Cardinality(Earlier(y))
        /\ Cardinality(Earlier(y)) = Cardinality(Earlier(x)) => Earlier(y) = Earlier(x)
    BY <1>2, <2>1, FS_Subset
  <2>4. rank[x] = Cardinality(Earlier(x)) + 1 /\ rank[y] = Cardinality(Earlier(y)) + 1
    OBVIOUS
  <2> HIDE DEF Earlier, rank, n
  <2>5. Cardinality(Earlier(x)) \in Nat /\ Cardinality(Earlier(y)) \in Nat
    BY <1>2
  <2> QED
    BY <2>2, <2>3, <2>4, <2>5
<1>4. rank \in [ts -> 1..n]
  <2>1. \A x \in ts : Cardinality(Earlier(x)) + 1 \in 1..n
    <3> SUFFICES ASSUME NEW x \in ts
                 PROVE  Cardinality(Earlier(x)) + 1 \in 1..n
      OBVIOUS
    <3>1. Cardinality(Earlier(x)) \in Nat /\ Cardinality(Earlier(x)) < n
      BY <1>2
    <3> HIDE DEF Earlier, n
    <3> QED
      BY <1>1, <3>1
  <2> HIDE DEF Earlier, n
  <2> QED
    BY <2>1
<1>5. \A x, y \in ts : rank[x] = rank[y] => x = y
  <2>1. \A x \in ts : rank[x] \in Int
    <3> HIDE DEF rank, n
    <3> QED
      BY <1>1, <1>4
  <2>2. \A x, y \in ts : x = y \/ Before(t, x, y) \/ Before(t, y, x)
    BY BeforeIsOrder
  <2> HIDE DEF rank
  <2> QED
    BY <1>3, <2>1, <2>2
<1> HIDE DEF rank
<1>6. rank \in Bijection(ts, 1..n)
  <2>1. rank \in Injection(ts, 1..n)
    BY <1>4, <1>5, Fun_IsInj
  <2>2. IsFiniteSet(1..n) /\ Cardinality(1..n) = n
    <3> HIDE DEF n
    <3>1. n = IF 1 > n THEN 0 ELSE n - 1 + 1
      BY <1>1
    <3> QED
      BY <1>1, <3>1, FS_Interval
  <2>3. rank \in Surjection(ts, 1..n)
    <3> HIDE DEF n
    <3>1. Cardinality(ts) = Cardinality(1..n)
      BY <2>2 DEF n
    <3> QED
      BY <2>1, <2>2, <3>1, FS_Injection
  <2> QED
    BY <2>1, <2>3, Fun_IsBij
<1> DEFINE s == Inverse(rank, ts, 1..n)
<1>7. s \in Bijection(1..n, ts) /\ \A x \in ts : s[rank[x]] = x
  BY <1>6, Fun_BijInverse
<1> HIDE DEF s, n
<1>8. s \in [1..n -> ts] /\ \A i, j \in 1..n : s[i] = s[j] => i = j
  BY <1>7, Fun_BijectionProperties
<1>9. \A i \in 1..n : rank[s[i]] = i
  <2>1. \A i \in 1..n : \E x \in ts : rank[x] = i
    <3>1. rank \in Surjection(ts, 1..n)
      BY <1>6 DEF Bijection
    <3> QED
      BY <3>1 DEF Surjection
  <2> QED
    BY <1>7, <2>1
<1>10. \A i, j \in 1..n : i < j => Before(t, s[i], s[j])
  <2> SUFFICES ASSUME NEW i \in 1..n, NEW j \in 1..n, i < j, ~Before(t, s[i], s[j])
               PROVE  FALSE
    OBVIOUS
  <2>1. s[i] \in ts /\ s[j] \in ts /\ rank[s[i]] = i /\ rank[s[j]] = j
    BY <1>8, <1>9
  <2>2. s[i] # s[j]
    BY <1>8
  <2>3. Before(t, s[j], s[i])
    BY <2>1, <2>2, BeforeIsOrder
  <2>4. j < i
    BY <2>1, <2>3, <1>3
  <2> QED
    BY <1>1, <2>4
<1> QED
  <2>1. s \in SetToSeqs(ts)
    BY <1>8 DEF SetToSeqs, n
  <2>2. DOMAIN s = 1..n
    BY <1>8
  <2> QED
    BY <1>10, <2>1, <2>2

\* What getExpired returns: the timers that were due, each once, in order.
LEMMA SortedIsOrdered ==
    ASSUME timer \in Seq(TimerType), NEW ts \in SUBSET (1..Len(timer))
    PROVE  /\ Sorted(ts) \in Seq(ts)
           /\ \A i, j \in 1..Len(Sorted(ts)) :
                 i < j => Before(timer, Sorted(ts)[i], Sorted(ts)[j])
<1>1. /\ Sorted(ts) \in SetToSeqs(ts)
      /\ \A i, j \in DOMAIN Sorted(ts) :
            i < j => Before(timer, Sorted(ts)[i], Sorted(ts)[j])
  BY CanBeSorted DEF Sorted
<1>2. Sorted(ts) \in [1..Cardinality(ts) -> ts] /\ Cardinality(ts) \in Nat
  <2>1. IsFiniteSet(1..Len(timer))
    BY FS_Interval
  <2>2. Cardinality(ts) \in Nat
    BY <2>1, FS_Subset, FS_CardinalityType
  <2> QED
    BY <1>1, <2>2 DEF SetToSeqs
<1>3. Sorted(ts) \in Seq(ts)
  BY <1>2
<1> QED
  BY <1>1, <1>3

-----------------------------------------------------------------------------
(* The timerfd and the queue, operation by operation.                       *)

\* The timers t go on in u: some may be new, none has another expiration.
SameTimes(t, u) ==
    /\ u \in Seq(TimerType) /\ Len(t) <= Len(u)
    /\ \A i \in 1..Len(t) : u[i].expiration = t[i].expiration

\* resetTimerFd arms the timerfd, unless that is where late becomes TRUE.
LEMMA ResetArms ==
    ASSUME NEW e \in Nat, ResetTimerFd(e), now \in Nat, armed \in Nat,
           readable \in BOOLEAN, late \in BOOLEAN, readable => armed = 0
    PROVE  /\ armed' \in Nat /\ readable' \in BOOLEAN /\ late' \in BOOLEAN
           /\ readable' => armed' = 0
           /\ ~late' => armed' = e /\ e # 0
<1>1. late' \in BOOLEAN /\ (late' <=> late \/ e <= now)
  <2>1. late' = (late \/ e <= now)
    BY DEF ResetTimerFd
  <2> QED
    BY <2>1
<1>2. readable' \in BOOLEAN /\ (readable' <=> e < now /\ readable)
  <2>1. CASE e >= now
    BY <2>1 DEF ResetTimerFd
  <2>2. CASE e < now
    <3>1. ~(e >= now)
      BY <2>2
    <3>2. readable' = readable
      BY <3>1, Zenon DEF ResetTimerFd
    <3> QED
      BY <2>2, <3>2
  <2> QED
    BY <2>1, <2>2
<1>3. armed' = IF e > now THEN e ELSE IF e = now THEN 0 ELSE armed
  BY DEF ResetTimerFd
<1>4. armed' \in Nat
  BY <1>3
<1>5. readable' => armed' = 0
  BY <1>2, <1>3
<1>6. ~late' => armed' = e /\ e # 0
  BY <1>1, <1>3
<1> QED
  BY <1>1, <1>2, <1>4, <1>5, <1>6

\* addTimerInLoop keeps the timerfd armed for everything in the queue.
LEMMA AddIsArmed ==
    ASSUME IInv, NEW t, SameTimes(timer, t), NEW i \in 1..Len(t), AddTimerInLoop(i, t)
    PROVE  /\ timer' = t /\ timers' = timers \cup {i}
           /\ armed' \in Nat /\ readable' \in BOOLEAN /\ late' \in BOOLEAN
           /\ readable' => armed' = 0
           /\ pc = "idle" /\ ~late' =>
                \A j \in timers' : \/ readable'
                                   \/ armed' # 0 /\ armed' <= t[j].expiration
<1> DEFINE e == t[i].expiration
<1>1. /\ timer \in Seq(TimerType) /\ timers \in SUBSET (1..Len(timer)) /\ now \in Nat
      /\ armed \in Nat /\ readable \in BOOLEAN /\ late \in BOOLEAN
      /\ readable => armed = 0
  BY TimeAssumption DEF IInv, TypeOK
<1>2. timer' = t /\ timers' = timers \cup {i}
  BY DEF AddTimerInLoop
<1>3. e \in Nat /\ \A j \in timers : /\ j \in 1..Len(t)
                                     /\ t[j].expiration = timer[j].expiration
                                     /\ timer[j].expiration \in Nat
  BY <1>1, TimerParts DEF SameTimes
<1>4. CASE ResetTimerFd(e) /\ \A j \in timers : e <= timer[j].expiration
  <2> HIDE DEF e
  <2>1. /\ armed' \in Nat /\ readable' \in BOOLEAN /\ late' \in BOOLEAN
        /\ readable' => armed' = 0
        /\ ~late' => armed' = e /\ e # 0
    BY <1>1, <1>3, <1>4, ResetArms
  <2>2. ~late' => armed' = e /\ e # 0
    BY <2>1
  <2>3. ~late' => \A j \in timers' : armed' # 0 /\ armed' <= t[j].expiration
    BY <1>2, <1>3, <1>4, <2>2 DEF e
  <2> QED
    BY <1>2, <2>1, <2>3
<1>5. CASE /\ KeepTimerFd /\ timers # {}
           /\ ~(timer[Top(timer, timers)].expiration > e)
  <2>1. PICK top \in timers : top = Top(timer, timers)
    BY <1>1, <1>5, TopIsFirst
  <2>2. timer[top].expiration <= e
    BY <1>3, <1>5, <2>1
  <2>3. pc = "idle" /\ ~late =>
          \A j \in timers : readable \/ (armed # 0 /\ armed <= timer[j].expiration)
    BY DEF IInv, ArmedForAll
  <2>4. pc = "idle" /\ ~late =>
          \A j \in timers' : readable \/ (armed # 0 /\ armed <= t[j].expiration)
    BY <1>1, <1>2, <1>3, <2>1, <2>2, <2>3
  <2> QED
    BY <1>1, <1>2, <1>5, <2>4 DEF KeepTimerFd
<1>6. \/ ResetTimerFd(e) /\ \A j \in timers : e <= timer[j].expiration
      \/ /\ KeepTimerFd /\ timers # {}
         /\ ~(timer[Top(timer, timers)].expiration > e)
  <2>1. CASE timers = {}
    BY <2>1 DEF AddTimerInLoop
  <2>2. CASE timers # {} /\ timer[Top(timer, timers)].expiration > e
    <3>1. PICK top \in timers : /\ top = Top(timer, timers)
                                /\ \A j \in timers : timer[top].expiration <= timer[j].expiration
      BY <1>1, <2>2, TopIsFirst
    <3>2. \A j \in timers : e <= timer[j].expiration
      BY <1>3, <2>2, <3>1
    <3> QED
      BY <2>2, <3>2 DEF AddTimerInLoop
  <2>3. CASE timers # {} /\ ~(timer[Top(timer, timers)].expiration > e)
    BY <2>3 DEF AddTimerInLoop
  <2> QED
    BY <2>1, <2>2, <2>3
<1> QED
  BY <1>4, <1>5, <1>6

\* A cancellation marks a timer, if anyone has it still.
LEMMA CancelKeepsTimes ==
    ASSUME IInv, NEW i \in 1..Len(timer), CancelInLoop(i)
    PROVE  /\ SameTimes(timer, timer') /\ Len(timer') = Len(timer)
           /\ UNCHANGED <<timers, armed, readable, late>>
<1>1. timer \in Seq(TimerType)
  BY DEF IInv, TypeOK
<1>2. timer[i] \in TimerType
  BY <1>1
<1>3. [timer[i] EXCEPT !.deleted = TRUE] \in TimerType
  BY <1>2 DEF TimerType
<1>4. [timer[i] EXCEPT !.deleted = TRUE].expiration = timer[i].expiration
  BY <1>2 DEF TimerType
<1>5. CASE timer' = [timer EXCEPT ![i].deleted = TRUE]
  <2>1. PICK x \in TimerType : /\ x = [timer[i] EXCEPT !.deleted = TRUE]
                               /\ x.expiration = timer[i].expiration
    BY <1>3, <1>4
  <2>2. timer' = [timer EXCEPT ![i] = x]
    BY <1>5, <2>1
  <2>3. timer' \in Seq(TimerType) /\ Len(timer') = Len(timer)
    BY <1>1, <2>2
  <2>4. \A j \in 1..Len(timer) : timer'[j].expiration = timer[j].expiration
    BY <1>1, <2>1, <2>2
  <2> QED
    BY <2>3, <2>4 DEF SameTimes, CancelInLoop, KeepTimerFd
<1>6. CASE timer' = timer
  <2>1. SameTimes(timer, timer') /\ Len(timer') = Len(timer)
    BY <1>1, <1>6 DEF SameTimes
  <2> QED
    BY <2>1 DEF CancelInLoop, KeepTimerFd
<1> QED
  BY <1>5, <1>6 DEF CancelInLoop

\* A new timer is the last.
LEMMA NewKeepsTimes ==
    ASSUME IInv, NEW delay \in Nat, NEW interval \in Nat
    PROVE  LET t == Append(timer, NewTimer(delay, interval))
           IN  /\ SameTimes(timer, t) /\ Len(t) = Len(timer) + 1
               /\ t[Len(timer) + 1].expiration = now + delay
<1>1. timer \in Seq(TimerType) /\ now \in Nat
  BY TimeAssumption DEF IInv, TypeOK
<1>2. PICK x \in TimerType : x = NewTimer(delay, interval) /\ x.expiration = now + delay
  <2>1. PICK e \in Nat : e = now + delay
    BY <1>1
  <2>2. NewTimer(delay, interval) = [expiration |-> e, interval |-> interval, deleted |-> FALSE]
    BY <2>1 DEF NewTimer
  <2>3. /\ NewTimer(delay, interval) \in TimerType
        /\ NewTimer(delay, interval).expiration = e
    BY <2>2 DEF TimerType
  <2> QED
    BY <2>1, <2>3
<1>3. /\ Append(timer, x) \in Seq(TimerType) /\ Len(Append(timer, x)) = Len(timer) + 1
      /\ \A i \in 1..Len(timer) : Append(timer, x)[i] = timer[i]
      /\ Append(timer, x)[Len(timer) + 1] = x
  BY <1>1
<1> QED
  BY <1>1, <1>2, <1>3 DEF SameTimes

\* New timers come behind those of the round.
LEMMA OrderIsKept ==
    ASSUME IInv, SameTimes(timer, timer'), UNCHANGED <<expired, readTime>>,
           \A i \in timers' \ timers : /\ i \in (Len(timer) + 1)..Len(timer')
                                       /\ timer'[i].expiration >= readTime
    PROVE  InOrder'
<1>1. /\ timer \in Seq(TimerType) /\ timers \in SUBSET (1..Len(timer))
      /\ readTime \in Nat /\ expired \in Seq(Timers)
      /\ \A k \in 1..Len(expired) : expired[k] \in 1..Len(timer)
  <2>1. now \in Nat /\ MaxTimers \in Nat
    BY TimeAssumption DEF IInv, TypeOK
  <2>2. expired \in Seq(Timers) /\ \A k \in 1..Len(expired) : expired[k] <= Len(timer)
    BY DEF IInv, TypeOK, Known
  <2>3. \A k \in 1..Len(expired) : expired[k] \in Timers
    BY <2>2
  <2>4. \A k \in 1..Len(expired) : expired[k] \in 1..Len(timer)
    BY <2>1, <2>2, <2>3 DEF IInv, TypeOK, Timers
  <2> QED
    BY <2>1, <2>2, <2>4 DEF IInv, TypeOK
<1>2. \A i, j \in 1..Len(timer) : Before(timer', i, j) <=> Before(timer, i, j)
  BY DEF SameTimes, Before
<1> SUFFICES ASSUME NEW k \in 1..Len(expired)
             PROVE  /\ timer'[expired[k]].expiration <= readTime
                    /\ \A m \in 1..Len(expired) :
                          k < m => Before(timer', expired[k], expired[m])
                    /\ \A i \in timers' : Before(timer', expired[k], i)
  BY DEF InOrder
<1>3. /\ timer[expired[k]].expiration <= readTime
      /\ \A m \in 1..Len(expired) : k < m => Before(timer, expired[k], expired[m])
      /\ \A i \in timers : Before(timer, expired[k], i)
  BY DEF IInv, InOrder
<1>4. /\ timer'[expired[k]].expiration = timer[expired[k]].expiration
      /\ timer'[expired[k]].expiration \in Nat
  BY <1>1, TimerParts DEF SameTimes
<1>5. \A m \in 1..Len(expired) : k < m => Before(timer', expired[k], expired[m])
  BY <1>1, <1>2, <1>3
<1>6. ASSUME NEW i \in timers' PROVE Before(timer', expired[k], i)
  <2>1. CASE i \in timers
    BY <1>1, <1>2, <1>3, <2>1
  <2>2. CASE i \notin timers
    <3>1. i \in (Len(timer) + 1)..Len(timer') /\ timer'[i].expiration >= readTime
      BY <2>2
    <3>2. timer' \in Seq(TimerType) /\ i \in 1..Len(timer')
      BY <1>1, <3>1 DEF SameTimes
    <3>3. timer'[i].expiration \in Nat
      BY <3>2, TimerParts
    <3>4. expired[k] < i
      BY <1>1, <3>1
    <3> QED
      BY <1>1, <1>3, <1>4, <3>1, <3>3, <3>4 DEF Before
  <2> QED
    BY <2>1, <2>2
<1> QED
  BY <1>3, <1>4, <1>5, <1>6

-----------------------------------------------------------------------------
(* The invariant, action by action.                                         *)

\* At the start there is no timer.
LEMMA InitInv == Init => IInv
<1> SUFFICES ASSUME Init PROVE IInv
  OBVIOUS
<1>1. Len(<<>>) = 0 /\ \A S : <<>> \in Seq(S)
  BY EmptySeq
<1>2. TypeOK
  <2>1. /\ now \in 0..MaxTime /\ ran \in 0..MaxTimers /\ readTime \in 0..now
        /\ done \in 0..Len(expired)
    BY <1>1, TimeAssumption DEF Init
  <2>2. timer \in Seq(TimerType) /\ Len(timer) <= MaxTimers /\ timers \subseteq 1..Len(timer)
    BY <1>1, TimeAssumption DEF Init
  <2>3. expired \in Seq(Timers) /\ \A i \in 1..Len(expired) : expired[i] \notin timers
    BY <1>1 DEF Init
  <2>4. functors \in Seq([call : {"add", "cancel"}, id : Timers])
    BY <1>1 DEF Init
  <2> QED
    BY <2>1, <2>2, <2>3, <2>4 DEF Init, TypeOK
<1>3. Idle /\ Known /\ ArmedForAll /\ InOrder
  BY <1>1 DEF Init, Idle, Known, ArmedForAll, InOrder
<1> QED
  BY <1>2, <1>3 DEF IInv

\* Another thread has a timer added.
LEMMA AddTimerInv ==
    ASSUME IInv, NEW delay \in Nat, NEW interval \in Nat, AddTimer(delay, interval)
    PROVE  IInv'
<1>1. /\ SameTimes(timer, timer') /\ Len(timer') = Len(timer) + 1
      /\ Len(timer') <= MaxTimers /\ Len(timer) \in Nat
  <2>1. Len(timer) < MaxTimers /\ Len(timer) \in Nat /\ MaxTimers \in Nat
    BY TimeAssumption DEF IInv, TypeOK, AddTimer
  <2> QED
    BY <2>1, NewKeepsTimes DEF AddTimer
<1>2. PICK f \in Calls :
          f = [call |-> "add", id |-> Len(timer')] /\ f.id = Len(timer')
  <2>1. PICK n \in Timers : n = Len(timer')
    BY <1>1, TimeAssumption DEF Timers
  <2>2. [call |-> "add", id |-> n] \in Calls
    BY DEF Calls
  <2> QED
    BY <2>1, <2>2
<1>3. /\ functors \in Seq(Calls)
      /\ functors' = Append(functors, f)
  BY <1>2 DEF IInv, TypeOK, AddTimer, Calls
<1>4. UNCHANGED <<now, timers, armed, readable, late, pc, expired, done, readTime, ran>>
  BY DEF AddTimer, KeepTimerFd, handling
<1>5. TypeOK'
  <2>1. functors' \in Seq(Calls)
    BY <1>3
  <2>2. timer' \in Seq(TimerType) /\ timers' \subseteq 1..Len(timer')
    BY <1>1, <1>4 DEF SameTimes, IInv, TypeOK
  <2> QED
    BY <1>1, <1>4, <2>1, <2>2 DEF IInv, TypeOK, Calls
<1>6. Idle' /\ ArmedForAll'
  <2>1. timers \in SUBSET (1..Len(timer))
    BY DEF IInv, TypeOK
  <2> QED
    BY <1>1, <1>4, <2>1 DEF IInv, Idle, ArmedForAll, SameTimes
<1>7. Known'
  <2>1. \A k \in 1..Len(functors') : functors'[k].id <= Len(timer')
    <3> SUFFICES ASSUME NEW k \in 1..Len(functors') PROVE functors'[k].id <= Len(timer')
      OBVIOUS
    <3>1. CASE k \in 1..Len(functors)
      <4>1. functors'[k] = functors[k] /\ functors[k].id \in Timers
        <5>1. functors[k] \in Calls /\ functors'[k] = functors[k]
          BY <1>3, <3>1
        <5> QED
          BY <5>1 DEF Calls
      <4>2. functors[k].id <= Len(timer)
        BY <3>1 DEF IInv, Known
      <4> QED
        BY <1>1, <4>1, <4>2 DEF Timers
    <3>2. CASE k = Len(functors) + 1
      BY <1>1, <1>2, <1>3, <3>2
    <3> QED
      BY <1>3, <3>1, <3>2
  <2>2. \A k \in 1..Len(expired') : expired'[k] <= Len(timer')
    <3>1. \A k \in 1..Len(expired) : expired[k] \in Timers /\ expired[k] <= Len(timer)
      BY DEF IInv, TypeOK, Known
    <3> QED
      BY <1>1, <1>4, <3>1 DEF Timers
  <2> QED
    BY <2>1, <2>2 DEF Known
<1>8. InOrder'
  BY <1>1, <1>4, OrderIsKept
<1> QED
  BY <1>5, <1>6, <1>7, <1>8 DEF IInv

\* Another thread asks for a cancellation.
LEMMA CancelInv ==
    ASSUME IInv, NEW i \in Timers, Cancel(i)
    PROVE  IInv'
<1>1. PICK f \in Calls :
          f = [call |-> "cancel", id |-> i] /\ f.id = i
  <2>1. [call |-> "cancel", id |-> i] \in Calls
    BY DEF Calls
  <2> QED
    BY <2>1
<1>2. /\ functors \in Seq(Calls)
      /\ functors' = Append(functors, f) /\ i \in 1..Len(timer)
  BY <1>1 DEF IInv, TypeOK, Cancel, Calls
<1>3. UNCHANGED <<now, timer, timers, armed, readable, late,
                  pc, expired, done, readTime, ran>>
  BY DEF Cancel, KeepTimerFd, handling
<1>4. TypeOK'
  <2>1. functors' \in Seq(Calls)
    BY <1>2
  <2> QED
    BY <1>3, <2>1 DEF IInv, TypeOK, Calls
<1>5. Idle' /\ ArmedForAll' /\ InOrder'
  BY <1>3 DEF IInv, Idle, ArmedForAll, InOrder
<1>6. Known'
  <2>1. \A k \in 1..Len(functors') : functors'[k].id <= Len(timer')
    <3> SUFFICES ASSUME NEW k \in 1..Len(functors') PROVE functors'[k].id <= Len(timer')
      OBVIOUS
    <3>1. CASE k \in 1..Len(functors)
      BY <1>2, <1>3, <3>1 DEF IInv, Known
    <3>2. CASE k = Len(functors) + 1
      BY <1>1, <1>2, <1>3, <3>2
    <3> QED
      BY <1>2, <3>1, <3>2
  <2> QED
    BY <1>3, <2>1 DEF IInv, Known
<1> QED
  BY <1>4, <1>5, <1>6 DEF IInv

\* Time passes.
LEMMA TickInv ==
    ASSUME IInv, Tick
    PROVE  IInv'
<1>1. /\ now \in Nat /\ MaxTime \in Nat /\ now' = now + 1 /\ now' <= MaxTime
      /\ UNCHANGED <<timer, timers, functors, pc, expired, done, readTime, ran, late>>
  BY TimeAssumption DEF Tick, KeepTimerFd, handling, IInv, TypeOK
<1>2. \/ readable' = TRUE /\ armed' = 0
      \/ UNCHANGED <<armed, readable>>
  BY DEF Tick, KeepTimerFd
<1>3. readTime \in Nat /\ readTime <= now /\ armed \in Nat /\ readable \in BOOLEAN
  BY <1>1 DEF IInv, TypeOK
<1>4. /\ now' \in 0..MaxTime /\ readTime' \in 0..now'
      /\ armed' \in Nat /\ readable' \in BOOLEAN /\ (readable' => armed' = 0)
  <2>1. now' \in 0..MaxTime /\ readTime' \in 0..now'
    BY <1>1, <1>3
  <2>2. readable => armed = 0
    BY DEF IInv, TypeOK
  <2>3. CASE readable' = TRUE /\ armed' = 0
    BY <2>1, <2>3
  <2>4. CASE UNCHANGED <<armed, readable>>
    BY <1>3, <2>1, <2>2, <2>4
  <2> QED
    BY <1>2, <2>3, <2>4
<1>5. TypeOK'
  BY <1>1, <1>4 DEF IInv, TypeOK
<1>6. Idle' /\ Known' /\ InOrder'
  BY <1>1 DEF IInv, Idle, Known, InOrder
<1>7. ArmedForAll'
  BY <1>1, <1>2 DEF IInv, ArmedForAll
<1> QED
  BY <1>5, <1>6, <1>7 DEF IInv

\* The loop takes a call from its functor queue.
LEMMA RunFunctorInv ==
    ASSUME IInv, RunFunctor
    PROVE  IInv'
<1> DEFINE f == Head(functors)
<1>1. /\ functors \in Seq(Calls) /\ functors # <<>> /\ functors' = Tail(functors)
      /\ pc = "idle" /\ expired = <<>> /\ timer \in Seq(TimerType) /\ now \in Nat
  BY TimeAssumption DEF IInv, TypeOK, RunFunctor, Calls, Idle
<1>2. f \in Calls /\ f.call \in {"add", "cancel"} /\ f.id \in 1..Len(timer)
  <2>1. f \in Calls /\ f = functors[1] /\ 1 \in 1..Len(functors)
    BY <1>1
  <2>2. functors[1].id <= Len(timer)
    BY <2>1 DEF IInv, Known
  <2>3. f.call \in {"add", "cancel"} /\ f.id \in Timers
    BY <2>1 DEF Calls
  <2> QED
    BY <1>1, <2>1, <2>2, <2>3 DEF Timers
<1>3. functors' \in Seq(Calls)
      /\ \A k \in 1..Len(functors') : functors'[k] = functors[k + 1] /\ k + 1 \in 1..Len(functors)
  BY <1>1
<1>4. UNCHANGED <<now, pc, expired, done, readTime, ran>>
  BY DEF RunFunctor, handling
<1> HIDE DEF f
<1>5. /\ SameTimes(timer, timer') /\ Len(timer') = Len(timer)
      /\ timers' \subseteq 1..Len(timer)
      /\ armed' \in Nat /\ readable' \in BOOLEAN /\ late' \in BOOLEAN
      /\ readable' => armed' = 0
      /\ ArmedForAll'
  <2>1. CASE f.call = "add"
    <3>1. AddTimerInLoop(f.id, timer)
      BY <2>1 DEF RunFunctor, f
    <3>2. SameTimes(timer, timer)
      BY <1>1 DEF SameTimes
    <3>3. timers \subseteq 1..Len(timer)
      BY DEF IInv, TypeOK
    <3>4. /\ timer' = timer /\ timers' = timers \cup {f.id}
          /\ armed' \in Nat /\ readable' \in BOOLEAN /\ late' \in BOOLEAN
          /\ readable' => armed' = 0
          /\ pc = "idle" /\ ~late' =>
               \A j \in timers' : \/ readable'
                                  \/ armed' # 0 /\ armed' <= timer[j].expiration
      BY <1>2, <3>1, <3>2, AddIsArmed
    <3>5. ArmedForAll'
      BY <1>4, <3>4 DEF ArmedForAll
    <3> QED
      BY <1>2, <3>2, <3>3, <3>4, <3>5
  <2>2. CASE f.call # "add"
    <3>1. CancelInLoop(f.id)
      BY <2>2 DEF RunFunctor, f
    <3>2. /\ SameTimes(timer, timer') /\ Len(timer') = Len(timer)
          /\ UNCHANGED <<timers, armed, readable, late>>
      BY <1>2, <3>1, CancelKeepsTimes
    <3>3. ArmedForAll'
      <4>1. timers \in SUBSET (1..Len(timer))
        BY DEF IInv, TypeOK
      <4> QED
        BY <1>4, <3>2, <4>1 DEF IInv, ArmedForAll, SameTimes
    <3> QED
      BY <3>2, <3>3 DEF IInv, TypeOK
  <2> QED
    BY <2>1, <2>2
<1>6. TypeOK'
  <2>1. timer' \in Seq(TimerType) /\ timers' \subseteq 1..Len(timer') /\ Len(timer') <= MaxTimers
    BY <1>5 DEF SameTimes, IInv, TypeOK
  <2>2. \A i \in 1..Len(expired') : expired'[i] \notin timers'
    BY <1>1, <1>4
  <2> QED
    BY <1>3, <1>4, <1>5, <2>1, <2>2 DEF IInv, TypeOK, Calls
<1>7. Known'
  <2>1. \A k \in 1..Len(functors') : functors'[k].id <= Len(timer')
    BY <1>3, <1>5 DEF IInv, Known
  <2>2. \A k \in 1..Len(expired') : expired'[k] <= Len(timer')
    BY <1>4, <1>5 DEF IInv, Known
  <2> QED
    BY <2>1, <2>2 DEF Known
<1>8. Idle' /\ InOrder'
  BY <1>1, <1>4 DEF IInv, Idle, InOrder
<1> QED
  BY <1>5, <1>6, <1>7, <1>8 DEF IInv

\* handleRead takes what is due out of the queue, in order.
LEMMA HandleReadInv ==
    ASSUME IInv, HandleRead
    PROVE  IInv'
<1>1. /\ timer \in Seq(TimerType) /\ timers \in SUBSET (1..Len(timer)) /\ now \in Nat
      /\ Len(timer) <= MaxTimers /\ MaxTimers \in Nat /\ readable /\ armed = 0
  BY TimeAssumption DEF IInv, TypeOK, HandleRead
<1>2. /\ timers' = timers \ Due /\ expired' = Sorted(Live(Due)) /\ readTime' = now
      /\ readable' = FALSE /\ done' = 0 /\ pc' = "run"
      /\ UNCHANGED <<now, timer, functors, armed, ran, late>>
  BY DEF HandleRead, GetExpired
<1>3. Live(Due) \in SUBSET timers /\ \A i \in Live(Due) : i \in Due /\ timer[i].expiration <= now
  BY DEF Live, Due
<1>4. /\ expired' \in Seq(Live(Due))
      /\ \A i, j \in 1..Len(expired') : i < j => Before(timer, expired'[i], expired'[j])
  BY <1>1, <1>2, <1>3, SortedIsOrdered
<1>5. \A k \in 1..Len(expired') : expired'[k] \in Live(Due)
  BY <1>4
<1>6. TypeOK'
  <2>1. Live(Due) \in SUBSET Timers
    BY <1>1, <1>3 DEF Timers
  <2>2. expired' \in Seq(Timers) /\ done' \in 0..Len(expired')
    <3>1. \A k \in 1..Len(expired') : expired'[k] \in Timers
      BY <1>5, <2>1
    <3>2. expired' \in Seq(Timers)
      BY <1>4, <2>1
    <3> QED
      BY <1>2, <3>2
  <2>3. \A k \in 1..Len(expired') : expired'[k] \notin timers'
    BY <1>2, <1>3, <1>5
  <2>4. timers' \subseteq 1..Len(timer')
    BY <1>1, <1>2
  <2>5. readTime' \in 0..now'
    BY <1>1, <1>2
  <2> QED
    BY <1>2, <2>2, <2>3, <2>4, <2>5 DEF IInv, TypeOK
<1>7. Known'
  <2>1. \A k \in 1..Len(expired') : expired'[k] <= Len(timer')
    <3>1. \A i \in Live(Due) : i <= Len(timer)
      <4> SUFFICES ASSUME NEW i \in Live(Due) PROVE i <= Len(timer)
        OBVIOUS
      <4>1. i \in 1..Len(timer)
        BY <1>1, <1>3
      <4> QED
        BY <1>1, <4>1
    <3> QED
      BY <1>2, <1>5, <3>1
  <2> QED
    BY <1>2, <2>1 DEF IInv, Known
<1>8. InOrder'
  <2> SUFFICES ASSUME NEW k \in 1..Len(expired')
               PROVE  /\ timer[expired'[k]].expiration <= now
                      /\ \A m \in 1..Len(expired') :
                            k < m => Before(timer, expired'[k], expired'[m])
                      /\ \A i \in timers' : Before(timer, expired'[k], i)
    BY <1>2 DEF InOrder
  <2>1. PICK x \in Live(Due) : x = expired'[k] /\ timer[x].expiration <= now /\ x \in timers
    BY <1>3, <1>5
  <2>2. ASSUME NEW i \in timers' PROVE Before(timer, x, i)
    <3>1. i \in timers /\ ~(timer[i].expiration <= now)
      BY <1>2, <2>2 DEF Due
    <3>2. timer[i].expiration \in Nat /\ timer[x].expiration \in Nat
      BY <1>1, <2>1, <3>1, TimerParts
    <3>3. timer[x].expiration < timer[i].expiration
      BY <1>1, <2>1, <3>1, <3>2
    <3> QED
      BY <3>3 DEF Before
  <2> QED
    BY <1>4, <2>1, <2>2
<1>9. Idle' /\ ArmedForAll'
  BY <1>2 DEF Idle, ArmedForAll
<1> QED
  BY <1>6, <1>7, <1>8, <1>9 DEF IInv

\* What any callback leaves.
LEMMA CallbackInv ==
    ASSUME IInv, pc = "run", UNCHANGED <<now, functors, pc, expired, readTime>>,
           SameTimes(timer, timer'), Len(timer') <= MaxTimers,
           timers' \subseteq 1..Len(timer'),
           \A i \in timers' \ timers : /\ i \in (Len(timer) + 1)..Len(timer')
                                       /\ timer'[i].expiration >= readTime,
           armed' \in Nat, readable' \in BOOLEAN, late' \in BOOLEAN,
           readable' => armed' = 0, done' \in 0..Len(expired), ran' \in 0..MaxTimers
    PROVE  IInv'
<1>1. \A k \in 1..Len(expired) : expired[k] \in Nat /\ expired[k] <= Len(timer)
                                 /\ expired[k] \notin timers
  <2>1. \A k \in 1..Len(expired) : expired[k] \in Timers
    BY DEF IInv, TypeOK
  <2> QED
    BY <2>1 DEF IInv, TypeOK, Known, Timers
<1>2. Len(timer) \in Nat /\ Len(timer') \in Nat /\ Len(timer) <= Len(timer')
  BY DEF IInv, TypeOK, SameTimes
<1>3. \A k \in 1..Len(expired') : expired'[k] \notin timers'
  BY <1>1, <1>2
<1>4. TypeOK'
  BY <1>3 DEF IInv, TypeOK, SameTimes
<1>5. Known'
  <2>1. \A k \in 1..Len(expired') : expired'[k] <= Len(timer')
    BY <1>1, <1>2
  <2>2. \A k \in 1..Len(functors) : functors[k].id \in Nat
    <3>1. \A k \in 1..Len(functors) : functors[k] \in Calls
      <4>1. functors \in Seq(Calls)
        BY DEF IInv, TypeOK, Calls
      <4> QED
        BY <4>1
    <3> QED
      BY <3>1 DEF Calls, Timers
  <2>3. \A k \in 1..Len(functors') : functors'[k].id <= Len(timer')
    BY <1>2, <2>2 DEF IInv, Known
  <2> QED
    BY <2>1, <2>3 DEF Known
<1>6. InOrder'
  BY OrderIsKept
<1>7. Idle' /\ ArmedForAll'
  BY DEF Idle, ArmedForAll
<1> QED
  BY <1>4, <1>5, <1>6, <1>7 DEF IInv

\* handleRead runs the next of the expired timers, or skips it.
LEMMA RunInv ==
    ASSUME IInv, Run
    PROVE  IInv'
<1>1. /\ timer \in Seq(TimerType) /\ timers \in SUBSET (1..Len(timer))
      /\ Len(timer) <= MaxTimers /\ now \in Nat /\ MaxTimers \in Nat /\ readTime \in Nat
      /\ readTime <= now /\ Len(timer) \in Nat
  <2>1. now \in Nat /\ MaxTimers \in Nat
    BY TimeAssumption DEF IInv, TypeOK
  <2> QED
    BY <2>1 DEF IInv, TypeOK
<1>2. /\ armed \in Nat /\ readable \in BOOLEAN /\ late \in BOOLEAN
      /\ readable => armed = 0
  BY DEF IInv, TypeOK
<1>3. /\ pc = "run" /\ done' = done + 1
      /\ UNCHANGED <<now, functors, pc, expired, readTime>>
  BY DEF Run
<1>4. /\ done' \in 0..Len(expired) /\ done + 1 \in 1..Len(expired)
      /\ expired[done + 1] \in 1..Len(timer)
  <2>1. done \in 0..Len(expired) /\ done < Len(expired) /\ expired \in Seq(Timers)
    BY DEF Run, IInv, TypeOK
  <2>2. done + 1 \in 1..Len(expired)
    BY <2>1
  <2>3. expired[done + 1] \in Timers /\ expired[done + 1] <= Len(timer)
    BY <2>1, <2>2 DEF IInv, Known
  <2> QED
    BY <1>1, <1>3, <2>1, <2>2, <2>3 DEF Timers
<1>5. ran' \in 0..MaxTimers
  <2>1. ran' = ran \/ ran' = expired[done + 1]
    BY DEF Run
  <2>2. ran \in 0..MaxTimers
    BY DEF IInv, TypeOK
  <2> QED
    BY <1>1, <1>4, <2>1, <2>2
<1>6. CASE UNCHANGED <<timer, timers, armed, readable, late>>
  <2>1. SameTimes(timer, timer')
    BY <1>1, <1>6 DEF SameTimes
  <2>2. /\ Len(timer') <= MaxTimers /\ timers' \subseteq 1..Len(timer')
        /\ timers' \ timers = {}
    BY <1>1, <1>6
  <2>3. /\ armed' \in Nat /\ readable' \in BOOLEAN /\ late' \in BOOLEAN
        /\ readable' => armed' = 0
    BY <1>2, <1>6, Zenon
  <2> QED
    BY <1>3, <1>4, <1>5, <2>1, <2>2, <2>3, CallbackInv
<1>7. ASSUME NEW d \in Delays, NEW r \in BOOLEAN, Len(timer) < MaxTimers,
             AddTimerInLoop(Len(timer) + 1,
                            Append(timer, NewTimer(d, IF r THEN d ELSE 0)))
      PROVE  IInv'
  <2>1. PICK interval \in Nat : interval = IF r THEN d ELSE 0
    BY TimeAssumption
  <2>2. d \in Nat
    BY TimeAssumption
  <2>3. PICK t : t = Append(timer, NewTimer(d, interval))
    OBVIOUS
  <2>4. /\ SameTimes(timer, t) /\ Len(t) = Len(timer) + 1
        /\ t[Len(timer) + 1].expiration = now + d
    BY <2>2, <2>3, NewKeepsTimes
  <2>5. Len(timer) + 1 \in 1..Len(t)
    BY <1>1, <2>4
  <2>6. AddTimerInLoop(Len(timer) + 1, t)
    BY <1>7, <2>1, <2>3
  <2>7. /\ timer' = t /\ timers' = timers \cup {Len(timer) + 1}
        /\ armed' \in Nat /\ readable' \in BOOLEAN /\ late' \in BOOLEAN
        /\ readable' => armed' = 0
    BY <2>4, <2>5, <2>6, AddIsArmed
  <2>8. SameTimes(timer, timer') /\ Len(timer') <= MaxTimers
    BY <1>1, <1>7, <2>4, <2>7
  <2>9. timers' \subseteq 1..Len(timer')
    <3>1. PICK n \in Nat : n = Len(timer)
      BY <1>1
    <3>2. timers \subseteq 1..n /\ timers' = timers \cup {n + 1} /\ Len(timer') = n + 1
      BY <1>1, <2>4, <2>7, <3>1
    <3>3. 1..n \subseteq 1..(n + 1) /\ n + 1 \in 1..(n + 1)
      OBVIOUS
    <3> QED
      BY <3>2, <3>3
  <2>10. \A i \in timers' \ timers : /\ i \in (Len(timer) + 1)..Len(timer')
                                     /\ timer'[i].expiration >= readTime
    <3>1. now + d >= readTime /\ Len(timer) \in Nat
      BY <1>1, <2>2
    <3>2. ASSUME NEW i \in timers' \ timers
          PROVE  i \in (Len(timer) + 1)..Len(timer') /\ timer'[i].expiration >= readTime
      <4>1. i = Len(timer) + 1 /\ Len(timer') = Len(timer) + 1
        BY <2>4, <2>7
      <4>2. timer'[i].expiration = now + d
        BY <2>4, <2>7, <4>1
      <4> QED
        BY <1>1, <3>1, <4>1, <4>2
    <3> QED
      BY <3>2
  <2> QED
    BY <1>3, <1>4, <1>5, <2>7, <2>8, <2>9, <2>10, CallbackInv
<1>8. ASSUME NEW j \in 1..Len(timer), CancelInLoop(j)
      PROVE  IInv'
  <2>1. /\ SameTimes(timer, timer') /\ Len(timer') = Len(timer)
        /\ UNCHANGED <<timers, armed, readable, late>>
    BY <1>8, CancelKeepsTimes
  <2>2. /\ Len(timer') <= MaxTimers /\ timers' \subseteq 1..Len(timer')
        /\ timers' \ timers = {}
    BY <1>1, <2>1
  <2>3. /\ armed' \in Nat /\ readable' \in BOOLEAN /\ late' \in BOOLEAN
        /\ readable' => armed' = 0
    BY <1>2, <2>1, Zenon
  <2> QED
    BY <1>3, <1>4, <1>5, <2>1, <2>2, <2>3, CallbackInv
<1> QED
  <2>1. CASE timer[expired[done + 1]].deleted
    BY <1>6, <2>1 DEF Run
  <2>2. CASE ~timer[expired[done + 1]].deleted
    BY <1>6, <1>7, <1>8, <2>2 DEF Run
  <2> QED
    BY <2>1, <2>2

\* restart gives the repeating timers their next expiration.
LEMMA RestartType ==
    ASSUME IInv
    PROVE  Restart \in Seq(TimerType) /\ Len(Restart) = Len(timer)
<1>1. timer \in Seq(TimerType) /\ Len(timer) \in Nat /\ readTime \in Nat
  <2>1. now \in Nat
    BY TimeAssumption DEF IInv, TypeOK
  <2> QED
    BY <2>1 DEF IInv, TypeOK
<1>2. ASSUME NEW i \in 1..Len(timer)
      PROVE  /\ timer[i] \in TimerType
             /\ [timer[i] EXCEPT !.expiration = readTime + timer[i].interval] \in TimerType
  <2>1. timer[i] \in TimerType /\ timer[i].interval \in Nat
    BY <1>1, TimerParts
  <2>2. PICK e \in Nat : e = readTime + timer[i].interval
    BY <1>1, <2>1
  <2>3. [timer[i] EXCEPT !.expiration = e] \in TimerType
    BY <2>1 DEF TimerType
  <2> QED
    BY <2>1, <2>2, <2>3
<1>3. Restart \in [1..Len(timer) -> TimerType]
  BY <1>2 DEF Restart
<1> QED
  BY <1>1, <1>3

\* reset puts the repeating timers back and arms the timerfd for the first one
\* that is still wanted.
LEMMA ResetInv ==
    ASSUME IInv, Reset
    PROVE  IInv'
<1> DEFINE all    == timers \cup Restarted
           wanted == {i \in all : ~Restart[i].deleted}
           first  == Top(Restart, wanted)
<1>1. timers \in SUBSET (1..Len(timer)) /\ now \in Nat
  BY TimeAssumption DEF IInv, TypeOK
<1>2. /\ armed \in Nat /\ readable \in BOOLEAN /\ late \in BOOLEAN
      /\ readable => armed = 0
  BY DEF IInv, TypeOK
<1>3. /\ timer' = Restart /\ pc' = "idle" /\ expired' = <<>> /\ done' = 0
      /\ readTime' = 0 /\ ran' = 0 /\ UNCHANGED <<now, functors>>
  BY DEF Reset
<1>4. timer' \in Seq(TimerType) /\ Len(timer') = Len(timer)
  BY <1>3, RestartType
<1>5. all \subseteq 1..Len(timer)
  <2>1. \A k \in 1..Len(expired) : expired[k] \in 1..Len(timer)
    <3>1. \A k \in 1..Len(expired) : expired[k] \in Timers /\ expired[k] <= Len(timer)
      BY DEF IInv, TypeOK, Known
    <3>2. Len(timer) \in Nat
      BY DEF IInv, TypeOK
    <3> QED
      BY <3>1, <3>2 DEF Timers
  <2>2. DOMAIN expired = 1..Len(expired)
    BY DEF IInv, TypeOK
  <2>3. Restarted \subseteq 1..Len(timer)
    BY <2>1, <2>2 DEF Restarted, ToSet
  <2> QED
    BY <1>1, <2>3
<1>6. /\ timers' \subseteq 1..Len(timer)
      /\ armed' \in Nat /\ readable' \in BOOLEAN /\ late' \in BOOLEAN
      /\ readable' => armed' = 0
      /\ ~late' => \A i \in timers' : armed' # 0 /\ armed' <= timer'[i].expiration
  <2>1. CASE wanted = {}
    <3>1. timers' = {} /\ UNCHANGED <<armed, readable, late>>
      BY <2>1 DEF Reset, KeepTimerFd
    <3>2. /\ armed' \in Nat /\ readable' \in BOOLEAN /\ late' \in BOOLEAN
          /\ readable' => armed' = 0
      BY <1>2, <3>1, Zenon
    <3> QED
      BY <3>1, <3>2
  <2>2. CASE wanted # {}
    <3>1. /\ timers' = {i \in all : i = first \/ Before(Restart, first, i)}
          /\ ResetTimerFd(Restart[first].expiration)
      BY <2>2 DEF Reset
    <3>2. wanted \in SUBSET (1..Len(Restart))
      BY <1>3, <1>4, <1>5
    <3>3. PICK top \in wanted : top = first
      BY <2>2, <3>2, RestartType, TopIsFirst
    <3>4. /\ top \in 1..Len(timer') /\ timer'[top].expiration \in Nat
          /\ timers' = {i \in all : i = top \/ Before(timer', top, i)}
          /\ ResetTimerFd(timer'[top].expiration)
      <4>1. top \in 1..Len(timer') /\ timer'[top].expiration \in Nat
        BY <1>3, <1>4, <3>2, TimerParts
      <4> QED
        BY <1>3, <3>1, <3>3, <4>1
    <3> HIDE DEF all, wanted, first
    <3>5. /\ armed' \in Nat /\ readable' \in BOOLEAN /\ late' \in BOOLEAN
          /\ readable' => armed' = 0
          /\ ~late' => armed' = timer'[top].expiration /\ timer'[top].expiration # 0
      <4>1. PICK e \in Nat : e = timer'[top].expiration
        BY <3>4
      <4>2. ResetTimerFd(e)
        BY <3>4, <4>1
      <4>3. /\ armed' \in Nat /\ readable' \in BOOLEAN /\ late' \in BOOLEAN
            /\ readable' => armed' = 0
            /\ ~late' => armed' = e /\ e # 0
        BY <1>2, <1>1, <4>2, ResetArms
      <4> QED
        BY <4>1, <4>3
    <3>6. timers' \subseteq 1..Len(timer)
      BY <1>5, <3>4
    <3>7. ASSUME NEW i \in timers' PROVE timer'[top].expiration <= timer'[i].expiration
      <4>1. i = top \/ Before(timer', top, i)
        BY <3>4
      <4>2. timer'[i].expiration \in Nat
        BY <1>4, <3>6, <3>7, TimerParts
      <4> QED
        BY <3>4, <4>1, <4>2 DEF Before
    <3> QED
      BY <3>5, <3>6, <3>7
  <2> QED
    BY <2>1, <2>2
<1> HIDE DEF all, wanted, first
<1>7. TypeOK'
  <2>1. expired' \in Seq(Timers) /\ done' \in 0..Len(expired') /\ readTime' \in 0..now'
        /\ ran' \in 0..MaxTimers /\ \A i \in 1..Len(expired') : expired'[i] \notin timers'
    BY <1>1, <1>3, TimeAssumption, EmptySeq
  <2>2. timers' \subseteq 1..Len(timer') /\ Len(timer') <= MaxTimers
    BY <1>4, <1>6 DEF IInv, TypeOK
  <2> QED
    BY <1>3, <1>4, <1>6, <2>1, <2>2 DEF IInv, TypeOK
<1>8. Idle' /\ InOrder'
  BY <1>3, EmptySeq DEF Idle, InOrder
<1>9. Known'
  <2>1. \A k \in 1..Len(functors') : functors'[k].id <= Len(timer')
    BY <1>3, <1>4 DEF IInv, Known
  <2> QED
    BY <1>3, <2>1, EmptySeq DEF Known
<1>10. ArmedForAll'
  BY <1>6 DEF ArmedForAll
<1> QED
  BY <1>7, <1>8, <1>9, <1>10 DEF IInv

\* Every step keeps the invariant.
LEMMA NextInv ==
    ASSUME IInv, [Next]_vars
    PROVE  IInv'
<1>1. CASE UNCHANGED vars
  BY <1>1 DEF vars, IInv, TypeOK, Idle, Known, ArmedForAll, InOrder
<1>2. CASE LoopStep
  BY <1>2, RunFunctorInv, HandleReadInv, RunInv, ResetInv DEF LoopStep
<1>3. ASSUME NEW d \in Delays, NEW r \in BOOLEAN, AddTimer(d, IF r THEN d ELSE 0)
      PROVE  IInv'
  <2>1. d \in Nat /\ (IF r THEN d ELSE 0) \in Nat
    BY TimeAssumption
  <2> QED
    BY <1>3, <2>1, AddTimerInv
<1>4. CASE \E i \in Timers : Cancel(i)
  BY <1>4, CancelInv
<1>5. CASE Tick
  BY <1>5, TickInv
<1> QED
  BY <1>1, <1>2, <1>3, <1>4, <1>5 DEF Next

\* The invariant holds always.
LEMMA Invariant == Spec => []IInv
<1>1. Init => IInv
  BY InitInv
<1>2. IInv /\ [Next]_vars => IInv'
  BY NextInv
<1> QED
  BY <1>1, <1>2, PTL DEF Spec

-----------------------------------------------------------------------------
(* The theorems.                                                            *)

\* The types of every variable; and a timerfd that is readable is not armed,
\* an expired timer is not in the queue (TimerManager.cpp:87-98, 124-150).
THEOREM TypeCorrect == Spec => []TypeOK
BY Invariant, PTL DEF IInv

\* Between two rounds of handleRead, and as long as resetTimerFd has not been
\* given a time that is over, the timerfd is readable or armed for no later than
\* the first live timer (TimerManager.cpp:39-51, 100-122, 134-150): of any
\* number of timers with any delays.
THEOREM FirstTimerIsArmed == Spec => []ArmedForFirst
<1>1. IInv => ArmedForFirst
  <2> SUFFICES ASSUME IInv, pc = "idle", ~late, Live(timers) # {}
               PROVE  \/ readable
                      \/ armed # 0 /\ armed <= timer[Top(timer, Live(timers))].expiration
    BY DEF ArmedForFirst
  <2>1. timer \in Seq(TimerType) /\ Live(timers) \in SUBSET (1..Len(timer))
    BY DEF IInv, TypeOK, Live
  <2>2. Top(timer, Live(timers)) \in timers
    <3>1. Top(timer, Live(timers)) \in Live(timers)
      BY <2>1, TopIsFirst
    <3> QED
      BY <3>1 DEF Live
  <2> QED
    BY <2>2 DEF IInv, ArmedForAll
<1> QED
  BY <1>1, Invariant, PTL

\* What a step that runs a timer may count on.
RunIsDue ==
    ran' \notin {0, ran} =>
        /\ timer[ran'].expiration <= now
        /\ ran' \notin timers
        /\ ~timer[ran'].deleted
        /\ \A i \in Live(timers) \cup {expired[k] : k \in done'..Len(expired)} :
              i = ran' \/ Before(timer, ran', i)

\* Run is the only action that runs a timer, and the invariant says which.
LEMMA RunStepIsDue ==
    ASSUME IInv, Run, ran' \notin {0, ran}
    PROVE  RunIsDue
<1>1. PICK k \in 1..Len(expired) : /\ k = done + 1 /\ done' = k
                                   /\ ran' = expired[k] /\ ~timer[expired[k]].deleted
  <2>1. done \in 0..Len(expired) /\ done < Len(expired) /\ Len(expired) \in Nat
    BY DEF Run, IInv, TypeOK
  <2>2. done + 1 \in 1..Len(expired)
    BY <2>1
  <2> QED
    BY <2>2 DEF Run
<1>2. /\ timer[expired[k]].expiration <= readTime
      /\ \A m \in 1..Len(expired) : k < m => Before(timer, expired[k], expired[m])
      /\ \A i \in timers : Before(timer, expired[k], i)
  BY DEF IInv, InOrder
<1>3. expired[k] \notin timers
  BY DEF IInv, TypeOK
<1>4. timer[expired[k]].expiration <= now
  <2>1. expired[k] \in 1..Len(timer)
    <3>1. expired[k] \in Timers /\ expired[k] <= Len(timer) /\ Len(timer) \in Nat
      BY DEF IInv, TypeOK, Known
    <3> QED
      BY <3>1 DEF Timers
  <2>2. timer[expired[k]].expiration \in Nat
    BY <2>1, TimerParts DEF IInv, TypeOK
  <2>3. now \in Nat /\ readTime \in 0..now
    BY TimeAssumption DEF IInv, TypeOK
  <2> QED
    BY <1>2, <2>2, <2>3
<1>5. \A i \in {expired[m] : m \in k..Len(expired)} :
          i = expired[k] \/ Before(timer, expired[k], i)
  <2> SUFFICES ASSUME NEW m \in k..Len(expired)
               PROVE  expired[m] = expired[k] \/ Before(timer, expired[k], expired[m])
    OBVIOUS
  <2>1. m \in 1..Len(expired) /\ (m = k \/ k < m)
    BY DEF IInv, TypeOK
  <2> QED
    BY <1>2, <2>1
<1>6. \A i \in Live(timers) : Before(timer, expired[k], i)
  BY <1>2 DEF Live
<1> QED
  BY <1>1, <1>3, <1>4, <1>5, <1>6 DEF RunIsDue

\* A timer is run only when it is due, out of the queue and not cancelled, and
\* before all those that come after it in the order of TimerCmp
\* (TimerManager.cpp:87-98, 124-132), whatever callbacks and threads add or
\* cancel in the meantime.
THEOREM TimersRunInOrder == Spec => RunsDue
<1>1. IInv /\ [Next]_vars => [RunIsDue]_vars
  <2> SUFFICES ASSUME IInv, Next, ran' \notin {0, ran} PROVE RunIsDue
    BY DEF RunIsDue, vars
  <2>1. CASE Run
    BY <2>1, RunStepIsDue
  <2>2. CASE RunFunctor
    BY <2>2 DEF RunFunctor, handling
  <2>3. CASE HandleRead
    BY <2>3 DEF HandleRead
  <2>4. CASE Reset
    BY <2>4 DEF Reset
  <2>5. CASE \/ \E d \in Delays, r \in BOOLEAN : AddTimer(d, IF r THEN d ELSE 0)
             \/ \E i \in Timers : Cancel(i)
             \/ Tick
    BY <2>5 DEF AddTimer, Cancel, Tick, handling
  <2> QED
    BY <2>1, <2>2, <2>3, <2>4, <2>5 DEF Next, LoopStep
<1>2. Spec => [][RunIsDue]_vars
  BY <1>1, Invariant, PTL DEF Spec
<1> QED
  BY <1>2, PTL DEF RunsDue, RunIsDue
=============================================================================
