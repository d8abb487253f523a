-------------------------- MODULE TcpServerProofs --------------------------
(***************************************************************************)
(* What holds of a TcpServer for any number of clients, loops, descriptors *)
(* and files.                                                              *)
(***************************************************************************)
EXTENDS TcpServer, FiniteSetTheorems, SequenceTheorems, TLAPS

\* A descriptor that stands for a client, but for the one the EMFILE branch
\* has accepted in place of idleFd_ and is about to drop.
Owned(f) == owner[f] \in Clients /\ f # idleFd

\* A descriptor is held if and only if it is owned, and in one place.
Held(f) == \E l \in LoopIds : Queued(l, f) # {} \/ Connected(l, f) # {}

Once(f) ==
    \A l, m \in LoopIds :
        /\ \A i \in Queued(l, f), j \in Queued(m, f) : l = m /\ i = j
        /\ \A o \in Connected(l, f), p \in Connected(m, f) : l = m /\ o = p
        /\ Queued(l, f) = {} \/ Connected(m, f) = {}

HeldOnce == \A f \in Fds : (Owned(f) <=> Held(f)) /\ Once(f)

\* A loop's map and epoll know its connected objects, and no other.
Known ==
    \A l \in LoopIds, f \in Fds :
        /\ connections[l][f] = watched[l][f]
        /\ watched[l][f] # 0 => watched[l][f] \in Connected(l, f)
        /\ \A o \in Connected(l, f) : watched[l][f] = o

\* The objects that are not connected, and they alone, are in the pool.
Pooled ==
    \A l \in LoopIds :
        /\ \A i, j \in 1..Len(pool[l]) : pool[l][i] = pool[l][j] => i = j
        /\ \A i \in 1..Len(pool[l]) : object[l][pool[l][i]].state = "kDisconnected"
        /\ \A o \in 1..Len(object[l]) :
              \/ object[l][o].state = "kConnected"
              \/ \E i \in 1..Len(pool[l]) : pool[l][i] = o

\* A loop handles events of connected objects, each once, before functors.
Scheduled ==
    \A l \in LoopIds :
        /\ \A o \in events[l] : /\ o \in 1..Len(object[l])
                                /\ object[l][o].state = "kConnected"
        /\ phase[l] = "events" => running[l] = <<>>

\* What idleFd_ stands for while acceptHandRead runs; between its system calls
\* the number may be another thread's.
IdleKept ==
    idleFd # 0 =>
        /\ accepting \in {"poll", "accept", "closeIdle"} => owner[idleFd] = idle
        /\ accepting \in {"acceptIdle", "openIdle"} => owner[idleFd] \in {free, file}
        /\ accepting = "dropIdle" => owner[idleFd] \in Clients

IInv == TypeOK /\ HeldOnce /\ Known /\ Pooled /\ Scheduled /\ IdleKept

-----------------------------------------------------------------------------
(* Sequences and descriptors.                                               *)

\* A nonempty set of numbers has a least one.
LEMMA LeastExists ==
    ASSUME NEW S \in SUBSET Nat, S # {}
    PROVE  Min(S) \in S
<1>1. PICK m \in S : \A n \in S : ~(<<n, m>> \in OpToRel(<, Nat))
  BY NatLessThanWellFounded, WFMin
<1>2. \A n \in S : m <= n
  <2> SUFFICES ASSUME NEW n \in S, n < m PROVE FALSE
    OBVIOUS
  <2>1. <<n, m>> \in OpToRel(<, Nat)
    BY DEF OpToRel
  <2> QED
    BY <1>1, <2>1
<1> QED
  BY <1>1, <1>2 DEF Min

\* accept and open return a number that is free.
LEMMA NewFdFree ==
    ASSUME TypeOK, FreeFds # {}
    PROVE  NewFd \in Fds /\ owner[NewFd] = free
<1>1. FreeFds \in SUBSET Nat
  BY DEF FreeFds, Fds
<1>2. NewFd \in FreeFds
  BY <1>1, LeastExists DEF NewFd
<1> QED
  BY <1>2 DEF FreeFds

\* The descriptors and the numbers that stand for none are different.
LEMMA Distinct ==
    /\ free \notin Clients /\ idle \notin Clients /\ file \notin Clients
    /\ free # idle /\ free # file /\ idle # file
BY ServerAssumption

\* A new descriptor is the queue's last.
LEMMA QueuedAppend ==
    ASSUME NEW q \in Seq(Fds), NEW r \in Seq(Fds), NEW f \in Fds
    PROVE  /\ q \o Append(r, f) = Append(q \o r, f)
           /\ q \o r \in Seq(Fds)
<1>1. Append(r, f) = r \o <<f>> /\ <<f>> \in Seq(Fds)
  OBVIOUS
<1>2. q \o r \in Seq(Fds) /\ Append(q \o r, f) = (q \o r) \o <<f>>
  OBVIOUS
<1>3. (q \o r) \o <<f>> = q \o (r \o <<f>>)
  BY <1>1, ConcatAssociative
<1> QED
  BY <1>1, <1>2, <1>3

\* The oldest one is the first of those that are run.
LEMMA QueuedTail ==
    ASSUME NEW q \in Seq(Fds), NEW r \in Seq(Fds), q # <<>>
    PROVE  /\ Tail(q) \o r = Tail(q \o r)
           /\ Head(q) = (q \o r)[1] /\ q \o r # <<>>
           /\ q \o r \in Seq(Fds)
<1>1. q \o r \in Seq(Fds) /\ Len(q) > 0 /\ Len(q \o r) = Len(q) + Len(r)
  OBVIOUS
<1>2. \A i \in 1..Len(q \o r) : (q \o r)[i] = IF i <= Len(q) THEN q[i] ELSE r[i - Len(q)]
  OBVIOUS
<1>3. Len(Tail(q) \o r) = Len(Tail(q \o r))
  BY <1>1
<1>4. \A i \in 1..Len(Tail(q \o r)) : (Tail(q) \o r)[i] = Tail(q \o r)[i]
  BY <1>1, <1>2
<1>5. Tail(q) \o r = Tail(q \o r)
  <2>1. Tail(q) \o r \in Seq(Fds) /\ Tail(q \o r) \in Seq(Fds)
    BY <1>1
  <2> QED
    BY <1>3, <1>4, <2>1, SeqEqual
<1> QED
  BY <1>1, <1>2, <1>5

-----------------------------------------------------------------------------
(* The types, action by action.                                             *)

\* The types at the start.
LEMMA InitType == Init => TypeOK
<1> SUFFICES ASSUME Init PROVE TypeOK
  OBVIOUS
<1>1. /\ 1 \in Fds /\ 0 \in LoopIds /\ 0 \in 0..MaxFiles /\ 1 \in 0..MaxFd
      /\ <<>> \in Seq(Clients) /\ <<>> \in Seq(Fds) /\ <<>> \in Seq(ObjectType)
      /\ <<>> \in Seq(Objects) /\ Len(<<>>) = 0 /\ MaxFd \in Nat
  BY ServerAssumption, EmptySeq DEF Fds, LoopIds
<1>2. owner \in [Fds -> Clients \cup {free, idle, file}]
  BY DEF Init
<1>3. /\ functors \in [LoopIds -> Seq(Fds)] /\ running \in [LoopIds -> Seq(Fds)]
      /\ events \in [LoopIds -> SUBSET Objects] /\ phase \in [LoopIds -> {"poll", "events"}]
  BY <1>1 DEF Init
<1>4. /\ object \in [LoopIds -> Seq(ObjectType)] /\ pool \in [LoopIds -> Seq(Objects)]
      /\ \A l \in LoopIds : object[l] = <<>> /\ pool[l] = <<>>
  BY <1>1 DEF Init
<1>5. /\ connections \in [LoopIds -> [Fds -> {0} \cup Objects]]
      /\ watched \in [LoopIds -> [Fds -> {0} \cup Objects]]
  BY DEF Init
<1>6. client \in [Clients -> ClientState]
  BY DEF Init, ClientState
<1>7. /\ backlog \in Seq(Clients) /\ edge \in BOOLEAN /\ idleFd \in 0..MaxFd
      /\ accepting = "poll" /\ next \in LoopIds /\ left \subseteq Clients /\ files \in 0..MaxFiles
  BY <1>1 DEF Init
<1>8. \A l \in LoopIds : /\ Len(object[l]) <= MaxFd
                         /\ \A i \in 1..Len(pool[l]) : pool[l][i] <= Len(object[l])
  BY <1>1, <1>4
<1> QED
  BY <1>2, <1>3, <1>4, <1>5, <1>6, <1>7, <1>8 DEF TypeOK

\* next_ stays an index of a loop.
LEMMA NextLoop ==
    ASSUME next \in LoopIds
    PROVE  (next + 1) % Loops \in LoopIds
BY ServerAssumption DEF LoopIds

\* What the clients, the files and the main thread do to the types.
LEMMA MainType ==
    ASSUME TypeOK,
           \/ \E c \in Clients : Connect(c) \/ Leave(c)
           \/ OpenFile \/ CloseFile \/ MainStep
    PROVE  TypeOK'
<1> USE DEF TypeOK, ClientState
<1>1. CASE \E c \in Clients : Connect(c)
  <2> PICK c \in Clients : Connect(c)
    BY <1>1
  <2>1. backlog' \in Seq(Clients) /\ client' \in [Clients -> ClientState]
    BY DEF Connect
  <2> QED
    BY <2>1 DEF Connect, loop
<1>2. CASE \E c \in Clients : Leave(c)
  BY <1>2 DEF Leave, loop, main
<1>3. CASE OpenFile
  <2>1. NewFd \in Fds /\ files' \in 0..MaxFiles
    BY <1>3, NewFdFree, ServerAssumption DEF OpenFile
  <2>2. owner' \in [Fds -> Clients \cup {free, idle, file}]
    BY <1>3, <2>1 DEF OpenFile
  <2> QED
    BY <1>3, <2>1, <2>2 DEF OpenFile, loop, main
<1>4. CASE CloseFile
  <2>1. owner' \in [Fds -> Clients \cup {free, idle, file}]
    BY <1>4 DEF CloseFile
  <2> QED
    BY <1>4, <2>1 DEF CloseFile, loop, main
<1>5. CASE AcceptEvent \/ AcceptFails
  BY <1>5 DEF AcceptEvent, AcceptFails, loop
<1>6. CASE Accept
  <2> DEFINE c == Head(backlog)
  <2>1. /\ NewFd \in Fds /\ c \in Clients /\ backlog' \in Seq(Clients)
        /\ NewConnection(c, NewFd) \/ Refuse(c)
    BY <1>6, NewFdFree DEF Accept
  <2> HIDE DEF c
  <2>2. client' \in [Clients -> ClientState]
    BY <2>1 DEF NewConnection, Refuse
  <2>3. owner' \in [Fds -> Clients \cup {free, idle, file}]
    BY ZenonT(20), <2>1 DEF NewConnection, Refuse
  <2>4. functors' \in [LoopIds -> Seq(Fds)]
    <3>1. CASE functors' = functors
      BY <3>1
    <3>2. CASE functors' = [functors EXCEPT ![next] = Append(@, NewFd)]
      <4>1. functors[next] \in Seq(Fds)
        OBVIOUS
      <4>2. Append(functors[next], NewFd) \in Seq(Fds)
        BY <2>1, <4>1
      <4> QED
        BY <3>2, <4>2
    <3> QED
      BY <2>1, <3>1, <3>2 DEF NewConnection, Refuse
  <2>5. next' \in LoopIds
    BY <2>1, NextLoop DEF NewConnection, Refuse
  <2> QED
    BY <1>6, <2>1, <2>2, <2>3, <2>4, <2>5 DEF Accept, loop
<1>7. CASE CloseIdle
  <2>1. owner' \in [Fds -> Clients \cup {free, idle, file}]
    BY <1>7 DEF CloseIdle
  <2> QED
    BY <1>7, <2>1 DEF CloseIdle, loop
<1>8. CASE AcceptIdle
  <2>1. CASE FreeFds = {} \/ backlog = <<>>
    <3>1. idleFd' \in 0..MaxFd /\ owner' = owner /\ backlog' = backlog
      BY <1>8, <2>1, ServerAssumption DEF AcceptIdle
    <3> QED
      BY <1>8, <3>1 DEF AcceptIdle, loop
  <2>2. CASE FreeFds # {} /\ backlog # <<>>
    <3>1. NewFd \in Fds /\ Head(backlog) \in Clients /\ Tail(backlog) \in Seq(Clients)
      BY <2>2, NewFdFree
    <3>2. /\ idleFd' \in 0..MaxFd /\ backlog' \in Seq(Clients)
          /\ owner' \in [Fds -> Clients \cup {free, idle, file}]
      <4>1. NewFd \in 0..MaxFd
        BY <3>1, ServerAssumption DEF Fds
      <4> QED
        BY <1>8, <2>2, <3>1, <4>1 DEF AcceptIdle
    <3> QED
      BY <1>8, <3>2 DEF AcceptIdle, loop
  <2> QED
    BY <2>1, <2>2
<1>9. CASE DropIdle
  <2>1. /\ owner' \in [Fds -> Clients \cup {free, idle, file}]
        /\ client' \in [Clients -> ClientState]
    BY <1>9 DEF DropIdle
  <2> QED
    BY <1>9, <2>1 DEF DropIdle, loop
<1>10. CASE OpenIdle
  <2>1. FreeFds # {} => NewFd \in Fds
    BY NewFdFree
  <2>2. idleFd' \in 0..MaxFd /\ owner' \in [Fds -> Clients \cup {free, idle, file}]
    <3>1. FreeFds # {} => NewFd \in 0..MaxFd
      BY <2>1, ServerAssumption DEF Fds
    <3>2. 0 \in 0..MaxFd
      BY ServerAssumption
    <3> QED
      BY <1>10, <2>1, <3>1, <3>2 DEF OpenIdle
  <2> QED
    BY <1>10, <2>2 DEF OpenIdle, loop
<1> QED
  BY <1>1, <1>2, <1>3, <1>4, <1>5, <1>6, <1>7, <1>8, <1>9, <1>10 DEF MainStep

-----------------------------------------------------------------------------
(* createConnection.                                                        *)

\* What the fields of an object are.
LEMMA Fields ==
    ASSUME NEW os \in Seq(ObjectType), NEW o \in 1..Len(os)
    PROVE  /\ os[o] \in ObjectType /\ os[o].fd \in Fds
           /\ os[o].state \in {"kConnecting", "kConnected", "kDisconnected"}
<1>1. os[o] \in ObjectType
  OBVIOUS
<1> QED
  BY <1>1 DEF ObjectType

\* n objects that are all connected have n descriptors, and the one that is to
\* be connected is none of them: there is room for one more object.
LEMMA RoomForObject ==
    ASSUME NEW os \in Seq(ObjectType), NEW f \in Fds,
           \A o, p \in 1..Len(os) : os[o].fd = os[p].fd => o = p,
           \A o \in 1..Len(os) : os[o].fd # f
    PROVE  Len(os) < MaxFd
<1> DEFINE n == Len(os)
           S == Fds \ {f}
           g == [o \in 1..n |-> os[o].fd]
<1>1. n \in Nat /\ MaxFd \in Nat
  BY ServerAssumption
<1>2. g \in Injection(1..n, S)
  <2>1. \A o \in 1..n : os[o] \in ObjectType /\ os[o].fd \in Fds
    BY Fields
  <2>2. g \in [1..n -> S]
    BY <2>1
  <2>3. \A o, p \in 1..n : g[o] = g[p] => o = p
    OBVIOUS
  <2> HIDE DEF g, S
  <2> QED
    BY <2>2, <2>3 DEF Injection, IsInjective
<1>3. IsFiniteSet(Fds) /\ Cardinality(Fds) = MaxFd
  <2>1. /\ IsFiniteSet(1..MaxFd)
        /\ Cardinality(1..MaxFd) = IF 1 > MaxFd THEN 0 ELSE MaxFd - 1 + 1
    BY <1>1, FS_Interval
  <2> QED
    BY <1>1, <2>1, ServerAssumption DEF Fds
<1>4. IsFiniteSet(S) /\ Cardinality(S) = MaxFd - 1
  BY <1>1, <1>3, FS_RemoveElement
<1>5. Cardinality(1..n) = n
  <2>1. Cardinality(1..n) = IF 1 > n THEN 0 ELSE n - 1 + 1
    BY <1>1, FS_Interval
  <2> HIDE DEF n
  <2> QED
    BY <1>1, <2>1
<1> HIDE DEF n, S, g
<1>6. Cardinality(1..n) <= Cardinality(S)
  BY <1>2, <1>4, FS_Injection
<1> QED
  BY <1>1, <1>4, <1>5, <1>6 DEF n

\* What createConnection does to the objects os and the pool ps of its loop:
\* object o, new or the last of the pool, is connected to f.
Created(os, ps, f, o, nos, nps) ==
    /\ f \in Fds /\ owner[f] \in Clients /\ o \in Objects
    /\ nos \in Seq(ObjectType) /\ Len(os) <= Len(nos) /\ Len(nos) <= MaxFd
    /\ nps \in Seq(Objects) /\ Len(nps) <= Len(ps)
    /\ o \in 1..Len(nos) /\ nos[o].state = "kConnected" /\ nos[o].fd = f
    /\ \A p \in 1..Len(nos) : p # o => p \in 1..Len(os) /\ nos[p] = os[p]
    /\ o \in 1..Len(os) => os[o].state = "kDisconnected"
    /\ \A i \in 1..Len(nps) : nps[i] = ps[i] /\ nps[i] # o
    /\ \A i \in 1..Len(ps) : ps[i] # o => i \in 1..Len(nps)

\* createConnection takes an object of the pool or makes a new one.
LEMMA CreateConnectionOK ==
    ASSUME IInv, NEW l \in LoopIds, CreateConnection(l)
    PROVE  \E o, nos, nps : LET f == Head(running[l]) IN
              /\ Created(object[l], pool[l], f, o, nos, nps)
              /\ object' = [object EXCEPT ![l] = nos] /\ pool' = [pool EXCEPT ![l] = nps]
              /\ connections' = [connections EXCEPT ![l][f] = o]
              /\ watched' = [watched EXCEPT ![l][f] = o]
              /\ client' = [client EXCEPT ![owner[f]] = "established"]
              /\ 1 \in Queued(l, f)
<1> DEFINE f  == Head(running[l])
           os == object[l]
           ps == pool[l]
           n  == Len(os)
<1>1. /\ os \in Seq(ObjectType) /\ n \in Nat /\ n <= MaxFd
      /\ ps \in Seq(Objects) /\ Len(ps) \in Nat
      /\ \A i \in 1..Len(ps) : ps[i] \in 1..n
      /\ running[l] \in Seq(Fds) /\ functors[l] \in Seq(Fds) /\ running[l] # <<>>
  <2>1. /\ os \in Seq(ObjectType) /\ n <= MaxFd /\ ps \in Seq(Objects)
        /\ \A i \in 1..Len(ps) : ps[i] <= n
        /\ running[l] \in Seq(Fds) /\ functors[l] \in Seq(Fds) /\ running[l] # <<>>
    BY DEF IInv, TypeOK, CreateConnection
  <2>2. \A i \in 1..Len(ps) : ps[i] \in Objects
    BY <2>1
  <2>3. n \in Nat /\ Len(ps) \in Nat
    BY <2>1
  <2> HIDE DEF n, ps
  <2> QED
    BY <2>1, <2>2, <2>3, ServerAssumption DEF Objects
<1>2. f \in Fds /\ 1 \in Queued(l, f)
  <2> DEFINE q == Queue(l)
  <2>1. f \in Fds
    BY <1>1
  <2>2. q \in Seq(Fds) /\ q # <<>> /\ q[1] = f
    BY <1>1, QueuedTail DEF Queue
  <2> HIDE DEF q
  <2>3. 1 \in 1..Len(q)
    BY <2>2
  <2> QED
    BY <2>1, <2>2, <2>3 DEF Queued, q
<1>3. Owned(f) /\ \A m \in LoopIds : Connected(m, f) = {}
  BY <1>2 DEF IInv, HeldOnce, Held, Once
<1>4. owner[f] \in Clients
  BY <1>3 DEF Owned
<1>5. /\ \A i, j \in 1..Len(ps) : ps[i] = ps[j] => i = j
      /\ \A i \in 1..Len(ps) : os[ps[i]].state = "kDisconnected"
      /\ \A o \in 1..n : os[o].state = "kConnected" \/ \E i \in 1..Len(ps) : ps[i] = o
  BY DEF IInv, Pooled
<1>6. CASE ps # <<>>
  <2> DEFINE k   == Len(ps)
             o   == ps[k]
             nos == [os EXCEPT ![o] = [state |-> "kConnected", fd |-> f]]
             nps == SubSeq(ps, 1, k - 1)
  <2>1. k \in 1..Len(ps) /\ k - 1 \in Nat
    BY <1>1, <1>6
  <2>2. o \in 1..n /\ o \in Objects /\ os[o].state = "kDisconnected"
    BY <1>1, <1>5, <2>1, ServerAssumption DEF Objects
  <2>3. /\ nos \in Seq(ObjectType) /\ Len(nos) = n
        /\ nos[o].state = "kConnected" /\ nos[o].fd = f
        /\ \A p \in 1..n : p # o => nos[p] = os[p]
    <3>1. [state |-> "kConnected", fd |-> f] \in ObjectType
      BY <1>2 DEF ObjectType
    <3> HIDE DEF o, os
    <3> QED
      BY <1>1, <2>2, <3>1
  <2>4. /\ nps \in Seq(Objects) /\ Len(nps) = k - 1
        /\ \A i \in 1..(k - 1) : nps[i] = ps[i]
    BY <1>1, <2>1
  <2>5. \A i \in 1..(k - 1) : ps[i] # o
    BY <1>5, <2>1
  <2>6. \A i \in 1..k : ps[i] # o => i \in 1..(k - 1)
    BY <2>1
  <2>7. /\ object' = [object EXCEPT ![l] = nos] /\ pool' = [pool EXCEPT ![l] = nps]
        /\ connections' = [connections EXCEPT ![l][f] = o]
        /\ watched' = [watched EXCEPT ![l][f] = o]
        /\ client' = [client EXCEPT ![owner[f]] = "established"]
    BY <1>6 DEF CreateConnection, Establish, Last, Front
  <2> HIDE DEF o, nos, nps
  <2>8. Created(os, ps, f, o, nos, nps)
    BY <1>1, <1>2, <1>4, <2>1, <2>2, <2>3, <2>4, <2>5, <2>6 DEF Created
  <2> QED
    BY <1>2, <2>7, <2>8
<1>7. CASE ps = <<>>
  <2> DEFINE o   == n + 1
             new == Append(os, [state |-> "kConnecting", fd |-> f])
             nos == [new EXCEPT ![o] = [state |-> "kConnected", fd |-> f]]
  <2>1. \A p \in 1..n : os[p].state = "kConnected" /\ os[p].fd \in Fds
    <3>1. \A p \in 1..n : os[p].state = "kConnected"
      BY <1>5, <1>7
    <3> QED
      BY <1>1, <3>1, Fields
  <2>2. \A p \in 1..n : p \in Connected(l, os[p].fd)
    BY <2>1 DEF Connected
  <2>3. n < MaxFd
    <3>1. \A p \in 1..n : os[p].fd # f
      BY <1>3, <2>2
    <3>2. \A p, q \in 1..n : os[p].fd = os[q].fd => p = q
      BY <2>1, <2>2 DEF IInv, HeldOnce, Held, Once
    <3> QED
      BY <1>1, <1>2, <3>1, <3>2, RoomForObject
  <2>4. /\ [state |-> "kConnected", fd |-> f] \in ObjectType
        /\ [state |-> "kConnecting", fd |-> f] \in ObjectType
    BY <1>2 DEF ObjectType
  <2>5. o \in Objects /\ o \in 1..(n + 1) /\ o \notin 1..n
    BY <1>1, <2>3, ServerAssumption DEF Objects
  <2>6. new \in Seq(ObjectType) /\ Len(new) = n + 1 /\ \A p \in 1..n : new[p] = os[p]
    BY <1>1, <2>4
  <2>7. /\ object' = [object EXCEPT ![l] = nos] /\ pool' = [pool EXCEPT ![l] = ps]
        /\ connections' = [connections EXCEPT ![l][f] = o]
        /\ watched' = [watched EXCEPT ![l][f] = o]
        /\ client' = [client EXCEPT ![owner[f]] = "established"]
    BY <1>7 DEF CreateConnection, Establish, IInv, TypeOK
  <2> HIDE DEF o, new
  <2>8. /\ nos \in Seq(ObjectType) /\ Len(nos) = n + 1
        /\ nos[o].state = "kConnected" /\ nos[o].fd = f
        /\ \A p \in 1..(n + 1) : p # o => nos[p] = new[p]
    BY <2>4, <2>5, <2>6
  <2>9. \A p \in 1..(n + 1) : p # o => p \in 1..n
    BY <1>1 DEF o
  <2> HIDE DEF nos
  <2>10. Len(ps) = 0
    BY <1>7
  <2>11. Created(os, ps, f, o, nos, ps)
    <3> HIDE DEF os, ps, n
    <3>1. n = Len(os)
      BY DEF n
    <3> QED
      BY <1>1, <1>2, <1>4, <2>3, <2>5, <2>6, <2>8, <2>9, <2>10, <3>1, ServerAssumption
      DEF Created
  <2> QED
    BY <1>2, <2>7, <2>11
<1> QED
  BY <1>6, <1>7

-----------------------------------------------------------------------------
(* handleClose and what it leads to.                                        *)

\* What Destroy does to the objects os and the pool ps of its loop.
Destroyed(os, ps, f, o, nos, nps) ==
    /\ f \in Fds /\ owner[f] \in Clients /\ o \in Objects
    /\ nos \in Seq(ObjectType) /\ Len(nos) = Len(os) /\ nps \in Seq(Objects)
    /\ o \in 1..Len(os) /\ os[o].state = "kConnected" /\ os[o].fd = f
    /\ nos[o].state = "kDisconnected" /\ nos[o].fd = f
    /\ \A p \in 1..Len(os) : p # o => nos[p] = os[p]
    /\ Len(nps) = Len(ps) + 1 /\ nps[Len(ps) + 1] = o
    /\ \A i \in 1..Len(ps) : nps[i] = ps[i] /\ ps[i] # o

\* handleClose and connectDestroyed give the object back to the pool.
LEMMA DestroyOK ==
    ASSUME IInv, NEW l \in LoopIds, NEW o \in events[l], Destroy(l, o)
    PROVE  \E nos, nps : LET f == object[l][o].fd IN
              /\ Destroyed(object[l], pool[l], f, o, nos, nps)
              /\ object' = [object EXCEPT ![l] = nos] /\ pool' = [pool EXCEPT ![l] = nps]
              /\ connections' = [connections EXCEPT ![l][f] = 0]
              /\ watched' = [watched EXCEPT ![l][f] = 0]
              /\ owner' = [owner EXCEPT ![f] = free]
              /\ client' = [client EXCEPT ![owner[f]] = "closed"]
              /\ Owned(f)
<1> DEFINE f   == object[l][o].fd
           os  == object[l]
           ps  == pool[l]
           nos == [os EXCEPT ![o].state = "kDisconnected"]
           nps == Append(ps, o)
<1>1. /\ os \in Seq(ObjectType) /\ ps \in Seq(Objects) /\ Len(ps) \in Nat
      /\ o \in 1..Len(os) /\ os[o].state = "kConnected" /\ o \in Objects
  BY DEF IInv, TypeOK, Scheduled
<1>2. os[o] \in ObjectType /\ f \in Fds
  BY <1>1, Fields
<1>3. o \in Connected(l, f)
  BY <1>1 DEF Connected
<1>4. Owned(f) /\ owner[f] \in Clients
  BY <1>2, <1>3 DEF IInv, HeldOnce, Held, Owned
<1>5. connections[l][f] = o
  BY <1>2, <1>3 DEF IInv, Known
<1>6. object' = [object EXCEPT ![l] = nos]
  BY <1>1 DEF Destroy, IInv, TypeOK
<1>7. /\ pool' = [pool EXCEPT ![l] = nps]
      /\ connections' = [connections EXCEPT ![l][f] = 0]
      /\ watched' = [watched EXCEPT ![l][f] = 0]
      /\ owner' = [owner EXCEPT ![f] = free]
      /\ client' = [client EXCEPT ![owner[f]] = "closed"]
  BY <1>5 DEF Destroy
<1>8. \A i \in 1..Len(ps) : ps[i] # o
  BY <1>1 DEF IInv, Pooled
<1>9. /\ nos \in Seq(ObjectType) /\ Len(nos) = Len(os)
      /\ nos[o].state = "kDisconnected" /\ nos[o].fd = f
      /\ \A p \in 1..Len(os) : p # o => nos[p] = os[p]
  <2> DEFINE new == [os[o] EXCEPT !.state = "kDisconnected"]
  <2>1. new \in ObjectType /\ new.state = "kDisconnected" /\ new.fd = f
    BY <1>2 DEF ObjectType
  <2>2. nos = [os EXCEPT ![o] = new]
    BY <1>1
  <2> HIDE DEF new, nos
  <2>3. /\ nos \in Seq(ObjectType) /\ Len(nos) = Len(os) /\ nos[o] = new
        /\ \A p \in 1..Len(os) : p # o => nos[p] = os[p]
    BY <1>1, <2>1, <2>2
  <2> QED
    BY <2>1, <2>3
<1>10. /\ nps \in Seq(Objects) /\ Len(nps) = Len(ps) + 1 /\ nps[Len(ps) + 1] = o
       /\ \A i \in 1..Len(ps) : nps[i] = ps[i]
  BY <1>1
<1> HIDE DEF nos, nps, os, ps
<1>11. Destroyed(os, ps, f, o, nos, nps)
  <2>1. os[o].fd = f
    BY DEF os
  <2> QED
    BY <1>1, <1>2, <1>4, <1>8, <1>9, <1>10, <2>1 DEF Destroyed
<1> QED
  BY <1>4, <1>6, <1>7, <1>11 DEF os, ps

-----------------------------------------------------------------------------
(* The types, for the loops.                                                *)

\* The types, for the steps of an I/O loop.
LEMMA LoopType ==
    ASSUME IInv, NEW l \in LoopIds, LoopStep(l)
    PROVE  TypeOK'
<1>1. TypeOK
  BY DEF IInv
<1>2. CASE Poll(l)
  <2>1. Ended(l) \in SUBSET Objects
    <3>1. /\ Len(object[l]) \in Nat /\ Len(object[l]) <= MaxFd
      BY <1>1 DEF TypeOK
    <3> QED
      BY <3>1, ServerAssumption DEF Ended, Objects
  <2>2. events' \in [LoopIds -> SUBSET Objects] /\ phase' \in [LoopIds -> {"poll", "events"}]
    BY <1>1, <1>2, <2>1 DEF Poll, TypeOK
  <2> QED
    BY <1>1, <1>2, <2>2 DEF Poll, TypeOK, main
<1>3. CASE HandleEvent(l)
  <2>1. PICK o \in events[l] : events' = [events EXCEPT ![l] = @ \ {o}] /\ Destroy(l, o)
    BY <1>3 DEF HandleEvent
  <2> DEFINE f == object[l][o].fd
  <2>2. PICK nos, nps :
              /\ Destroyed(object[l], pool[l], f, o, nos, nps)
              /\ object' = [object EXCEPT ![l] = nos] /\ pool' = [pool EXCEPT ![l] = nps]
              /\ connections' = [connections EXCEPT ![l][f] = 0]
              /\ watched' = [watched EXCEPT ![l][f] = 0]
              /\ owner' = [owner EXCEPT ![f] = free]
              /\ client' = [client EXCEPT ![owner[f]] = "closed"]
    BY <2>1, DestroyOK
  <2>3. /\ f \in Fds /\ nos \in Seq(ObjectType) /\ nps \in Seq(Objects)
        /\ Len(nos) = Len(object[l])
        /\ o \in 1..Len(object[l])
        /\ \A i \in 1..Len(nps) : i \in 1..Len(pool[l]) \/ i = Len(pool[l]) + 1
        /\ \A i \in 1..Len(pool[l]) : nps[i] = pool[l][i]
        /\ nps[Len(pool[l]) + 1] = o
    <3>1. Len(pool[l]) \in Nat
      BY <1>1 DEF TypeOK
    <3> QED
      BY <2>2, <3>1 DEF Destroyed
  <2> HIDE DEF f
  <2>4. \A m \in LoopIds : /\ Len(object'[m]) <= MaxFd
                           /\ \A i \in 1..Len(pool'[m]) : pool'[m][i] <= Len(object'[m])
    <3> SUFFICES ASSUME NEW m \in LoopIds
                 PROVE  /\ Len(object'[m]) <= MaxFd
                        /\ \A i \in 1..Len(pool'[m]) : pool'[m][i] <= Len(object'[m])
      OBVIOUS
    <3>1. CASE m # l
      BY <1>1, <2>2, <3>1 DEF TypeOK
    <3>2. CASE m = l
      <4>1. object'[m] = nos /\ pool'[m] = nps
        BY <1>1, <2>2, <3>2 DEF TypeOK
      <4>2. \A i \in 1..Len(pool[l]) : pool[l][i] <= Len(object[l])
        BY <1>1 DEF TypeOK
      <4>3. Len(object[l]) <= MaxFd /\ o <= Len(object[l])
        BY <1>1, <2>3 DEF TypeOK
      <4> QED
        BY <2>3, <4>1, <4>2, <4>3
    <3> QED
      BY <3>1, <3>2
  <2>5. /\ object' \in [LoopIds -> Seq(ObjectType)] /\ pool' \in [LoopIds -> Seq(Objects)]
        /\ events' \in [LoopIds -> SUBSET Objects]
    BY <1>1, <2>1, <2>2, <2>3 DEF TypeOK
  <2>6. /\ connections' \in [LoopIds -> [Fds -> {0} \cup Objects]]
        /\ watched' \in [LoopIds -> [Fds -> {0} \cup Objects]]
    BY <1>1, <2>2 DEF TypeOK
  <2>7. /\ owner' \in [Fds -> Clients \cup {free, idle, file}]
        /\ client' \in [Clients -> ClientState]
    BY <1>1, <2>2 DEF TypeOK, ClientState
  <2> QED
    BY <1>1, <1>3, <2>4, <2>5, <2>6, <2>7 DEF HandleEvent, TypeOK, main
<1>4. CASE BeginFunctors(l)
  <2>1. /\ phase' \in [LoopIds -> {"poll", "events"}]
        /\ running' \in [LoopIds -> Seq(Fds)] /\ functors' \in [LoopIds -> Seq(Fds)]
    <3>1. <<>> \in Seq(Fds)
      BY EmptySeq
    <3> QED
      BY <1>1, <1>4, <3>1 DEF BeginFunctors, TypeOK
  <2> QED
    BY <1>1, <1>4, <2>1 DEF BeginFunctors, TypeOK, main
<1>5. CASE CreateConnection(l)
  <2> DEFINE f == Head(running[l])
  <2>1. PICK o, nos, nps :
              /\ Created(object[l], pool[l], f, o, nos, nps)
              /\ object' = [object EXCEPT ![l] = nos] /\ pool' = [pool EXCEPT ![l] = nps]
              /\ connections' = [connections EXCEPT ![l][f] = o]
              /\ watched' = [watched EXCEPT ![l][f] = o]
              /\ client' = [client EXCEPT ![owner[f]] = "established"]
    BY <1>5, CreateConnectionOK
  <2>2. running' = [running EXCEPT ![l] = Tail(running[l])] /\ Tail(running[l]) \in Seq(Fds)
    BY <1>1, <1>5 DEF CreateConnection, TypeOK
  <2> HIDE DEF f
  <2>3. \A m \in LoopIds : /\ Len(object'[m]) <= MaxFd
                           /\ \A i \in 1..Len(pool'[m]) : pool'[m][i] <= Len(object'[m])
    <3> SUFFICES ASSUME NEW m \in LoopIds
                 PROVE  /\ Len(object'[m]) <= MaxFd
                        /\ \A i \in 1..Len(pool'[m]) : pool'[m][i] <= Len(object'[m])
      OBVIOUS
    <3>1. CASE m # l
      BY <1>1, <2>1, <3>1 DEF TypeOK
    <3>2. CASE m = l
      <4>1. object'[m] = nos /\ pool'[m] = nps
        BY <1>1, <2>1, <3>2 DEF TypeOK
      <4>2. \A i \in 1..Len(pool[l]) : pool[l][i] \in Nat /\ pool[l][i] <= Len(object[l])
        <5>1. pool[l] \in Seq(Objects)
          BY <1>1 DEF TypeOK
        <5>2. \A i \in 1..Len(pool[l]) : pool[l][i] \in Objects
          BY <5>1
        <5>3. \A i \in 1..Len(pool[l]) : pool[l][i] <= Len(object[l])
          BY <1>1 DEF TypeOK
        <5> QED
          BY <5>2, <5>3 DEF Objects
      <4>3. /\ Len(object[l]) <= Len(nos) /\ Len(nos) <= MaxFd /\ Len(nps) <= Len(pool[l])
            /\ \A i \in 1..Len(nps) : nps[i] = pool[l][i]
        BY <2>1 DEF Created
      <4>4. /\ Len(object[l]) \in Nat /\ Len(nos) \in Nat
            /\ Len(nps) \in Nat /\ Len(pool[l]) \in Nat
        <5>1. object[l] \in Seq(ObjectType) /\ pool[l] \in Seq(Objects)
          BY <1>1 DEF TypeOK
        <5>2. nos \in Seq(ObjectType) /\ nps \in Seq(Objects)
          BY <2>1 DEF Created
        <5> QED
          BY ONLY <5>1, <5>2
      <4>5. \A i \in 1..Len(nps) : i \in 1..Len(pool[l])
        BY <4>3, <4>4
      <4> QED
        BY <4>1, <4>2, <4>3, <4>4, <4>5
    <3> QED
      BY <3>1, <3>2
  <2>4. object' \in [LoopIds -> Seq(ObjectType)] /\ pool' \in [LoopIds -> Seq(Objects)]
    BY <1>1, <2>1 DEF TypeOK, Created
  <2>5. /\ connections' \in [LoopIds -> [Fds -> {0} \cup Objects]]
        /\ watched' \in [LoopIds -> [Fds -> {0} \cup Objects]]
    BY <1>1, <2>1 DEF TypeOK, Created
  <2>6. /\ running' \in [LoopIds -> Seq(Fds)] /\ client' \in [Clients -> ClientState]
    BY <1>1, <2>1, <2>2 DEF TypeOK, ClientState
  <2> QED
    BY <1>1, <1>5, <2>3, <2>4, <2>5, <2>6 DEF CreateConnection, TypeOK, main
<1> QED
  BY <1>2, <1>3, <1>4, <1>5 DEF LoopStep

-----------------------------------------------------------------------------
(* The invariant, action by action: first the main thread, whose loops stay *)
(* as they are but for the queue of one of them.                            *)

\* Nothing that a loop does.
LEMMA LoopsKept ==
    ASSUME Known, Pooled, Scheduled, UNCHANGED loop
    PROVE  /\ Known' /\ Pooled' /\ Scheduled'
           /\ \A l \in LoopIds, f \in Fds : Connected(l, f)' = Connected(l, f)
<1> USE DEF loop
<1>1. \A l \in LoopIds, f \in Fds : Connected(l, f)' = Connected(l, f)
  BY DEF Connected
<1>2. Known' /\ Pooled' /\ Scheduled'
  BY <1>1 DEF Known, Pooled, Scheduled
<1> QED
  BY <1>1, <1>2

\* Descriptors that are owned as before, in the same places.
LEMMA HeldKept ==
    ASSUME HeldOnce, \A f \in Fds : Owned(f)' <=> Owned(f),
           \A l \in LoopIds, f \in Fds : Connected(l, f)' = Connected(l, f),
           \A l \in LoopIds, f \in Fds : Queued(l, f)' = Queued(l, f)
    PROVE  HeldOnce'
<1>1. \A f \in Fds : (Held(f)' <=> Held(f)) /\ (Once(f)' <=> Once(f))
  BY DEF Held, Once
<1> QED
  BY <1>1 DEF HeldOnce

\* Before the first client no descriptor is held.
LEMMA InitIInv == Init => IInv
<1> SUFFICES ASSUME Init PROVE IInv
  OBVIOUS
<1>1. \A l \in LoopIds : /\ running[l] = <<>> /\ functors[l] = <<>> /\ object[l] = <<>>
                         /\ pool[l] = <<>> /\ events[l] = {} /\ phase[l] = "poll"
  BY DEF Init
<1>2. \A l \in LoopIds, f \in Fds : connections[l][f] = 0 /\ watched[l][f] = 0
  BY DEF Init
<1>3. \A l \in LoopIds, f \in Fds : Queued(l, f) = {} /\ Connected(l, f) = {}
  <2>1. <<>> \o <<>> = <<>> /\ Len(<<>>) = 0
    BY EmptySeq, ConcatEmptySeq
  <2>2. \A l \in LoopIds : Len(Queue(l)) = 0 /\ Len(object[l]) = 0
    BY <1>1, <2>1 DEF Queue
  <2> QED
    BY <2>2 DEF Queued, Connected
<1>4. \A f \in Fds : ~Owned(f)
  BY Distinct DEF Init, Owned
<1>5. HeldOnce
  BY <1>3, <1>4 DEF HeldOnce, Held, Once
<1>6. Known
  BY <1>2, <1>3 DEF Known
<1>7. Pooled /\ Scheduled
  <2>1. Len(<<>>) = 0
    BY EmptySeq
  <2> QED
    BY <1>1, <2>1 DEF Pooled, Scheduled
<1>8. IdleKept
  <2>1. 1 \in Fds /\ idleFd = 1 /\ owner[1] = idle /\ accepting = "poll"
    BY ServerAssumption DEF Init, Fds
  <2> QED
    BY <2>1 DEF IdleKept
<1> QED
  BY <1>5, <1>6, <1>7, <1>8, InitType DEF IInv

\* The process's other descriptors, and clients that come and leave.
LEMMA OthersStep ==
    ASSUME IInv, \/ \E c \in Clients : Connect(c) \/ Leave(c)
                 \/ OpenFile \/ CloseFile \/ AcceptEvent \/ AcceptFails
    PROVE  IInv'
<1>1. TypeOK' /\ TypeOK
  BY MainType DEF IInv, MainStep
<1>2. UNCHANGED <<loop, functors, idleFd>>
  BY DEF Connect, Leave, OpenFile, CloseFile, AcceptEvent, AcceptFails, main
<1>3. /\ Known' /\ Pooled' /\ Scheduled'
      /\ \A l \in LoopIds, f \in Fds : Connected(l, f)' = Connected(l, f)
  BY <1>2, LoopsKept DEF IInv
<1>4. \A l \in LoopIds, f \in Fds : Queued(l, f)' = Queued(l, f)
  BY <1>2 DEF Queued, Queue, loop
<1>5. \A f \in Fds : \/ owner'[f] = owner[f]
                     \/ owner[f] = free /\ owner'[f] = file
                     \/ owner[f] = file /\ owner'[f] = free
  <2>1. CASE OpenFile
    <3>1. NewFd \in Fds /\ owner[NewFd] = free
      BY <1>1, <2>1, NewFdFree DEF OpenFile
    <3> QED
      BY <1>1, <2>1, <3>1 DEF OpenFile, TypeOK
  <2>2. CASE CloseFile
    BY <1>1, <2>2 DEF CloseFile, TypeOK
  <2>3. CASE ~OpenFile /\ ~CloseFile
    <3>1. owner' = owner
      BY <2>3 DEF Connect, Leave, AcceptEvent, AcceptFails
    <3> QED
      BY <3>1
  <2> QED
    BY <2>1, <2>2, <2>3
<1>6. \A f \in Fds : Owned(f)' <=> Owned(f)
  BY <1>2, <1>5, Distinct DEF Owned
<1>7. HeldOnce'
  BY <1>3, <1>4, <1>6, HeldKept DEF IInv
<1>8. IdleKept'
  <2> SUFFICES ASSUME idleFd # 0
               PROVE  IdleKept'
    BY <1>2 DEF IdleKept
  <2>1. idleFd \in Fds
    BY <1>1, ServerAssumption DEF TypeOK, Fds
  <2>2. \/ accepting' = accepting
        \/ accepting \in {"poll", "accept"} /\ accepting' \in {"poll", "accept", "closeIdle"}
    BY DEF Connect, Leave, OpenFile, CloseFile, AcceptEvent, AcceptFails, main
  <2>3. IdleKept /\ idleFd' = idleFd
    BY <1>2 DEF IInv
  <2> QED
    BY <1>5, <2>1, <2>2, <2>3, Distinct DEF IdleKept
<1> QED
  BY <1>1, <1>3, <1>7, <1>8 DEF IInv

\* The EMFILE branch, between whose calls other threads take descriptors.
LEMMA IdleStep ==
    ASSUME IInv, CloseIdle \/ AcceptIdle \/ DropIdle \/ OpenIdle
    PROVE  IInv'
<1>1. TypeOK' /\ TypeOK
  BY MainType DEF IInv, MainStep
<1>2. UNCHANGED <<loop, functors>>
  BY DEF CloseIdle, AcceptIdle, DropIdle, OpenIdle
<1>3. /\ Known' /\ Pooled' /\ Scheduled'
      /\ \A l \in LoopIds, f \in Fds : Connected(l, f)' = Connected(l, f)
  BY <1>2, LoopsKept DEF IInv
<1>4. \A l \in LoopIds, f \in Fds : Queued(l, f)' = Queued(l, f)
  BY <1>2 DEF Queued, Queue, loop
<1>5. idleFd # 0 => idleFd \in Fds
  BY <1>1, ServerAssumption DEF TypeOK, Fds
<1>6. FreeFds # {} => NewFd \in Fds /\ owner[NewFd] = free
  BY <1>1, NewFdFree
<1>7. \A f \in Fds : f # 0
  BY DEF Fds
<1>8. (\A f \in Fds : Owned(f)' <=> Owned(f)) /\ IdleKept'
  <2>1. CASE CloseIdle
    <3>1. idleFd # 0 => owner[idleFd] = idle
      BY <2>1 DEF CloseIdle, IInv, IdleKept
    <3>2. \A f \in Fds : owner'[f] = IF f = idleFd THEN free ELSE owner[f]
      BY <1>1, <1>5, <1>7, <2>1 DEF CloseIdle, TypeOK
    <3> QED
      BY <1>5, <2>1, <3>1, <3>2, Distinct DEF CloseIdle, Owned, IdleKept
  <2>2. CASE AcceptIdle
    <3>1. idleFd # 0 => owner[idleFd] \in {free, file}
      BY <2>2 DEF AcceptIdle, IInv, IdleKept
    <3>2. CASE FreeFds = {} \/ backlog = <<>>
      BY <1>5, <2>2, <3>1, <3>2, Distinct, <1>7 DEF AcceptIdle, Owned, IdleKept
    <3>3. CASE FreeFds # {} /\ backlog # <<>>
      <4>1. /\ Head(backlog) \in Clients /\ idleFd' = NewFd
            /\ \A f \in Fds : owner'[f] = IF f = NewFd THEN Head(backlog) ELSE owner[f]
        BY <1>1, <1>6, <2>2, <3>3 DEF AcceptIdle, TypeOK
      <4>2. \A f \in Fds : Owned(f)' <=> Owned(f)
        BY <1>6, <1>7, <3>1, <3>3, <4>1, Distinct DEF Owned
      <4>3. accepting' = "dropIdle" /\ owner'[idleFd'] \in Clients
        BY <1>6, <2>2, <3>3, <4>1 DEF AcceptIdle
      <4> QED
        BY <4>2, <4>3 DEF IdleKept
    <3> QED
      BY <3>2, <3>3
  <2>3. CASE DropIdle
    <3>1. \A f \in Fds : owner'[f] = IF f = idleFd THEN free ELSE owner[f]
      BY <1>1, <1>5, <1>7, <2>3 DEF DropIdle, TypeOK
    <3> QED
      BY <1>5, <2>3, <3>1, Distinct DEF DropIdle, Owned, IdleKept
  <2>4. CASE OpenIdle
    <3>1. idleFd # 0 => owner[idleFd] \in {free, file}
      BY <2>4 DEF OpenIdle, IInv, IdleKept
    <3>2. CASE FreeFds = {}
      BY <1>5, <1>7, <2>4, <3>1, <3>2, Distinct DEF OpenIdle, Owned, IdleKept
    <3>3. CASE FreeFds # {}
      <4>1. /\ idleFd' = NewFd
            /\ \A f \in Fds : owner'[f] = IF f = NewFd THEN idle ELSE owner[f]
        BY <1>1, <1>6, <2>4, <3>3 DEF OpenIdle, TypeOK
      <4>2. \A f \in Fds : Owned(f)' <=> Owned(f)
        BY <1>6, <1>7, <3>1, <3>3, <4>1, Distinct DEF Owned
      <4>3. accepting' = "accept" /\ owner'[idleFd'] = idle
        BY <1>6, <2>4, <3>3, <4>1 DEF OpenIdle
      <4> QED
        BY <4>2, <4>3 DEF IdleKept
    <3> QED
      BY <3>2, <3>3
  <2> QED
    BY <2>1, <2>2, <2>3, <2>4
<1>9. HeldOnce'
  BY <1>3, <1>4, <1>8, HeldKept DEF IInv
<1> QED
  BY <1>1, <1>3, <1>8, <1>9 DEF IInv

\* accept: the new descriptor is queued for one loop, or closed again.
LEMMA AcceptStep ==
    ASSUME IInv, Accept
    PROVE  IInv'
<1>1. TypeOK' /\ TypeOK
  BY MainType DEF IInv, MainStep
<1>b. backlog \in Seq(Clients) /\ backlog # <<>>
  BY <1>1, Zenon DEF Accept, TypeOK
<1>c. PICK c \in Clients : c = Head(backlog)
  BY <1>b
<1>f. PICK f \in Fds : f = NewFd /\ owner[f] = free
  BY <1>1, NewFdFree DEF Accept
<1>k. PICK k \in LoopIds : k = next
  BY <1>1 DEF TypeOK
<1>2. UNCHANGED <<loop, accepting, idleFd>> /\ accepting = "accept"
  BY DEF Accept
<1>3. /\ Known' /\ Pooled' /\ Scheduled'
      /\ \A l \in LoopIds, g \in Fds : Connected(l, g)' = Connected(l, g)
  BY <1>2, LoopsKept DEF IInv
<1>4. CASE Refuse(c) /\ owner' = owner /\ functors' = functors
  <2>1. \A l \in LoopIds, g \in Fds : Queued(l, g)' = Queued(l, g)
    BY <1>2, <1>4 DEF Queued, Queue, loop
  <2>2. \A g \in Fds : Owned(g)' <=> Owned(g)
    BY <1>2, <1>4 DEF Owned
  <2>3. IdleKept'
    BY <1>2, <1>4 DEF IInv, IdleKept
  <2>4. HeldOnce'
    BY <1>3, <2>1, <2>2, HeldKept DEF IInv
  <2> QED
    BY <1>1, <1>3, <2>3, <2>4 DEF IInv
<1>5. CASE NewConnection(c, f)
  <2>1. f # idleFd
    BY <1>2, <1>f, Distinct DEF IInv, IdleKept, Fds
  <2>2. \A g \in Fds : owner'[g] = IF g = f THEN c ELSE owner[g]
    BY <1>1, <1>2, <1>5 DEF NewConnection, TypeOK
  <2>3. /\ \A g \in Fds : g # f => (Owned(g)' <=> Owned(g))
        /\ Owned(f)' /\ ~Owned(f)
    BY <1>2, <1>f, <2>1, <2>2, Distinct DEF Owned
  <2>4. \A l \in LoopIds : Queued(l, f) = {} /\ Connected(l, f) = {}
    BY <1>2, <2>3 DEF IInv, HeldOnce, Held
  <2>5. /\ Queue(k) \in Seq(Fds) /\ Queue(k)' = Append(Queue(k), f)
        /\ \A l \in LoopIds : l # k => Queue(l)' = Queue(l)
    <3>1. running' = running /\ functors' = [functors EXCEPT ![k] = Append(functors[k], f)]
      BY <1>2, <1>k, <1>5 DEF NewConnection, loop
    <3>2. running[k] \in Seq(Fds) /\ functors[k] \in Seq(Fds)
      BY <1>1, <1>2 DEF TypeOK
    <3>3. /\ running[k] \o Append(functors[k], f) = Append(Queue(k), f)
          /\ Queue(k) \in Seq(Fds)
      BY <1>2, <3>2, QueuedAppend DEF Queue
    <3>4. /\ functors'[k] = Append(functors[k], f)
          /\ \A l \in LoopIds : l # k => functors'[l] = functors[l]
      BY <1>1, <1>2, <3>1 DEF TypeOK
    <3> QED
      BY <1>2, <3>1, <3>3, <3>4 DEF Queue
  <2>n. PICK n : n = Len(Queue(k)) + 1
    OBVIOUS
  <2>6. /\ \A l \in LoopIds, g \in Fds : g # f => Queued(l, g)' = Queued(l, g)
        /\ \A l \in LoopIds : l # k => Queued(l, f)' = {}
        /\ Queued(k, f)' = {n}
    <3> DEFINE q == Queue(k)
               r == Append(q, f)
    <3>1. /\ Len(r) = n /\ n \in Nat /\ n \in 1..n /\ r[n] = f /\ Len(q) = n - 1
          /\ \A i \in 1..n : i # n => i \in 1..Len(q) /\ r[i] = q[i]
          /\ 1..Len(q) \subseteq 1..n /\ n \notin 1..Len(q)
      BY <2>5, <2>n
    <3>2. Queue(k)' = r
      BY <2>5
    <3>3. \A i \in 1..Len(q) : q[i] # f
      BY <2>4 DEF Queued
    <3> HIDE DEF q, r
    <3>4. \A g : Queued(k, g)' = {i \in 1..Len(r) : r[i] = g}
      BY <3>2 DEF Queued
    <3>5. \A g : Queued(k, g) = {i \in 1..Len(q) : q[i] = g}
      BY DEF Queued, q
    <3>6. Queued(k, f)' = {n}
      BY <3>1, <3>3, <3>4
    <3>7. \A g \in Fds : g # f => Queued(k, g)' = Queued(k, g)
      <4> SUFFICES ASSUME NEW g \in Fds, g # f
                   PROVE  \A i : i \in Queued(k, g)' <=> i \in Queued(k, g)
        BY <3>4, <3>5
      <4> TAKE i
      <4>1. i \in Queued(k, g)' <=> i \in 1..n /\ r[i] = g
        BY <3>1, <3>4
      <4>2. i \in Queued(k, g) <=> i \in 1..Len(q) /\ q[i] = g
        BY <3>5
      <4> QED
        BY <3>1, <4>1, <4>2
    <3>8. \A l \in LoopIds : l # k => \A g : Queued(l, g)' = Queued(l, g)
      BY <2>5 DEF Queued
    <3> QED
      BY <2>4, <3>6, <3>7, <3>8
  <2>7. HeldOnce'
    <3> SUFFICES ASSUME NEW g \in Fds PROVE (Owned(g)' <=> Held(g)') /\ Once(g)'
      BY DEF HeldOnce
    <3>1. CASE g # f
      <4>1. (Held(g)' <=> Held(g)) /\ (Once(g)' <=> Once(g))
        BY <1>3, <2>6, <3>1 DEF Held, Once
      <4> QED
        BY <2>3, <3>1, <4>1 DEF IInv, HeldOnce
    <3>2. CASE g = f
      <4>1. \A l \in LoopIds : /\ Connected(l, g)' = {}
                               /\ Queued(l, g)' = IF l = k THEN {n} ELSE {}
        BY <1>3, <2>4, <2>6, <3>2
      <4>2. Held(g)'
        BY <4>1 DEF Held
      <4>3. Once(g)'
        BY <4>1 DEF Once
      <4> QED
        BY <2>3, <3>2, <4>2, <4>3
    <3> QED
      BY <3>1, <3>2
  <2>8. IdleKept'
    <3>1. idleFd # 0 => idleFd \in Fds /\ owner'[idleFd] = owner[idleFd]
      BY <1>1, <2>1, <2>2, ServerAssumption DEF TypeOK, Fds
    <3> QED
      BY <1>2, <3>1 DEF IInv, IdleKept
  <2> QED
    BY <1>1, <1>3, <2>7, <2>8 DEF IInv
<1>6. NewConnection(c, f) \/ (Refuse(c) /\ owner' = owner /\ functors' = functors)
  BY <1>c, <1>f DEF Accept, Refuse
<1> QED
  BY <1>4, <1>5, <1>6

-----------------------------------------------------------------------------
(* The loops.                                                               *)

\* Waiting for events moves no descriptor.
LEMMA PollStep ==
    ASSUME IInv, NEW l \in LoopIds, Poll(l) \/ BeginFunctors(l)
    PROVE  IInv'
<1>1. TypeOK' /\ TypeOK
  BY LoopType DEF IInv, LoopStep
<1>2. UNCHANGED <<owner, object, pool, connections, watched, main>>
  BY DEF Poll, BeginFunctors
<1>3. \A m \in LoopIds, f \in Fds : Connected(m, f)' = Connected(m, f)
  BY <1>2 DEF Connected
<1>4. \A m \in LoopIds : Queue(m)' = Queue(m)
  <2>1. CASE Poll(l)
    BY <2>1 DEF Poll, Queue
  <2>2. CASE BeginFunctors(l)
    <3> SUFFICES ASSUME NEW m \in LoopIds PROVE Queue(m)' = Queue(m)
      OBVIOUS
    <3>1. running[l] = <<>> /\ functors[l] \in Seq(Fds)
      BY <1>1, <2>2 DEF BeginFunctors, IInv, Scheduled, TypeOK
    <3>2. /\ running'[m] = IF m = l THEN functors[l] ELSE running[m]
          /\ functors'[m] = IF m = l THEN <<>> ELSE functors[m]
      BY <1>1, <2>2 DEF BeginFunctors, TypeOK
    <3>3. <<>> \o functors[l] = functors[l] /\ functors[l] \o <<>> = functors[l]
      BY <3>1, ConcatEmptySeq
    <3> QED
      BY <3>1, <3>2, <3>3 DEF Queue
  <2> QED
    BY <2>1, <2>2
<1>5. \A m \in LoopIds, f \in Fds : Queued(m, f)' = Queued(m, f)
  BY <1>4 DEF Queued
<1>6. \A f \in Fds : Owned(f)' <=> Owned(f)
  BY <1>2 DEF Owned, main
<1>7. HeldOnce'
  BY <1>3, <1>5, <1>6, HeldKept DEF IInv
<1>8. Known' /\ Pooled'
  BY <1>2, <1>3 DEF IInv, Known, Pooled
<1>9. IdleKept'
  BY <1>2 DEF IInv, IdleKept, main
<1>10. Scheduled'
  <2> SUFFICES ASSUME NEW m \in LoopIds
               PROVE  /\ \A o \in events'[m] : /\ o \in 1..Len(object[m])
                                               /\ object[m][o].state = "kConnected"
                      /\ phase'[m] = "events" => running'[m] = <<>>
    BY <1>2 DEF Scheduled
  <2>1. CASE Poll(l)
    <3>1. /\ events'[m] = IF m = l THEN Ended(l) ELSE events[m]
          /\ phase'[m] = IF m = l THEN "events" ELSE phase[m]
          /\ running' = running /\ running[l] = <<>>
      BY <1>1, <2>1 DEF Poll, TypeOK
    <3>2. \A o \in Ended(l) : o \in 1..Len(object[l]) /\ object[l][o].state = "kConnected"
      <4> SUFFICES ASSUME NEW o \in Ended(l)
                   PROVE  o \in 1..Len(object[l]) /\ object[l][o].state = "kConnected"
        OBVIOUS
      <4>1. o \in 1..Len(object[l]) /\ \E f \in Fds : watched[l][f] = o
        BY DEF Ended
      <4>2. PICK f \in Fds : watched[l][f] = o
        BY <4>1
      <4>3. o # 0
        <5>1. \A n : n \in 1..Len(object[l]) => n # 0
          BY <1>1 DEF TypeOK
        <5> QED
          BY <4>1, <5>1
      <4>4. o \in Connected(l, f)
        BY <4>2, <4>3 DEF IInv, Known
      <4> QED
        BY <4>4 DEF Connected
    <3> QED
      BY <3>1, <3>2 DEF IInv, Scheduled
  <2>2. CASE BeginFunctors(l)
    <3>1. /\ events' = events
          /\ phase'[m] = IF m = l THEN "poll" ELSE phase[m]
          /\ running'[m] = IF m = l THEN functors[l] ELSE running[m]
      BY <1>1, <2>2 DEF BeginFunctors, TypeOK
    <3> QED
      BY <3>1 DEF IInv, Scheduled
  <2> QED
    BY <2>1, <2>2
<1> QED
  BY <1>1, <1>7, <1>8, <1>9, <1>10 DEF IInv

\* The close of a connection frees its descriptor and its object together.
LEMMA HandleEventStep ==
    ASSUME IInv, NEW l \in LoopIds, HandleEvent(l)
    PROVE  IInv'
<1>1. TypeOK' /\ TypeOK
  BY LoopType DEF IInv, LoopStep
<1>2. PICK o \in events[l] : events' = [events EXCEPT ![l] = @ \ {o}] /\ Destroy(l, o)
  BY DEF HandleEvent
<1>3. PICK f, nos, nps :
            /\ Destroyed(object[l], pool[l], f, o, nos, nps)
            /\ object' = [object EXCEPT ![l] = nos] /\ pool' = [pool EXCEPT ![l] = nps]
            /\ connections' = [connections EXCEPT ![l][f] = 0]
            /\ watched' = [watched EXCEPT ![l][f] = 0]
            /\ owner' = [owner EXCEPT ![f] = free]
            /\ Owned(f)
  BY <1>2, DestroyOK
<1>4. UNCHANGED <<main, functors, running, phase>>
  BY DEF HandleEvent
<1>5. /\ \A m \in LoopIds : /\ object'[m] = IF m = l THEN nos ELSE object[m]
                            /\ pool'[m] = IF m = l THEN nps ELSE pool[m]
                            /\ events'[m] = IF m = l THEN events[l] \ {o} ELSE events[m]
      /\ \A m \in LoopIds, g \in Fds :
            /\ connections'[m][g] = IF m = l /\ g = f THEN 0 ELSE connections[m][g]
            /\ watched'[m][g] = IF m = l /\ g = f THEN 0 ELSE watched[m][g]
      /\ \A g \in Fds : owner'[g] = IF g = f THEN free ELSE owner[g]
  <2>1. \A m \in LoopIds : /\ object'[m] = IF m = l THEN nos ELSE object[m]
                           /\ pool'[m] = IF m = l THEN nps ELSE pool[m]
    BY <1>1, <1>3 DEF TypeOK
  <2>2. \A m \in LoopIds : events'[m] = IF m = l THEN events[l] \ {o} ELSE events[m]
    BY <1>1, <1>2 DEF TypeOK
  <2>3. \A m \in LoopIds, g \in Fds :
           connections'[m][g] = IF m = l /\ g = f THEN 0 ELSE connections[m][g]
    <3>1. connections \in [LoopIds -> [Fds -> {0} \cup Objects]]
      BY <1>1 DEF TypeOK
    <3>2. connections' = [connections EXCEPT ![l][f] = 0] /\ f \in Fds
      BY <1>3 DEF Destroyed
    <3> QED
      BY ONLY <3>1, <3>2, l \in LoopIds
  <2>4. \A m \in LoopIds, g \in Fds :
           watched'[m][g] = IF m = l /\ g = f THEN 0 ELSE watched[m][g]
    <3>1. watched \in [LoopIds -> [Fds -> {0} \cup Objects]]
      BY <1>1 DEF TypeOK
    <3>2. watched' = [watched EXCEPT ![l][f] = 0] /\ f \in Fds
      BY <1>3 DEF Destroyed
    <3> QED
      BY ONLY <3>1, <3>2, l \in LoopIds
  <2>5. \A g \in Fds : owner'[g] = IF g = f THEN free ELSE owner[g]
    BY <1>1, <1>3 DEF TypeOK
  <2> QED
    BY <2>1, <2>2, <2>3, <2>4, <2>5
<1>6. /\ f \in Fds /\ o \in 1..Len(object[l]) /\ Len(nos) = Len(object[l])
      /\ object[l][o].state = "kConnected" /\ object[l][o].fd = f
      /\ nos[o].state = "kDisconnected"
      /\ \A p \in 1..Len(object[l]) : p # o => nos[p] = object[l][p]
      /\ Len(nps) = Len(pool[l]) + 1 /\ nps[Len(pool[l]) + 1] = o
      /\ \A i \in 1..Len(pool[l]) : nps[i] = pool[l][i] /\ pool[l][i] # o
  BY <1>3 DEF Destroyed
<1>7. o \in Connected(l, f)
  BY <1>6 DEF Connected
<1>8. /\ (Owned(f) <=> Held(f)) /\ Once(f)
      /\ \A p \in Connected(l, f) : p = o
      /\ \A m \in LoopIds : m # l => Connected(m, f) = {}
      /\ \A m \in LoopIds : Queued(m, f) = {}
  BY <1>6, <1>7 DEF IInv, HeldOnce, Once
<1>9. \A m \in LoopIds, g \in Fds : Connected(m, g)' = IF g = f THEN {} ELSE Connected(m, g)
  <2> SUFFICES ASSUME NEW m \in LoopIds, NEW g \in Fds
               PROVE  Connected(m, g)' = IF g = f THEN {} ELSE Connected(m, g)
    OBVIOUS
  <2>1. CASE m # l
    <3>1. Connected(m, g)' = Connected(m, g)
      BY <1>5, <2>1 DEF Connected
    <3> QED
      BY <1>8, <2>1, <3>1
  <2>2. CASE m = l
    <3>1. Connected(l, g)' = {p \in 1..Len(nos) : nos[p].state = "kConnected" /\ nos[p].fd = g}
      BY <1>5 DEF Connected
    <3>2. \A p : p \in Connected(l, g)' <=> p \in Connected(l, g) /\ p # o
      BY <1>6, <3>1 DEF Connected
    <3>3. g # f => o \notin Connected(l, g)
      BY <1>6 DEF Connected
    <3> QED
      BY <1>8, <2>2, <3>2, <3>3
  <2> QED
    BY <2>1, <2>2
<1>10. \A m \in LoopIds, g \in Fds : Queued(m, g)' = Queued(m, g)
  BY <1>4 DEF Queued, Queue
<1>11. \A g \in Fds : Owned(g)' <=> Owned(g) /\ g # f
  BY <1>4, <1>5, Distinct DEF Owned, main
<1>12. HeldOnce'
  <2> SUFFICES ASSUME NEW g \in Fds PROVE (Owned(g)' <=> Held(g)') /\ Once(g)'
    BY DEF HeldOnce
  <2>1. CASE g # f
    <3>1. (Held(g)' <=> Held(g)) /\ (Once(g)' <=> Once(g))
      BY <1>9, <1>10, <2>1 DEF Held, Once
    <3> QED
      BY <1>11, <2>1, <3>1 DEF IInv, HeldOnce
  <2>2. CASE g = f
    <3>1. \A m \in LoopIds : Connected(m, g)' = {} /\ Queued(m, g)' = {}
      BY <1>8, <1>9, <1>10, <2>2
    <3> QED
      BY <1>11, <2>2, <3>1 DEF Held, Once
  <2> QED
    BY <2>1, <2>2
<1>13. Known'
  <2> SUFFICES ASSUME NEW m \in LoopIds, NEW g \in Fds
               PROVE  /\ connections'[m][g] = watched'[m][g]
                      /\ watched'[m][g] # 0 => watched'[m][g] \in Connected(m, g)'
                      /\ \A p \in Connected(m, g)' : watched'[m][g] = p
    BY DEF Known
  <2>1. /\ connections[m][g] = watched[m][g]
        /\ watched[m][g] # 0 => watched[m][g] \in Connected(m, g)
        /\ \A p \in Connected(m, g) : watched[m][g] = p
    BY DEF IInv, Known
  <2>2. CASE g # f
    BY <1>5, <1>9, <2>1, <2>2
  <2>3. CASE g = f /\ m = l
    BY <1>5, <1>9, <2>3
  <2>4. CASE g = f /\ m # l
    BY <1>5, <1>8, <1>9, <2>1, <2>4
  <2> QED
    BY <2>2, <2>3, <2>4
<1>14. Pooled'
  <2> SUFFICES ASSUME NEW m \in LoopIds
               PROVE  /\ \A i, j \in 1..Len(pool'[m]) : pool'[m][i] = pool'[m][j] => i = j
                      /\ \A i \in 1..Len(pool'[m]) :
                            object'[m][pool'[m][i]].state = "kDisconnected"
                      /\ \A p \in 1..Len(object'[m]) :
                            \/ object'[m][p].state = "kConnected"
                            \/ \E i \in 1..Len(pool'[m]) : pool'[m][i] = p
    BY DEF Pooled
  <2>1. /\ \A i, j \in 1..Len(pool[m]) : pool[m][i] = pool[m][j] => i = j
        /\ \A i \in 1..Len(pool[m]) : object[m][pool[m][i]].state = "kDisconnected"
        /\ \A p \in 1..Len(object[m]) :
              \/ object[m][p].state = "kConnected"
              \/ \E i \in 1..Len(pool[m]) : pool[m][i] = p
    BY DEF IInv, Pooled
  <2>2. CASE m # l
    BY <1>5, <2>1, <2>2
  <2>3. CASE m = l
    <3> DEFINE k == Len(pool[l])
    <3>1. k \in Nat
      BY <1>1 DEF TypeOK
    <3>2. \A i \in 1..k : pool[l][i] \in 1..Len(object[l])
      <4>1. pool[l] \in Seq(Objects)
        BY <1>1 DEF TypeOK
      <4>2. \A i \in 1..k : pool[l][i] \in Objects
        BY <4>1
      <4>3. \A i \in 1..k : pool[l][i] <= Len(object[l])
        BY <1>1 DEF TypeOK
      <4>4. Len(object[l]) \in Nat
        BY <1>1 DEF TypeOK
      <4> QED
        BY <4>2, <4>3, <4>4 DEF Objects
    <3>3. object'[m] = nos /\ pool'[m] = nps
      BY <1>5, <2>3
    <3>4. /\ Len(nps) = k + 1 /\ nps[k + 1] = o
          /\ \A i \in 1..k : nps[i] = pool[l][i] /\ pool[l][i] # o
      BY <1>6
    <3> HIDE DEF k
    <3>5. \A i \in 1..(k + 1) : i \in 1..k \/ i = k + 1
      BY <3>1
    <3>6. \A i, j \in 1..(k + 1) : nps[i] = nps[j] => i = j
      BY <2>1, <2>3, <3>4, <3>5 DEF k
    <3>7. \A i \in 1..(k + 1) : nos[nps[i]].state = "kDisconnected"
      BY <1>6, <2>1, <2>3, <3>2, <3>4, <3>5 DEF k
    <3>8. \A p \in 1..Len(nos) : \/ nos[p].state = "kConnected"
                                 \/ \E i \in 1..(k + 1) : nps[i] = p
      <4> SUFFICES ASSUME NEW p \in 1..Len(nos)
                   PROVE  \/ nos[p].state = "kConnected"
                          \/ \E i \in 1..(k + 1) : nps[i] = p
        OBVIOUS
      <4>1. k + 1 \in 1..(k + 1) /\ \A i \in 1..k : i \in 1..(k + 1)
        BY <3>1
      <4>2. CASE p = o
        BY <3>4, <4>1, <4>2
      <4>3. CASE p # o
        <5>1. p \in 1..Len(object[l]) /\ (nos[p].state = object[l][p].state)
          BY <1>6, <4>3
        <5>2. CASE object[l][p].state = "kConnected"
          BY <5>1, <5>2
        <5>3. CASE \E i \in 1..k : pool[l][i] = p
          BY <3>4, <4>1, <5>3
        <5>4. \/ object[l][p].state = "kConnected"
              \/ \E i \in 1..k : pool[l][i] = p
          BY <2>1, <2>3, <5>1 DEF k
        <5> QED
          BY <5>2, <5>3, <5>4
      <4> QED
        BY <4>2, <4>3
    <3> QED
      BY <3>3, <3>4, <3>6, <3>7, <3>8
  <2> QED
    BY <2>2, <2>3
<1>15. Scheduled'
  <2> SUFFICES ASSUME NEW m \in LoopIds
               PROVE  /\ \A p \in events'[m] : /\ p \in 1..Len(object'[m])
                                               /\ object'[m][p].state = "kConnected"
                      /\ phase'[m] = "events" => running'[m] = <<>>
    BY DEF Scheduled
  <2>1. /\ \A p \in events[m] : /\ p \in 1..Len(object[m])
                                /\ object[m][p].state = "kConnected"
        /\ phase[m] = "events" => running[m] = <<>>
    BY DEF IInv, Scheduled
  <2> QED
    BY <1>4, <1>5, <1>6, <2>1
<1>16. IdleKept'
  <2>1. f # idleFd
    BY <1>3 DEF Owned
  <2>2. idleFd # 0 => idleFd \in Fds
    BY <1>1, ServerAssumption DEF TypeOK, Fds
  <2> QED
    BY <1>4, <1>5, <2>1, <2>2 DEF IInv, IdleKept, main
<1> QED
  BY <1>1, <1>12, <1>13, <1>14, <1>15, <1>16 DEF IInv

\* A queued descriptor gets an object that no other client has.
LEMMA CreateConnectionStep ==
    ASSUME IInv, NEW l \in LoopIds, CreateConnection(l)
    PROVE  IInv'
<1>1. TypeOK' /\ TypeOK
  BY LoopType DEF IInv, LoopStep
<1>f. PICK f : f = Head(running[l])
  OBVIOUS
<1>2. PICK o, nos, nps :
            /\ Created(object[l], pool[l], f, o, nos, nps)
            /\ object' = [object EXCEPT ![l] = nos] /\ pool' = [pool EXCEPT ![l] = nps]
            /\ connections' = [connections EXCEPT ![l][f] = o]
            /\ watched' = [watched EXCEPT ![l][f] = o]
            /\ 1 \in Queued(l, f)
  BY <1>f, CreateConnectionOK
<1>3. /\ UNCHANGED <<owner, main, functors, events, phase>>
      /\ phase[l] = "poll" /\ running[l] # <<>>
      /\ running' = [running EXCEPT ![l] = Tail(running[l])]
  BY DEF CreateConnection
<1>4. /\ f \in Fds /\ Len(object[l]) <= Len(nos)
      /\ o \in 1..Len(nos) /\ nos[o].state = "kConnected" /\ nos[o].fd = f
      /\ \A p \in 1..Len(nos) : p # o => p \in 1..Len(object[l]) /\ nos[p] = object[l][p]
      /\ o \in 1..Len(object[l]) => object[l][o].state = "kDisconnected"
      /\ Len(nps) <= Len(pool[l])
      /\ \A i \in 1..Len(nps) : nps[i] = pool[l][i] /\ nps[i] # o
      /\ \A i \in 1..Len(pool[l]) : pool[l][i] # o => i \in 1..Len(nps)
      /\ nos \in Seq(ObjectType) /\ nps \in Seq(Objects)
  BY <1>2 DEF Created
<1>5. /\ Len(object[l]) \in Nat /\ Len(nos) \in Nat /\ Len(nps) \in Nat /\ Len(pool[l]) \in Nat
      /\ \A p \in 1..Len(object[l]) : p \in 1..Len(nos)
      /\ \A i \in 1..Len(nps) : i \in 1..Len(pool[l])
      /\ o # 0
  <2>1. /\ Len(object[l]) \in Nat /\ Len(nos) \in Nat /\ Len(nps) \in Nat
        /\ Len(pool[l]) \in Nat
    <3>1. object[l] \in Seq(ObjectType) /\ pool[l] \in Seq(Objects)
      BY <1>1 DEF TypeOK
    <3>2. nos \in Seq(ObjectType) /\ nps \in Seq(Objects)
      BY <1>4
    <3> QED
      BY <3>1, <3>2
  <2> QED
    BY <1>4, <2>1
<1>6. \A m \in LoopIds : /\ object'[m] = IF m = l THEN nos ELSE object[m]
                         /\ pool'[m] = IF m = l THEN nps ELSE pool[m]
  BY <1>1, <1>2 DEF TypeOK
<1>7. \A m \in LoopIds, g \in Fds :
         connections'[m][g] = IF m = l /\ g = f THEN o ELSE connections[m][g]
  <2>1. connections \in [LoopIds -> [Fds -> {0} \cup Objects]]
    BY <1>1 DEF TypeOK
  <2>2. connections' = [connections EXCEPT ![l][f] = o] /\ f \in Fds
    BY <1>2, <1>4
  <2> QED
    BY <2>1, <2>2
<1>8. \A m \in LoopIds, g \in Fds :
         watched'[m][g] = IF m = l /\ g = f THEN o ELSE watched[m][g]
  <2>1. watched \in [LoopIds -> [Fds -> {0} \cup Objects]]
    BY <1>1 DEF TypeOK
  <2>2. watched' = [watched EXCEPT ![l][f] = o] /\ f \in Fds
    BY <1>2, <1>4
  <2> QED
    BY <2>1, <2>2
<1>9. /\ Owned(f) /\ Once(f)
      /\ \A m \in LoopIds : Connected(m, f) = {}
      /\ \A m \in LoopIds : \A i \in Queued(m, f) : m = l /\ i = 1
  BY <1>2, <1>4 DEF IInv, HeldOnce, Held, Once
<1>10. \A m \in LoopIds, g \in Fds :
          Connected(m, g)' = IF g # f THEN Connected(m, g) ELSE IF m = l THEN {o} ELSE {}
  <2> SUFFICES ASSUME NEW m \in LoopIds, NEW g \in Fds
               PROVE  Connected(m, g)' = IF g # f THEN Connected(m, g)
                                         ELSE IF m = l THEN {o} ELSE {}
    OBVIOUS
  <2>1. CASE m # l
    <3>1. Connected(m, g)' = Connected(m, g)
      BY <1>6, <2>1 DEF Connected
    <3> QED
      BY <1>9, <2>1, <3>1
  <2>2. CASE m = l
    <3>1. Connected(l, g)' = {p \in 1..Len(nos) : nos[p].state = "kConnected" /\ nos[p].fd = g}
      BY <1>6 DEF Connected
    <3>2. \A p : p \in Connected(l, g)' <=> p \in Connected(l, g) \/ (p = o /\ g = f)
      <4> TAKE p
      <4>1. CASE p = o
        BY <1>4, <3>1, <4>1 DEF Connected
      <4>2. CASE p # o
        BY <1>4, <1>5, <3>1, <4>2 DEF Connected
      <4> QED
        BY <4>1, <4>2
    <3> QED
      BY <1>9, <2>2, <3>2
  <2> QED
    BY <2>1, <2>2
<1>11. /\ \A m \in LoopIds, g \in Fds : m # l => Queued(m, g)' = Queued(m, g)
       /\ \A g \in Fds : \A i : i \in Queued(l, g)' <=> i \in Nat \ {0} /\ i + 1 \in Queued(l, g)
  <2>1. /\ Queue(l)' = Tail(Queue(l)) /\ Queue(l) # <<>> /\ Queue(l) \in Seq(Fds)
        /\ \A m \in LoopIds : m # l => Queue(m)' = Queue(m)
    <3>1. running[l] \in Seq(Fds) /\ functors[l] \in Seq(Fds)
      BY <1>1 DEF TypeOK
    <3>2. \A m \in LoopIds : running'[m] = IF m = l THEN Tail(running[l]) ELSE running[m]
      BY <1>1, <1>3 DEF TypeOK
    <3>3. /\ Tail(running[l]) \o functors[l] = Tail(running[l] \o functors[l])
          /\ running[l] \o functors[l] # <<>> /\ running[l] \o functors[l] \in Seq(Fds)
      BY <1>3, <3>1, QueuedTail
    <3> QED
      BY <1>3, <3>2, <3>3 DEF Queue
  <2>2. \A m \in LoopIds, g \in Fds : m # l => Queued(m, g)' = Queued(m, g)
    BY <2>1 DEF Queued
  <2>3. \A g \in Fds : \A i : i \in Queued(l, g)' <=> i \in Nat \ {0} /\ i + 1 \in Queued(l, g)
    <3> DEFINE q == Queue(l)
               r == Tail(q)
    <3>1. /\ Len(q) \in Nat /\ Len(r) = Len(q) - 1 /\ Len(r) \in Nat
          /\ \A i \in 1..Len(r) : r[i] = q[i + 1]
      BY <2>1
    <3>2. \A g : Queued(l, g)' = {i \in 1..Len(r) : r[i] = g}
      BY <2>1 DEF Queued
    <3>3. \A g : Queued(l, g) = {i \in 1..Len(q) : q[i] = g}
      BY DEF Queued
    <3> HIDE DEF q, r
    <3>4. \A i : i \in 1..Len(r) <=> i \in Nat \ {0} /\ i + 1 \in 1..Len(q)
      BY <3>1
    <3> QED
      BY <3>1, <3>2, <3>3, <3>4
  <2> QED
    BY <2>2, <2>3
<1>12. \A m \in LoopIds : Queued(m, f)' = {}
  <2> SUFFICES ASSUME NEW m \in LoopIds, NEW i \in Queued(m, f)'
               PROVE  FALSE
    OBVIOUS
  <2>1. CASE m # l
    BY <1>4, <1>9, <1>11, <2>1
  <2>2. CASE m = l
    <3>1. i \in Nat \ {0} /\ i + 1 \in Queued(l, f)
      BY <1>4, <1>11, <2>2
    <3> QED
      BY <1>9, <3>1
  <2> QED
    BY <2>1, <2>2
<1>13. \A g \in Fds : Owned(g)' <=> Owned(g)
  BY <1>3 DEF Owned, main
<1>14. HeldOnce'
  <2> SUFFICES ASSUME NEW g \in Fds PROVE (Owned(g)' <=> Held(g)') /\ Once(g)'
    BY DEF HeldOnce
  <2>1. CASE g # f
    <3>1. 1 \notin Queued(l, g)
      BY <1>2, <2>1 DEF Queued
    <3>2. \A i \in Queued(l, g) : i \in Nat /\ i # 0
      <4>1. Len(Queue(l)) \in Nat
        BY <1>1, QueuedTail, <1>3 DEF TypeOK, Queue
      <4> QED
        BY <4>1 DEF Queued
    <3>3. \A m \in LoopIds : Queued(m, g)' # {} <=> Queued(m, g) # {}
      <4> SUFFICES ASSUME NEW m \in LoopIds PROVE Queued(m, g)' # {} <=> Queued(m, g) # {}
        OBVIOUS
      <4>1. CASE m # l
        BY <1>11, <4>1
      <4>2. CASE m = l
        <5>1. Queued(l, g)' # {} => Queued(l, g) # {}
          BY <1>11
        <5>2. ASSUME NEW i \in Queued(l, g) PROVE i - 1 \in Queued(l, g)'
          <6>1. i - 1 \in Nat \ {0} /\ (i - 1) + 1 = i
            BY <3>1, <3>2
          <6> QED
            BY <1>11, <6>1
        <5> QED
          BY <4>2, <5>1, <5>2
      <4> QED
        BY <4>1, <4>2
    <3>4. Held(g)' <=> Held(g)
      BY <1>10, <2>1, <3>3 DEF Held
    <3>5. Once(g) /\ (Owned(g) <=> Held(g))
      BY DEF IInv, HeldOnce
    <3>6. \A m, n \in LoopIds : \A i \in Queued(m, g)', j \in Queued(n, g)' : m = n /\ i = j
      <4> SUFFICES ASSUME NEW m \in LoopIds, NEW n \in LoopIds,
                          NEW i \in Queued(m, g)', NEW j \in Queued(n, g)'
                   PROVE  m = n /\ i = j
        OBVIOUS
      <4>1. m = n
        BY <3>3, <3>5 DEF Once
      <4>2. CASE m # l
        BY <1>11, <3>5, <4>1, <4>2 DEF Once
      <4>3. CASE m = l
        <5>1. i \in Nat /\ j \in Nat /\ i + 1 \in Queued(l, g) /\ j + 1 \in Queued(l, g)
          BY <1>11, <4>1, <4>3
        <5>2. i + 1 = j + 1
          BY <3>5, <5>1 DEF Once
        <5> QED
          BY <4>1, <5>1, <5>2
      <4> QED
        BY <4>2, <4>3
    <3>7. Once(g)'
      BY <1>10, <2>1, <3>3, <3>5, <3>6 DEF Once
    <3> QED
      BY <1>13, <3>4, <3>5, <3>7
  <2>2. CASE g = f
    <3>1. \A m \in LoopIds : /\ Queued(m, g)' = {}
                             /\ Connected(m, g)' = IF m = l THEN {o} ELSE {}
      BY <1>10, <1>12, <2>2
    <3>2. Held(g)' /\ Once(g)'
      BY <3>1 DEF Held, Once
    <3> QED
      BY <1>9, <1>13, <2>2, <3>2
  <2> QED
    BY <2>1, <2>2
<1>15. Known'
  <2> SUFFICES ASSUME NEW m \in LoopIds, NEW g \in Fds
               PROVE  /\ connections'[m][g] = watched'[m][g]
                      /\ watched'[m][g] # 0 => watched'[m][g] \in Connected(m, g)'
                      /\ \A p \in Connected(m, g)' : watched'[m][g] = p
    BY DEF Known
  <2>1. /\ connections[m][g] = watched[m][g]
        /\ watched[m][g] # 0 => watched[m][g] \in Connected(m, g)
        /\ \A p \in Connected(m, g) : watched[m][g] = p
    BY DEF IInv, Known
  <2>2. CASE g # f
    BY <1>7, <1>8, <1>10, <2>1, <2>2
  <2>3. CASE g = f /\ m = l
    BY <1>7, <1>8, <1>10, <2>3
  <2>4. CASE g = f /\ m # l
    BY <1>7, <1>8, <1>9, <1>10, <2>1, <2>4
  <2> QED
    BY <2>2, <2>3, <2>4
<1>16. Pooled'
  <2> SUFFICES ASSUME NEW m \in LoopIds
               PROVE  /\ \A i, j \in 1..Len(pool'[m]) : pool'[m][i] = pool'[m][j] => i = j
                      /\ \A i \in 1..Len(pool'[m]) :
                            object'[m][pool'[m][i]].state = "kDisconnected"
                      /\ \A p \in 1..Len(object'[m]) :
                            \/ object'[m][p].state = "kConnected"
                            \/ \E i \in 1..Len(pool'[m]) : pool'[m][i] = p
    BY DEF Pooled
  <2>1. /\ \A i, j \in 1..Len(pool[m]) : pool[m][i] = pool[m][j] => i = j
        /\ \A i \in 1..Len(pool[m]) : object[m][pool[m][i]].state = "kDisconnected"
        /\ \A p \in 1..Len(object[m]) :
              \/ object[m][p].state = "kConnected"
              \/ \E i \in 1..Len(pool[m]) : pool[m][i] = p
    BY DEF IInv, Pooled
  <2>2. CASE m # l
    BY <1>6, <2>1, <2>2
  <2>3. CASE m = l
    <3>1. object'[m] = nos /\ pool'[m] = nps
      BY <1>6, <2>3
    <3>2. \A i \in 1..Len(nps) : pool[l][i] \in 1..Len(nos)
      <4>1. pool[l] \in Seq(Objects) /\ \A i \in 1..Len(pool[l]) : pool[l][i] <= Len(object[l])
        BY <1>1 DEF TypeOK
      <4>2. \A i \in 1..Len(pool[l]) : pool[l][i] \in Objects
        BY <4>1
      <4> QED
        BY <1>4, <1>5, <4>1, <4>2 DEF Objects
    <3>3. \A i, j \in 1..Len(nps) : nps[i] = nps[j] => i = j
      BY <1>4, <1>5, <2>1, <2>3
    <3>4. \A i \in 1..Len(nps) : nos[nps[i]].state = "kDisconnected"
      <4> SUFFICES ASSUME NEW i \in 1..Len(nps) PROVE nos[nps[i]].state = "kDisconnected"
        OBVIOUS
      <4>1. i \in 1..Len(pool[l]) /\ nps[i] = pool[l][i] /\ nps[i] # o
        BY <1>4, <1>5
      <4>2. pool[l][i] \in 1..Len(nos)
        BY <3>2
      <4>3. nos[pool[l][i]] = object[l][pool[l][i]]
        BY <1>4, <4>1, <4>2
      <4>4. object[l][pool[l][i]].state = "kDisconnected"
        BY <2>1, <2>3, <4>1
      <4> QED
        BY <4>1, <4>3, <4>4
    <3>5. \A p \in 1..Len(nos) : \/ nos[p].state = "kConnected"
                                 \/ \E i \in 1..Len(nps) : nps[i] = p
      <4> SUFFICES ASSUME NEW p \in 1..Len(nos), nos[p].state # "kConnected"
                   PROVE  \E i \in 1..Len(nps) : nps[i] = p
        OBVIOUS
      <4>1. p # o /\ p \in 1..Len(object[l]) /\ nos[p] = object[l][p]
        BY <1>4
      <4>2. PICK i \in 1..Len(pool[l]) : pool[l][i] = p
        BY <2>1, <2>3, <4>1
      <4>3. i \in 1..Len(nps)
        BY <1>4, <4>1, <4>2
      <4>4. nps[i] = p
        BY <1>4, <4>2, <4>3
      <4> QED
        BY <4>3, <4>4
    <3> QED
      BY <3>1, <3>3, <3>4, <3>5
  <2> QED
    BY <2>2, <2>3
<1>17. Scheduled'
  <2> SUFFICES ASSUME NEW m \in LoopIds
               PROVE  /\ \A p \in events'[m] : /\ p \in 1..Len(object'[m])
                                               /\ object'[m][p].state = "kConnected"
                      /\ phase'[m] = "events" => running'[m] = <<>>
    BY DEF Scheduled
  <2>1. /\ \A p \in events[m] : /\ p \in 1..Len(object[m])
                                /\ object[m][p].state = "kConnected"
        /\ phase[m] = "events" => running[m] = <<>>
    BY DEF IInv, Scheduled
  <2>2. CASE m # l
    BY <1>1, <1>3, <1>6, <2>1, <2>2 DEF TypeOK
  <2>3. CASE m = l
    BY <1>3, <1>4, <1>5, <1>6, <2>1, <2>3
  <2> QED
    BY <2>2, <2>3
<1>18. IdleKept'
  BY <1>3 DEF IInv, IdleKept, main
<1> QED
  BY <1>1, <1>14, <1>15, <1>16, <1>17, <1>18 DEF IInv

-----------------------------------------------------------------------------
(* The theorems.                                                            *)

\* Every step keeps the invariant.
LEMMA NextIInv == IInv /\ [Next]_vars => IInv'
<1> SUFFICES ASSUME IInv, [Next]_vars PROVE IInv'
  OBVIOUS
<1>1. CASE UNCHANGED vars
  <2>1. UNCHANGED <<loop, functors>>
    BY <1>1 DEF vars
  <2>2. /\ Known' /\ Pooled' /\ Scheduled'
        /\ \A l \in LoopIds, f \in Fds : Connected(l, f)' = Connected(l, f)
    BY <2>1, LoopsKept DEF IInv
  <2>3. \A l \in LoopIds, f \in Fds : Queued(l, f)' = Queued(l, f)
    BY <2>1 DEF Queued, Queue, loop
  <2>4. TypeOK' /\ IdleKept' /\ \A f \in Fds : Owned(f)' <=> Owned(f)
    BY <1>1 DEF IInv, vars, main, loop, TypeOK, IdleKept, Owned
  <2> QED
    BY <2>2, <2>3, <2>4, HeldKept DEF IInv
<1>2. CASE (\E c \in Clients : Connect(c) \/ Leave(c)) \/ OpenFile \/ CloseFile
  BY <1>2, OthersStep
<1>3. CASE MainStep
  BY <1>3, OthersStep, IdleStep, AcceptStep DEF MainStep
<1>4. CASE \E l \in LoopIds : LoopStep(l)
  BY <1>4, PollStep, HandleEventStep, CreateConnectionStep DEF LoopStep
<1> QED
  BY <1>1, <1>2, <1>3, <1>4 DEF Next

\* The invariant holds of every behaviour.
LEMMA Invariance == Spec => []IInv
BY InitIInv, NextIInv, PTL DEF Spec

\* Everything keeps its type; a loop never needs more objects than the process
\* has descriptors, since it takes a new one only while all of them are used.
THEOREM TypeCorrect == Spec => []TypeOK
<1>1. IInv => TypeOK
  BY DEF IInv
<1> QED
  BY Invariance, <1>1, PTL

\* However the threads interleave, every client's descriptor is in exactly one
\* place: no number is leaked, closed twice or served by two loops.
THEOREM DescriptorHasOneOwner == Spec => []OneOwner
<1>1. IInv => OneOwner
  <2> SUFFICES ASSUME IInv, NEW f \in Fds
               PROVE  /\ IF Owned(f) THEN \E h \in Holders(f) : Holders(f) = {h}
                                     ELSE Holders(f) = {}
                      /\ \A l \in LoopIds :
                            /\ (watched[l][f] # 0) <=> (Connected(l, f) # {})
                            /\ connections[l][f] = watched[l][f]
                            /\ watched[l][f] # 0 => object[l][watched[l][f]].fd = f
    BY DEF OneOwner, Owned
  <2>1. (Owned(f) <=> Held(f)) /\ Once(f)
    BY DEF IInv, HeldOnce
  <2>2. /\ \A h \in Holders(f) : \E l \in LoopIds :
              \/ \E i \in Queued(l, f) : h = <<<<l, "queue">>, i>>
              \/ \E o \in Connected(l, f) : h = <<<<l, "object">>, o>>
        /\ \A l \in LoopIds : /\ \A i \in Queued(l, f) : <<<<l, "queue">>, i>> \in Holders(f)
                              /\ \A o \in Connected(l, f) : <<<<l, "object">>, o>> \in Holders(f)
    BY DEF Holders
  <2>3. Held(f) <=> \E h : h \in Holders(f)
    BY <2>2 DEF Held
  <2>4. \A g, h \in Holders(f) : g = h
    BY <2>1, <2>2 DEF Once
  <2>5. \A l \in LoopIds : /\ (watched[l][f] # 0) <=> (Connected(l, f) # {})
                           /\ connections[l][f] = watched[l][f]
                           /\ watched[l][f] # 0 => object[l][watched[l][f]].fd = f
    <3> SUFFICES ASSUME NEW l \in LoopIds
                 PROVE  /\ (watched[l][f] # 0) <=> (Connected(l, f) # {})
                        /\ connections[l][f] = watched[l][f]
                        /\ watched[l][f] # 0 => object[l][watched[l][f]].fd = f
      OBVIOUS
    <3>1. /\ connections[l][f] = watched[l][f]
          /\ watched[l][f] # 0 => watched[l][f] \in Connected(l, f)
          /\ \A o \in Connected(l, f) : watched[l][f] = o
      BY DEF IInv, Known
    <3>2. \A o \in Connected(l, f) : o # 0 /\ object[l][o].fd = f
      <4>1. Len(object[l]) \in Nat
        BY DEF IInv, TypeOK
      <4> QED
        BY <4>1 DEF Connected
    <3> QED
      BY <3>1, <3>2
  <2> QED
    BY <2>1, <2>3, <2>4, <2>5
<1> QED
  BY Invariance, <1>1, PTL

\* An object is free for the next client exactly when it is in the pool, once.
THEOREM PoolIsConsistent == Spec => []PoolConsistent
<1>1. IInv => PoolConsistent
  <2> SUFFICES ASSUME IInv, NEW l \in LoopIds
               PROVE  /\ IsInjective(pool[l])
                      /\ \A o \in 1..Len(object[l]) :
                            (object[l][o].state = "kDisconnected") <=> Contains(pool[l], o)
    BY DEF PoolConsistent
  <2>1. /\ \A i, j \in 1..Len(pool[l]) : pool[l][i] = pool[l][j] => i = j
        /\ \A i \in 1..Len(pool[l]) : object[l][pool[l][i]].state = "kDisconnected"
        /\ \A o \in 1..Len(object[l]) :
              \/ object[l][o].state = "kConnected"
              \/ \E i \in 1..Len(pool[l]) : pool[l][i] = o
    BY DEF IInv, Pooled
  <2>2. pool[l] \in Seq(Objects)
    BY DEF IInv, TypeOK
  <2>3. DOMAIN pool[l] = 1..Len(pool[l])
    BY <2>2
  <2>4. IsInjective(pool[l])
    BY <2>1, <2>3 DEF IsInjective
  <2>5. \A o : Contains(pool[l], o) <=> \E i \in 1..Len(pool[l]) : pool[l][i] = o
    BY DEF Contains
  <2> QED
    BY <2>1, <2>4, <2>5
<1> QED
  BY Invariance, <1>1, PTL
=============================================================================
