----------------------------- MODULE TcpServer -----------------------------
(***************************************************************************)
(* TcpServer (net/TcpServer.cpp) with the pools of connections of the I/O  *)
(* loops (net/Epoll.cpp).  The main thread accepts and hands descriptors,  *)
(* round robin, to loops on other threads; a loop gives each of them a     *)
(* TcpConnection object, new or recycled.  What they share is the          *)
(* process's table of descriptors, where a number that one thread closes   *)
(* is at once given out again to another.                                  *)
(*                                                                         *)
(* Of a connection only its existence matters here (TcpConnection,         *)
(* HttpServer), of a loop the order events - functors (EventLoop).         *)
(***************************************************************************)
EXTENDS Integers, SequencesExt

CONSTANTS
    Clients,            \* each connects once
    Blocked,            \* those with an address in blocks_ip
    Loops,              \* number of I/O threads
    MaxFd,              \* bound: descriptors of the process, numbered from 1
    WorkerConnections,  \* worker_connections, -1 for no limit
    MaxFiles,           \* bound: files the process opens besides
    free, idle, file    \* descriptors that are no connection's

ASSUME ServerAssumption ==
    /\ Blocked \subseteq Clients
    /\ Loops \in Nat \ {0} /\ MaxFd \in Nat \ {0}
    /\ WorkerConnections \in Nat \cup {-1} /\ MaxFiles \in Nat
    /\ free # idle /\ free # file /\ idle # file
    /\ Clients \cap {free, idle, file} = {}

VARIABLES
    owner,          \* the descriptor table: what each number stands for
    backlog,        \* connections waiting in the listening socket
    edge,           \* BOOLEAN: the main loop has its event (EPOLLET) to come
    accepting,      \* where acceptHandRead is, "poll" outside
    idleFd,         \* idleFd_, 0 for an invalid one
    next,           \* next_ of EventLoopThreadPool
    functors,       \* by loop: descriptors queued for createConnection
    running,        \* by loop: those taken by runFunctors
    events,         \* by loop: objects whose events are to be handled
    phase,          \* by loop: "poll", or "events" until they are handled
    object,         \* by loop: the TcpConnection objects, see ObjectType
    pool,           \* by loop: connectionsPool
    connections,    \* by loop: connections_, 0 for no object
    watched,        \* by loop: the object that epoll reports for a descriptor
    client,         \* by client: see ClientState
    left,           \* the clients that have closed their side
    files           \* files opened so far

main == <<backlog, edge, accepting, idleFd, next>>
loop == <<running, events, phase, object, pool, connections, watched>>
vars == <<owner, main, functors, loop, client, left, files>>

Fds     == 1..MaxFd
LoopIds == 0..Loops - 1
Objects == 1..MaxFd

ObjectType == [state : {"kConnecting", "kConnected", "kDisconnected"}, fd : Fds]

ClientState == {"new", "waiting", "accepted", "established", "refused", "closed"}

TypeOK ==
    /\ owner \in [Fds -> Clients \cup {free, idle, file}]
    /\ backlog \in Seq(Clients)
    /\ edge \in BOOLEAN
    /\ accepting \in {"poll", "accept", "closeIdle", "acceptIdle", "dropIdle", "openIdle"}
    /\ idleFd \in 0..MaxFd
    /\ next \in LoopIds
    /\ functors \in [LoopIds -> Seq(Fds)] /\ running \in [LoopIds -> Seq(Fds)]
    /\ events \in [LoopIds -> SUBSET Objects]
    /\ phase \in [LoopIds -> {"poll", "events"}]
    /\ object \in [LoopIds -> Seq(ObjectType)] /\ pool \in [LoopIds -> Seq(Objects)]
    /\ \A l \in LoopIds :
          /\ Len(object[l]) <= MaxFd
          /\ \A i \in 1..Len(pool[l]) : pool[l][i] <= Len(object[l])
    /\ connections \in [LoopIds -> [Fds -> {0} \cup Objects]]
    /\ watched \in [LoopIds -> [Fds -> {0} \cup Objects]]
    /\ client \in [Clients -> ClientState]
    /\ left \subseteq Clients
    /\ files \in 0..MaxFiles

Init ==
    /\ owner = [f \in Fds |-> IF f = 1 THEN idle ELSE free]
    /\ backlog = <<>> /\ edge = FALSE /\ accepting = "poll" /\ idleFd = 1 /\ next = 0
    /\ functors = [l \in LoopIds |-> <<>>] /\ running = [l \in LoopIds |-> <<>>]
    /\ events = [l \in LoopIds |-> {}] /\ phase = [l \in LoopIds |-> "poll"]
    /\ object = [l \in LoopIds |-> <<>>] /\ pool = [l \in LoopIds |-> <<>>]
    /\ connections = [l \in LoopIds |-> [f \in Fds |-> 0]]
    /\ watched = connections
    /\ client = [c \in Clients |-> "new"] /\ left = {} /\ files = 0

----------------------------------------------------------------------------
(* Descriptors.                                                            *)

FreeFds == {f \in Fds : owner[f] = free}

\* open and accept return the lowest number.
NewFd == Min(FreeFds)

----------------------------------------------------------------------------
(* Clients, and other users of descriptors in the process.                 *)

Connect(c) ==
    /\ client[c] = "new"
    /\ client' = [client EXCEPT ![c] = "waiting"]
    /\ backlog' = Append(backlog, c)
    /\ edge' = TRUE
    /\ UNCHANGED <<owner, accepting, idleFd, next, functors, loop, left, files>>

\* To leave earlier makes no difference before the object is established.
Leave(c) ==
    /\ client[c] = "established" /\ c \notin left
    /\ left' = left \cup {c}
    /\ UNCHANGED <<owner, main, functors, loop, client, files>>

OpenFile ==
    /\ files < MaxFiles /\ FreeFds # {}
    /\ files' = files + 1
    /\ owner' = [owner EXCEPT ![NewFd] = file]
    /\ UNCHANGED <<main, functors, loop, client, left>>

CloseFile ==
    /\ \E f \in Fds : owner[f] = file /\ owner' = [owner EXCEPT ![f] = free]
    /\ UNCHANGED <<main, functors, loop, client, left, files>>

----------------------------------------------------------------------------
(* The main thread: acceptHandRead.                                        *)

AcceptEvent ==
    /\ accepting = "poll" /\ edge
    /\ accepting' = "accept"
    /\ edge' = FALSE
    /\ UNCHANGED <<owner, backlog, idleFd, next, functors, loop, client, left, files>>

\* EMFILE comes before EAGAIN: accept takes a number first.
AcceptFails ==
    /\ accepting = "accept"
    /\ FreeFds = {} \/ backlog = <<>>
    /\ accepting' = IF FreeFds = {} THEN "closeIdle" ELSE "poll"
    /\ UNCHANGED <<owner, backlog, edge, idleFd, next, functors, loop, client, left, files>>

Admitted(c, f) == c \notin Blocked /\ (WorkerConnections = -1 \/ f <= WorkerConnections)

\* Mutant: the index runs past the last loop.
NewConnectionNoWrap(c, f) ==
    /\ owner' = [owner EXCEPT ![f] = c]
    /\ functors' = [functors EXCEPT ![next] = Append(@, f)]
    /\ next' = next + 1
    /\ client' = [client EXCEPT ![c] = "accepted"]

\* newConnection, getNextLoop and queueInLoop.
NewConnection(c, f) ==
    /\ owner' = [owner EXCEPT ![f] = c]
    /\ functors' = [functors EXCEPT ![next] = Append(@, f)]
    /\ next' = (next + 1) % Loops
    /\ client' = [client EXCEPT ![c] = "accepted"]

Refuse(c) ==
    /\ client' = [client EXCEPT ![c] = "refused"]
    /\ UNCHANGED <<owner, functors, next>>

\* Mutant: one connection for each event, as if it were level-triggered.
AcceptOne ==
    /\ accepting = "accept"
    /\ FreeFds # {} /\ backlog # <<>>
    /\ backlog' = Tail(backlog)
    /\ LET c == Head(backlog)
       IN  IF Admitted(c, NewFd) THEN NewConnection(c, NewFd) ELSE Refuse(c)
    /\ accepting' = "poll"
    /\ UNCHANGED <<edge, idleFd, loop, left, files>>

Accept ==
    /\ accepting = "accept"
    /\ FreeFds # {} /\ backlog # <<>>
    /\ backlog' = Tail(backlog)
    /\ LET c == Head(backlog)
       IN  IF Admitted(c, NewFd) THEN NewConnection(c, NewFd) ELSE Refuse(c)
    /\ UNCHANGED <<edge, accepting, idleFd, loop, left, files>>

\* The EMFILE branch, one system call at a time; close(-1) does nothing.
CloseIdle ==
    /\ accepting = "closeIdle"
    /\ owner' = IF idleFd = 0 THEN owner ELSE [owner EXCEPT ![idleFd] = free]
    /\ accepting' = "acceptIdle"
    /\ UNCHANGED <<backlog, edge, idleFd, next, functors, loop, client, left, files>>

AcceptIdle ==
    /\ accepting = "acceptIdle"
    /\ IF FreeFds = {} \/ backlog = <<>>
       THEN idleFd' = 0 /\ UNCHANGED <<owner, backlog>>
       ELSE /\ idleFd' = NewFd
            /\ owner' = [owner EXCEPT ![NewFd] = Head(backlog)]
            /\ backlog' = Tail(backlog)
    /\ accepting' = "dropIdle"
    /\ UNCHANGED <<edge, next, functors, loop, client, left, files>>

\* Mutant: what was accepted in its place stays open.
DropIdleKeeps ==
    /\ accepting = "dropIdle"
    /\ accepting' = "openIdle"
    /\ UNCHANGED <<owner, client, backlog, edge, idleFd, next, functors, loop, left, files>>

DropIdle ==
    /\ accepting = "dropIdle"
    /\ IF idleFd = 0 THEN UNCHANGED <<owner, client>>
       ELSE /\ owner' = [owner EXCEPT ![idleFd] = free]
            /\ client' = [client EXCEPT ![owner[idleFd]] = "refused"]
    /\ accepting' = "openIdle"
    /\ UNCHANGED <<backlog, edge, idleFd, next, functors, loop, left, files>>

OpenIdle ==
    /\ accepting = "openIdle"
    /\ IF FreeFds = {} THEN idleFd' = 0 /\ UNCHANGED owner
       ELSE idleFd' = NewFd /\ owner' = [owner EXCEPT ![NewFd] = idle]
    /\ accepting' = "accept"
    /\ UNCHANGED <<backlog, edge, next, functors, loop, client, left, files>>

----------------------------------------------------------------------------
(* An I/O loop l.                                                          *)

\* Objects whose client has closed its side and whose data has been read.
Ended(l) == {o \in 1..Len(object[l]) :
                 (\E f \in Fds : watched[l][f] = o) /\ owner[object[l][o].fd] \in left}

\* epoll_wait returns for an event or for the eventfd (EventLoop).
Poll(l) ==
    /\ phase[l] = "poll" /\ running[l] = <<>>
    /\ Ended(l) # {} \/ functors[l] # <<>>
    /\ events' = [events EXCEPT ![l] = Ended(l)]
    /\ phase' = [phase EXCEPT ![l] = "events"]
    /\ UNCHANGED <<owner, main, functors, running, object, pool, connections, watched,
                   client, left, files>>

\* Mutant: the object is recycled and the descriptor stays open.
DestroyNoClose(l, o) ==
    LET f == object[l][o].fd
    IN  /\ object' = [object EXCEPT ![l][o].state = "kDisconnected"]
        /\ watched' = [watched EXCEPT ![l][f] = 0]
        /\ connections' = [connections EXCEPT ![l][f] = 0]
        /\ pool' = [pool EXCEPT ![l] = Append(@, connections[l][f])]
        /\ UNCHANGED <<owner, client>>

\* handleClose, connectDestroyed and removeChannel: the channel leaves epoll,
\* the object goes to the pool, the descriptor is closed.
Destroy(l, o) ==
    LET f == object[l][o].fd
    IN  /\ object' = [object EXCEPT ![l][o].state = "kDisconnected"]
        /\ watched' = [watched EXCEPT ![l][f] = 0]
        /\ connections' = [connections EXCEPT ![l][f] = 0]
        /\ pool' = [pool EXCEPT ![l] = Append(@, connections[l][f])]
        /\ owner' = [owner EXCEPT ![f] = free]
        /\ client' = [client EXCEPT ![owner[f]] = "closed"]

\* handleRead at the end of the stream.
HandleEvent(l) ==
    /\ phase[l] = "events"
    /\ \E o \in events[l] :
          /\ events' = [events EXCEPT ![l] = @ \ {o}]
          /\ Destroy(l, o)
    /\ UNCHANGED <<main, functors, running, phase, left, files>>

BeginFunctors(l) ==
    /\ phase[l] = "events" /\ events[l] = {}
    /\ phase' = [phase EXCEPT ![l] = "poll"]
    /\ running' = [running EXCEPT ![l] = functors[l]]
    /\ functors' = [functors EXCEPT ![l] = <<>>]
    /\ UNCHANGED <<owner, main, events, object, pool, connections, watched, client, left, files>>

\* connectEstablished of object o of the objects os.
Establish(l, f, o, os) ==
    /\ object' = [object EXCEPT ![l] = [os EXCEPT ![o] = [state |-> "kConnected", fd |-> f]]]
    /\ connections' = [connections EXCEPT ![l][f] = o]
    /\ watched' = [watched EXCEPT ![l][f] = o]
    /\ client' = [client EXCEPT ![owner[f]] = "established"]

\* Mutant: the object is used and stays in the pool.
CreateConnectionKeepsPool(l) ==
    /\ phase[l] = "poll" /\ running[l] # <<>>
    /\ running' = [running EXCEPT ![l] = Tail(@)]
    /\ LET f == Head(running[l])
           n == Len(object[l])
       IN  IF pool[l] # <<>>
           THEN Establish(l, f, Last(pool[l]), object[l]) /\ UNCHANGED pool
           ELSE Establish(l, f, n + 1, Append(object[l], [state |-> "kConnecting", fd |-> f]))
                /\ UNCHANGED pool
    /\ UNCHANGED <<owner, main, functors, events, phase, left, files>>

CreateConnection(l) ==
    /\ phase[l] = "poll" /\ running[l] # <<>>
    /\ running' = [running EXCEPT ![l] = Tail(@)]
    /\ LET f == Head(running[l])
           n == Len(object[l])
       IN  IF pool[l] # <<>>
           THEN /\ Establish(l, f, Last(pool[l]), object[l])
                /\ pool' = [pool EXCEPT ![l] = Front(@)]
           ELSE /\ Establish(l, f, n + 1, Append(object[l], [state |-> "kConnecting", fd |-> f]))
                /\ UNCHANGED pool
    /\ UNCHANGED <<owner, main, functors, events, phase, left, files>>

----------------------------------------------------------------------------
MainStep == AcceptEvent \/ AcceptFails \/ Accept \/ CloseIdle \/ AcceptIdle \/ DropIdle \/ OpenIdle

LoopStep(l) ==
    Poll(l) \/ HandleEvent(l) \/ BeginFunctors(l) \/ CreateConnection(l)

Next ==
    \/ \E c \in Clients : Connect(c) \/ Leave(c)
    \/ OpenFile \/ CloseFile
    \/ MainStep
    \/ \E l \in LoopIds : LoopStep(l)

\* The threads run; a file that was opened is closed some time.
Fairness ==
    /\ WF_vars(MainStep) /\ WF_vars(CloseFile)
    /\ \A l \in LoopIds : WF_vars(LoopStep(l))

Spec == Init /\ [][Next]_vars /\ Fairness

----------------------------------------------------------------------------
(* Properties.                                                             *)

\* What is queued for loop l, oldest first.
Queue(l) == running[l] \o functors[l]

Queued(l, f) == {i \in 1..Len(Queue(l)) : Queue(l)[i] = f}

Connected(l, f) ==
    {o \in 1..Len(object[l]) : object[l][o].state = "kConnected" /\ object[l][o].fd = f}

\* All that holds descriptor f, by loop.
Holders(f) ==
    UNION {({<<l, "queue">>} \X Queued(l, f)) \cup ({<<l, "object">>} \X Connected(l, f)) :
             l \in LoopIds}

\* A descriptor of a client is in one place of the process: queued once for
\* one loop, or in one connected object, that its loop's map and epoll know by
\* that number.  So no descriptor leaks, and although numbers are reused at
\* once by another thread no loop reads or closes another one's client.
OneOwner ==
    \A f \in Fds :
        /\ IF owner[f] \in Clients /\ f # idleFd
           THEN \E h \in Holders(f) : Holders(f) = {h}
           ELSE Holders(f) = {}
        /\ \A l \in LoopIds :
              /\ (watched[l][f] # 0) <=> (Connected(l, f) # {})
              /\ connections[l][f] = watched[l][f]
              /\ watched[l][f] # 0 => object[l][watched[l][f]].fd = f

\* An object is in use or in the pool, once, never both: two clients never
\* share one.
PoolConsistent ==
    \A l \in LoopIds :
        /\ IsInjective(pool[l])
        /\ \A o \in 1..Len(object[l]) :
              (object[l][o].state = "kDisconnected") <=> Contains(pool[l], o)

\* Every client that connects is served or turned away, though the listening
\* socket reports it once and the process may be out of descriptors.
EveryClientServed ==
    \A c \in Clients :
        (client[c] = "waiting") ~> (client[c] \in {"established", "refused", "closed"})

\* A client that has left gives its descriptor back.
LeaverReleased ==
    \A c \in Clients : (c \in left) ~> (\A f \in Fds : owner[f] # c)
=============================================================================
