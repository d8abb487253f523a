---------------------------- MODULE Connection ----------------------------
(***************************************************************************)
(* A TcpConnection (net/TcpConnection.cpp) with its Channel and the kernel *)
(* socket below it.  A connection is a record, a member function an        *)
(* operator from connections to connections, so that a caller that makes   *)
(* several calls is their composition.  The steps that follow are those    *)
(* the loop, the network and the peer take whatever the application is;    *)
(* TcpConnection and HttpServer add the application.  Bytes are numbered   *)
(* in the order in which it hands them over, so that a byte lost, repeated *)
(* or overtaken shows.                                                     *)
(***************************************************************************)
EXTENDS Naturals, Sequences

CONSTANTS
    SndBuf,                 \* bytes the socket's send buffer holds
    WriteCompleteCallback   \* BOOLEAN: writeCompleteCallback_ is set

ASSUME SndBufAssumption == SndBuf \in Nat \ {0}

VARIABLES
    conn,       \* the connection: see ConnType
    peer,       \* the other end: "open", "fin" (it closed its half) or "reset"
    received,   \* the bytes the peer has read
    handed      \* history: the bytes the application has handed over

connVars == <<conn, peer, received, handed>>

Bytes == Seq(Nat)

States == {"kConnecting", "kConnected", "kDisconnecting", "kDisconnected"}

ConnType ==
    [state        : States,
     reading      : BOOLEAN,        \* reading_
     isReading    : BOOLEAN,        \* the channel watches kReadEventLT
     isWriting    : BOOLEAN,        \* the channel watches kWriteEvent
     outputBuffer : Bytes,
     sendFile     : BOOLEAN,        \* sendFile_ is not null
     file         : Bytes,          \* the whole file
     offset       : Nat,            \* where the next sendfile starts
     sendLen      : Nat,            \* what is left to send
     sndbuf       : Bytes,          \* in the kernel, not yet read by the peer
     fin          : BOOLEAN,        \* shutdownWrite has been called
     broken       : BOOLEAN,        \* the peer has reset the socket
     tasks        : Seq({"writeComplete", "forceClose"}), \* functors queued
     aborted      : BOOLEAN,        \* epoll_ctl failed: LOG_SYSFATAL
     strained     : BOOLEAN]        \* history: see Strain

\* A connection as the constructor and connectReset leave it.
NewConnection ==
    [state |-> "kConnecting", reading |-> TRUE, isReading |-> FALSE,
     isWriting |-> FALSE, outputBuffer |-> <<>>, sendFile |-> FALSE,
     file |-> <<>>, offset |-> 0, sendLen |-> 0, sndbuf |-> <<>>, fin |-> FALSE,
     broken |-> FALSE, tasks |-> <<>>, aborted |-> FALSE, strained |-> FALSE]

ConnTypeOK ==
    /\ conn \in ConnType
    /\ Len(conn.sndbuf) <= SndBuf
    /\ conn.sendLen <= Len(conn.file)
    /\ conn.state \in {"kConnecting", "kDisconnected"} => ~conn.isReading /\ ~conn.isWriting
    /\ peer \in {"open", "fin", "reset"}
    /\ received \in Bytes
    /\ handed \in Bytes

ConnInit ==
    /\ conn = NewConnection
    /\ peer = "open"
    /\ received = <<>>
    /\ handed = <<>>

----------------------------------------------------------------------------
(* The kernel's side of write and sendfile: a non-blocking socket takes    *)
(* what fits; a reset or shut down socket takes nothing (EPIPE).           *)

Fails(c) == c.broken \/ c.fin

Least(m, n) == IF m < n THEN m ELSE n

Accepted(c, size) == IF Fails(c) THEN 0 ELSE Least(size, SndBuf - Len(c.sndbuf))

First(s, n) == SubSeq(s, 1, n)
Rest(s, n) == SubSeq(s, n + 1, Len(s))

\* What a sendfile for all that is left takes: nothing beyond the end of file.
FileAccepted(c) ==
    IF c.offset >= Len(c.file) THEN 0
    ELSE Accepted(c, Least(c.sendLen, Len(c.file) - c.offset))

----------------------------------------------------------------------------
(* The member functions.                                                   *)

Queue(c, task) == [c EXCEPT !.tasks = Append(@, task)]

QueueWriteComplete(c) ==
    IF WriteCompleteCallback THEN Queue(c, "writeComplete") ELSE c

\* Mutant: the FIN does not wait for the output buffer.
ShutdownInLoopAtOnce(c) == [c EXCEPT !.fin = TRUE]

ShutdownInLoop(c) == IF c.isWriting THEN c ELSE [c EXCEPT !.fin = TRUE]

Shutdown(c) ==
    IF c.state = "kConnected"
    THEN ShutdownInLoop([c EXCEPT !.state = "kDisconnecting"])
    ELSE c

\* History: a file had to wait behind bytes of the output buffer, needs a
\* second sendfile, was given up before its end, came too late to be sent, or
\* could not be opened (see StreamIntact).
Strain(c, when) == [c EXCEPT !.strained = @ \/ when]

\* Mutant: a file is declared finished by its first sendfile.
SentFileAll(c) ==
    LET n == FileAccepted(c)
    IN  [c EXCEPT !.sndbuf = @ \o SubSeq(c.file, c.offset + 1, c.offset + n),
                  !.offset = @ + n, !.sendLen = 0]

\* One sendfile and the bookkeeping after it.  sendfile(2) advances the offset
\* it is given a pointer to; the caller then advances it once more.
SentFile(c) ==
    LET n == FileAccepted(c)
    IN  [Strain(c, 0 < n /\ n < c.sendLen) EXCEPT
            !.sndbuf = @ \o SubSeq(c.file, c.offset + 1, c.offset + n),
            !.offset = @ + n + n, !.sendLen = @ - n]

SetSendFile(c, bytes) ==
    [Strain(c, c.sendLen > 0 \/ c.state # "kConnected") EXCEPT
        !.sendFile = TRUE, !.file = bytes, !.offset = 0, !.sendLen = Len(bytes)]

\* A file that could not be opened: sendfile takes nothing from descriptor -1,
\* as if it were at the end, and sendLen_ has never been set (File.cpp:92-104);
\* if it happens to be 0, nothing is sent, as without a file.
SetLostFile(c, bytes) ==
    [Strain(SetSendFile(c, bytes), TRUE) EXCEPT !.offset = Len(bytes)]

SendFileReset(c) ==
    [Strain(c, c.sendLen > 0) EXCEPT
        !.sendFile = FALSE, !.file = <<>>, !.offset = 0, !.sendLen = 0]

\* The sendfile at the end of sendInLoop, which fails if there is anything to
\* send to a socket that takes nothing.  sendFile_ is given up here only if
\* there is a callback to call.
SendFileInLoop(c) ==
    LET sent == SentFile(c)
    IN  IF Fails(c) /\ c.offset < Len(c.file) THEN c
        ELSE IF sent.sendLen > 0 THEN [sent EXCEPT !.isWriting = TRUE]
        ELSE IF WriteCompleteCallback THEN QueueWriteComplete(SendFileReset(sent))
        ELSE sent

\* Mutant: a direct write although older bytes wait in the output buffer.
DirectAlways(c) == TRUE

\* Nothing is waiting: the socket is written directly.
Direct(c) == ~c.isWriting /\ c.outputBuffer = <<>>

\* Mutant: the callback is queued after a partial write, too.
FinishedEarly(c, n, size) == n > 0

Finished(c, n, size) == n = size /\ (c.sendFile => c.sendLen = 0)

\* Mutant: what the kernel did not take is buffered, but EPOLLOUT is not
\* asked for.
BufferedSilently(c, rest) == [c EXCEPT !.outputBuffer = @ \o rest]

Buffered(c, rest) ==
    [Strain(c, c.sendLen > 0) EXCEPT !.outputBuffer = @ \o rest, !.isWriting = TRUE]

\* A direct write if nothing is waiting, the remainder to the output buffer;
\* the file, if there is one, only when nothing remained.
SendInLoop(c, data) ==
    LET n     == IF Direct(c) THEN Accepted(c, Len(data)) ELSE 0
        fault == Direct(c) /\ Fails(c)
        sent  == [c EXCEPT !.sndbuf = @ \o First(data, n)]
        told  == IF Direct(c) /\ ~fault /\ Finished(c, n, Len(data))
                 THEN QueueWriteComplete(sent) ELSE sent
    IN  IF c.state = "kDisconnected" THEN c
        ELSE IF ~fault /\ n < Len(data) THEN Buffered(told, Rest(data, n))
        ELSE IF c.sendFile THEN SendFileInLoop(told) ELSE told

\* send(Buffer *) in the loop's thread
SendBuffer(c, data) == IF c.state = "kConnected" THEN SendInLoop(c, data) ELSE c

\* Mutant: the last write does not look at the state any more.
DrainedNoShutdown(c) == QueueWriteComplete([c EXCEPT !.isWriting = FALSE])

\* The end of both branches of handleWrite: everything is written.
Drained(c) ==
    LET d == QueueWriteComplete([c EXCEPT !.isWriting = FALSE])
    IN  IF c.state = "kDisconnecting" THEN ShutdownInLoop(d) ELSE d

\* The output buffer, or if there is none the file; never both in one event.
HandleWrite(c) ==
    LET n    == Accepted(c, Len(c.outputBuffer))
        out  == [c EXCEPT !.sndbuf = @ \o First(c.outputBuffer, n),
                          !.outputBuffer = Rest(@, n)]
        file == SentFile(c)
    IN  IF ~c.isWriting THEN c
        ELSE IF c.outputBuffer # <<>>
        THEN IF n > 0 /\ out.outputBuffer = <<>> THEN Drained(out) ELSE out
        ELSE IF c.sendFile
        THEN IF file.sendLen < c.sendLen /\ file.sendLen = 0
             THEN Drained(SendFileReset(file)) ELSE file
        ELSE c

\* handleClose and the connectDestroyed it leads to: the channel leaves epoll,
\* the descriptor is closed; the kernel still delivers what it has.
HandleClose(c) ==
    [c EXCEPT !.state = "kDisconnected", !.isReading = FALSE, !.isWriting = FALSE]

ForceClose(c) ==
    IF c.state \in {"kConnected", "kDisconnecting"}
    THEN Queue([c EXCEPT !.state = "kDisconnecting"], "forceClose")
    ELSE c

ForceCloseInLoop(c) ==
    IF c.state \in {"kConnected", "kDisconnecting"} THEN HandleClose(c) ELSE c

\* Changing the interest of a channel whose descriptor is closed is an
\* EPOLL_CTL_ADD of a bad descriptor, on which Epoll::update aborts.
Watch(c, on) ==
    IF c.state = "kDisconnected"
    THEN [c EXCEPT !.aborted = TRUE]
    ELSE [c EXCEPT !.isReading = on, !.reading = on]

StartRead(c) == IF ~c.reading \/ ~c.isReading THEN Watch(c, TRUE) ELSE c
StopRead(c) == IF c.reading \/ c.isReading THEN Watch(c, FALSE) ELSE c

----------------------------------------------------------------------------
(* The steps of the loop's thread.                                         *)

Alive == ~conn.aborted

\* connectEstablished, called by createConnection
ConnectEstablished ==
    /\ conn.state = "kConnecting"
    /\ conn' = [conn EXCEPT !.state = "kConnected", !.isReading = TRUE]
    /\ UNCHANGED <<peer, received, handed>>

Registered == conn.isReading \/ conn.isWriting

\* EPOLLIN with the peer's FIN, or whatever a reset raises: read returns 0 and
\* handleClose follows.
EventRead ==
    /\ Alive
    /\ conn.isReading
    /\ peer # "open"
    /\ conn' = HandleClose(conn)
    /\ UNCHANGED <<peer, received, handed>>

\* EPOLLHUP without EPOLLIN: reading is off and both directions are down.  The
\* read callback that follows the close callback finds the descriptor closed.
EventHup ==
    /\ Alive
    /\ ~conn.isReading /\ Registered
    /\ peer = "reset" \/ (peer = "fin" /\ conn.fin)
    /\ conn' = HandleClose(conn)
    /\ UNCHANGED <<peer, received, handed>>

\* EPOLLOUT
EventWrite ==
    /\ Alive
    /\ conn.isWriting
    /\ Len(conn.sndbuf) < SndBuf
    /\ peer # "reset"
    /\ conn' = HandleWrite(conn)
    /\ UNCHANGED <<peer, received, handed>>

----------------------------------------------------------------------------
(* The network and the peer.                                               *)

\* One byte reaches the peer.
Deliver ==
    /\ conn.sndbuf # <<>>
    /\ peer # "reset"
    /\ received' = Append(received, Head(conn.sndbuf))
    /\ conn' = [conn EXCEPT !.sndbuf = Tail(@)]
    /\ UNCHANGED <<peer, handed>>

\* The peer closes its half; it may go on reading.
PeerFin ==
    /\ peer = "open"
    /\ conn.state # "kConnecting"
    /\ peer' = "fin"
    /\ UNCHANGED <<conn, received, handed>>

PeerReset ==
    /\ peer # "reset"
    /\ conn.state # "kConnecting"
    /\ peer' = "reset"
    /\ conn' = [conn EXCEPT !.broken = TRUE, !.sndbuf = <<>>]
    /\ UNCHANGED <<received, handed>>

----------------------------------------------------------------------------
(* Properties of every connection.                                         *)

Open == conn.state \in {"kConnected", "kDisconnecting"}

\* What has left the application's hands, in the order the peer will see it.
Stream == received \o conn.sndbuf \o conn.outputBuffer

\* No sendfile will send anything any more, and yet bytes are outstanding: the
\* second one started behind the end of the file, or there is no file.  What
\* waits for the file to be sent, EPOLLOUT and with it the FIN, waits for ever.
Exhausted == conn.sendFile /\ conn.sendLen > 0 /\ conn.offset >= Len(conn.file)

\* The file waits for EPOLLOUT, but the interest in it went with the header that
\* was in the output buffer (lines 300-303): the next send will take it along.
Stranded == conn.sendLen > 0 /\ ~conn.isWriting

\* A connection that is up, and the use it is made of.  Beyond it files lose
\* bytes: a second sendfile starts at the wrong offset (line 323), and a header
\* that waits for EPOLLOUT takes its file's interest in writing, and its FIN,
\* with it when it is out (lines 300-313).
Undisturbed == Open /\ ~conn.broken /\ ~conn.strained

\* As long as the connection is up, what the peer has read, what the kernel
\* holds and the output buffer are, in this order, the bytes handed over, but
\* for a file still to send: sendInLoop and handleWrite lose, repeat and
\* reorder nothing, with files in between that wait for EPOLLOUT.
StreamIntact ==
    Undisturbed =>
        /\ Len(Stream) + conn.sendLen = Len(handed)
        /\ Stream = First(handed, Len(Stream))

\* At any time, closed or reset, the peer has read a prefix of it.
PeerReadsPrefix ==
    /\ Len(received) <= Len(handed)
    /\ received = First(handed, Len(received))

\* shutdown() promises to send what is pending first (TcpConnection.cpp:172-174):
\* when the FIN is sent all that was handed over, the file included, is in the
\* kernel or has been read by the peer.  And it is not forgotten: until it is
\* sent, or a close is queued, EPOLLOUT is watched, so that handleWrite goes on
\* with what it waits for (and does not get there if that is Exhausted).
FinAfterData ==
    /\ Undisturbed /\ conn.fin => received \o conn.sndbuf = handed
    /\ conn.state = "kDisconnecting" =>
          \/ conn.fin \/ conn.isWriting
          \/ \E i \in 1..Len(conn.tasks) : conn.tasks[i] = "forceClose"

\* EPOLLOUT is watched exactly while there is something to write: otherwise the
\* level-triggered event spins the loop (TcpConnection.cpp:303, 327) or the
\* remainder is never written.
WritingIffPending ==
    Undisturbed =>
        (conn.isWriting <=> conn.outputBuffer # <<>> \/ conn.sendLen > 0)
=============================================================================
