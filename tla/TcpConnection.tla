--------------------------- MODULE TcpConnection ---------------------------
(***************************************************************************)
(* A Connection with an application that makes any calls in any order.     *)
(* Everything happens in the loop's thread, one handler, functor or call   *)
(* at a time; the kernel, the network and the peer move between any two of *)
(* them.                                                                   *)
(***************************************************************************)
EXTENDS Connection

CONSTANTS
    Lengths,                \* sizes of the buffers the application sends
    FileLengths,            \* sizes of the files it sends after a buffer
    Calls,                  \* the calls it makes besides send and shutdown
    MaxSends,               \* bound: calls of send
    MaxTasks                \* bound: functors of this connection in the queue

ASSUME SizesAssumption ==
    /\ Lengths \subseteq Nat \ {0}
    /\ FileLengths \subseteq Nat
    /\ Calls \subseteq {"forceClose", "readControl"}
    /\ MaxSends \in Nat /\ MaxTasks \in Nat

VARIABLE sends  \* calls of send so far

vars == <<connVars, sends>>

TypeOK == ConnTypeOK /\ sends \in 0..MaxSends

Init == ConnInit /\ sends = 0

----------------------------------------------------------------------------
(* The application, in the loop's thread (a callback of this or of another *)
(* connection).                                                            *)

\* n bytes that have not been handed over yet
Fresh(n) == [i \in 1..n |-> Len(handed) + i]

\* send(Buffer *); outside kConnected it does nothing.
Send(n) ==
    /\ Alive
    /\ conn.state = "kConnected"
    /\ sends < MaxSends
    /\ sends' = sends + 1
    /\ conn' = SendBuffer(conn, Fresh(n))
    /\ handed' = handed \o Fresh(n)
    /\ UNCHANGED <<peer, received>>

\* setSendFile, then send(Buffer *): a header and the file after it.
SendWithFile(n, f) ==
    /\ Alive
    /\ conn.state = "kConnected"
    /\ sends < MaxSends
    /\ sends' = sends + 1
    /\ LET bytes == Fresh(n + f)
       IN  /\ conn' = SendBuffer(SetSendFile(conn, Rest(bytes, n)), First(bytes, n))
           /\ handed' = handed \o bytes
    /\ UNCHANGED <<peer, received>>

\* send(std::string_view) in the loop's thread goes to sendInLoop in every
\* state; bytes that come after the FIN are not promised to the peer.
SendMessage(n) ==
    /\ Alive
    /\ conn.state # "kConnecting"
    /\ sends < MaxSends
    /\ sends' = sends + 1
    /\ conn' = SendInLoop(conn, Fresh(n))
    /\ handed' = IF conn.state = "kDisconnected" \/ conn.fin
                 THEN handed ELSE handed \o Fresh(n)
    /\ UNCHANGED <<peer, received>>

AppShutdown ==
    /\ Alive
    /\ conn.state = "kConnected"
    /\ conn' = Shutdown(conn)
    /\ UNCHANGED <<peer, received, handed, sends>>

AppForceClose ==
    /\ "forceClose" \in Calls
    /\ Alive
    /\ conn.state \in {"kConnected", "kDisconnecting"}
    /\ Len(conn.tasks) < MaxTasks
    /\ conn' = ForceClose(conn)
    /\ UNCHANGED <<peer, received, handed, sends>>

AppReadControl ==
    /\ "readControl" \in Calls
    /\ Alive
    /\ conn.state # "kConnecting"
    /\ conn' \in {StartRead(conn), StopRead(conn)}
    /\ UNCHANGED <<peer, received, handed, sends>>

----------------------------------------------------------------------------
(* The loop's thread.                                                      *)

\* The oldest functor of this connection runs.
RunTask ==
    /\ Alive
    /\ conn.tasks # <<>>
    /\ LET rest == [conn EXCEPT !.tasks = Tail(@)]
       IN  conn' = IF Head(conn.tasks) = "forceClose" THEN ForceCloseInLoop(rest) ELSE rest
    /\ UNCHANGED <<peer, received, handed, sends>>

LoopStep ==
    \/ RunTask
    \/ (ConnectEstablished \/ EventRead \/ EventHup \/ EventWrite) /\ UNCHANGED sends

Next ==
    \/ LoopStep
    \/ \E n \in Lengths :
          \/ Send(n)
          \/ SendMessage(n)
          \/ \E f \in FileLengths : SendWithFile(n, f)
    \/ AppShutdown
    \/ AppForceClose
    \/ AppReadControl
    \/ (Deliver \/ PeerFin \/ PeerReset) /\ UNCHANGED sends

\* The loop handles what epoll reports and what is queued; a network that is
\* not broken delivers.  Neither the application nor the peer has to act.
Fairness == WF_vars(LoopStep) /\ WF_vars(Deliver /\ UNCHANGED sends)

Spec == Init /\ [][Next]_vars /\ Fairness

----------------------------------------------------------------------------
(* Properties.                                                             *)

\* writeCompleteCallback_ is queued only when all that was handed over has
\* left the user space buffers.
CompleteWhenEmpty ==
    [][Len(conn'.tasks) > Len(conn.tasks) /\ conn'.tasks[Len(conn'.tasks)] = "writeComplete"
         => conn'.strained \/ (conn'.outputBuffer = <<>> /\ conn'.sendLen = 0)]_vars

\* With a network that delivers, what is pending is written, unless the
\* connection is closed first, or it is a file that no event sends any
\* more: handleWrite has overrun it (lines 318-323), or forgotten it (line 303).
OutputFlushed ==
    (conn.outputBuffer # <<>> \/ conn.sendLen > 0) ~>
        \/ conn.outputBuffer = <<>> /\ conn.sendLen = 0
        \/ ~Open \/ conn.aborted
        \/ Exhausted \/ Stranded

\* shutdown() gets to its FIN, forceClose() to the close, with whatever output
\* pending and whatever has become of it, unless sendfile sends nothing more and
\* the loop goes round with EPOLLOUT for ever (TcpConnection.cpp:318, 341).
ShutdownCompletes ==
    (conn.state = "kDisconnecting") ~> (conn.fin \/ ~Open \/ conn.aborted \/ Exhausted)
=============================================================================
