---------------------------- MODULE MCEventLoop ----------------------------
(***************************************************************************)
(* EventLoopThread for TLC: an EventLoop in its thread, two users of it,   *)
(* one I/O channel, a bounded number of calls.  Once the thread has ended  *)
(* nothing has to happen any more, hence no deadlock check.                *)
(***************************************************************************)
EXTENDS EventLoopThread
=============================================================================
