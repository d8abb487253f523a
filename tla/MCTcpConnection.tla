-------------------------- MODULE MCTcpConnection --------------------------
(***************************************************************************)
(* TcpConnection for TLC.  A closed connection with nothing queued and     *)
(* nothing in the kernel is done, hence no deadlock check.                 *)
(***************************************************************************)
EXTENDS TcpConnection
=============================================================================
