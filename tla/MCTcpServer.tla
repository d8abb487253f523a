---------------------------- MODULE MCTcpServer ----------------------------
(***************************************************************************)
(* TcpServer for TLC.  Clients connect once, hence no deadlock check.      *)
(***************************************************************************)
EXTENDS TcpServer
=============================================================================
