---------------------------- MODULE MCThreadPool ----------------------------
(***************************************************************************)
(* ThreadPool for TLC.  Workers that nobody gives a task any more sleep    *)
(* for ever, even after stop(), hence no deadlock check.                   *)
(***************************************************************************)
EXTENDS ThreadPool
=============================================================================
