----------------------------- MODULE MCAsyncLog -----------------------------
(***************************************************************************)
(* AsyncLog for TLC.  After stop() everything comes to rest, hence no      *)
(* deadlock check.                                                         *)
(***************************************************************************)
EXTENDS AsyncLog
=============================================================================
