--------------------------- MODULE MCTimerManager ---------------------------
(***************************************************************************)
(* TimerManager for TLC.  Time ends at MaxTime, hence no deadlock check.   *)
(***************************************************************************)
EXTENDS TimerManager
=============================================================================
