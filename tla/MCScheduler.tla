----------------------------- MODULE MCScheduler -----------------------------
(***************************************************************************)
(* Values of the constants for TLC.  Times are in units of 25 ms, so the   *)
(* real constants are Quantum 1, 2, 4, Budget 12 and AgeLimit 15.          *)
(***************************************************************************)
EXTENDS SchedulerRounds, TLC

RealQuantum == 0 :> 1 @@ 1 :> 2 @@ 2 :> 4
=============================================================================
