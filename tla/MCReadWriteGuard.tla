-------------------------- MODULE MCReadWriteGuard --------------------------
(* ReadWriteGuard for TLC.                                                 *)
EXTENDS ReadWriteGuard

FairSpec == GuardSpec /\ GuardFairness
=============================================================================
