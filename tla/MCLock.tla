------------------------------- MODULE MCLock -------------------------------
(* Lock for TLC: a few calls; a timer that cannot be armed makes a lock     *)
(* without watchdog of one grant, and of a whole run.                       *)
EXTENDS Lock

\* A hung critical section must not stop the others when every timer is armed.
SpecWatchdog == LockSpec /\ FairTimers
=============================================================================
