-------------------------- MODULE MCExecutionMutex --------------------------
(* One lane for TLC: three capped calls of one origin, one of another and  *)
(* one without caps.                                                       *)
EXTENDS ExecutionMutex, TLC

CONSTANTS c1, c2, c3, c4, c5, app1, app2

MCOriginOf == c1 :> app1 @@ c2 :> app1 @@ c3 :> app2 @@ c4 :> app2 @@ c5 :> app1

FairSpec == Spec /\ Fairness
=============================================================================
