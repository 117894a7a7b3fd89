----------------------------- MODULE MCMigrator -----------------------------
(* The engine alone for TLC: started again after every kill.  Migration 2   *)
(* sets a row the store already has and one it lacks and removes a third,   *)
(* migration 3 rewrites one of them; k4 is only read.                       *)
EXTENDS Migrator, TLC

CONSTANTS k1, k2, k3, k4

MCOriginal == k1 :> 0 @@ k2 :> Absent @@ k3 :> 0 @@ k4 :> 0
MCSets == 2 :> {k1, k2} @@ 3 :> {k2}
MCRemoves == 2 :> {k3} @@ 3 :> {k1}
MCReads == 2 :> {k4} @@ 3 :> {}

FairSpec == EngineSpec /\ WF_engineVars(Start \/ Run) /\ WF_engineVars(StopIdle)

\* Killed and failing runs converge: when faults stop, a store that this build
\* can judge reaches the newest version and stays there with the barrier down
\* (migrator.ts 4-6).
Converges ==
    IsValidMarker(version) /\ backup.version <= MaxVersion
        ~> [](version = MaxVersion /\ data = ShapeAt(MaxVersion) /\ ~running)
=============================================================================
