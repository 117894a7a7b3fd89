-------------------------- MODULE MCMigrationBoot --------------------------
(* The boot sequence for TLC, over a store with two migrations to go: the   *)
(* first may not stay behind, the last may.                                        *)
EXTENDS MigrationBoot, TLC

CONSTANTS k1, k2

MCOriginal == k1 :> 0 @@ k2 :> 0
MCSets == 2 :> {k1} @@ 3 :> {}
MCRemoves == 2 :> {} @@ 3 :> {k2}
MCReads == 2 :> {} @@ 3 :> {}
=============================================================================
