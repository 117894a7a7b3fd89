-------------------------- MODULE MCSessionManager --------------------------
(* Instances of SessionManager for TLC.                                    *)
EXTENDS SessionManager, TLC

Symmetry == Permutations(Calls)
=============================================================================
