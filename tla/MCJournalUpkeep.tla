--------------------------- MODULE MCJournalUpkeep ---------------------------
EXTENDS JournalUpkeep, TLC

\* Every stage has the same grace: more than two heartbeats, as in the code.
MCGrace == [s \in Active |-> 3]

Symmetry == Permutations(Ops)
=============================================================================
