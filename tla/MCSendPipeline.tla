--------------------------- MODULE MCSendPipeline ---------------------------
(* Instances of SendPipeline for TLC. *)
EXTENDS SendPipeline, TLC

MCRows == {QueuedRow(s) : s \in Dapps} \cup {FreshRow(s) : s \in Sends}

\* One send, a transfer or a dApp send; two of them only while a sweep for an
\* ended session is under way, without deaths, deletions and faults.
Overlap ==
    \/ Cardinality({s \in Sends : pc[s] # "idle"}) <= 1
    \/ sweep # {} /\ life = 0 /\ epoch = 0 /\ faults = 0

\* Liveness runs without the reapers (a send must end without their help)
\* and without deletions and deaths, and the user cancels the first send's
\* queued row at most.
FirstRow == {QueuedRow(s) : s \in {CHOOSE d \in Dapps : TRUE}}

LiveNext ==
    \/ \E s \in Sends : Request(s) \/ SendStep(s)
    \/ \E r \in FirstRow : CancelAsked(r)
    \/ \E r \in Rows : CancelStep(r)
    \/ Unlock \/ LockWallet

\* Every await of a send settles (a popup times out, the node answers or its
\* client gives up), and a cancel or a sweep that has started goes on.
FairSpec ==
    /\ Init /\ [][LiveNext]_vars
    /\ \A s \in Sends : WF_vars(SendStep(s))
    /\ WF_vars(\E r \in Rows : CancelStep(r))
=============================================================================
