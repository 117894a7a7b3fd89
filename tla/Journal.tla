------------------------------ MODULE Journal ------------------------------
(***************************************************************************)
(* The operation journal: the durable row of every operation, its stage    *)
(* machine (packages/wallet-core/src/jobs/fsm.ts) and the writes that go   *)
(* through OperationJournalService.  Every write is one load and one put   *)
(* of a single key under the service's transition lock (module Lock), so   *)
(* a write is one step and a killed worker cannot leave half of it.        *)
(***************************************************************************)
EXTENDS Integers

CONSTANTS
    Rows,     \* row ids
    NoRow     \* an id the caller does not have (undefined)

ASSUME RowsAssumption == NoRow \notin Rows

VARIABLES
    journal,  \* the row stored under each id
    epoch,    \* deletion epoch of the profile (ProfileDeletionState.epochs)
    deletion, \* how far a deletion of the profile has got
    life      \* the worker's lifetime: a row's createdAt against bootCutoff

Active == {"queued", "pending", "simulating", "proving", "submitting"}
Terminal == {"succeeded", "failed", "cancelled"}
PreSubmit == {"queued", "pending", "simulating", "proving"}

\* A row: its stage, whether progress carries a transaction hash, the profile
\* incarnation it was filed for and the lifetime that created it.
Row == [stage : Active \cup Terminal \cup {"absent"}, hash : BOOLEAN,
        epoch : Nat, life : Nat]
AbsentRow == [stage |-> "absent", hash |-> FALSE, epoch |-> 0, life |-> 0]

Stage(r) == IF r = NoRow THEN "absent" ELSE journal[r].stage
Present(r) == Stage(r) # "absent"

\* Mutant: submitting may still be cancelled.
CanTransitionLate(from, to) ==
    \/ to \in {"failed", "cancelled"} /\ from \in Active
    \/ <<from, to>> \in {<<"queued", "pending">>, <<"pending", "simulating">>,
         <<"simulating", "proving">>, <<"simulating", "succeeded">>,
         <<"proving", "submitting">>, <<"submitting", "succeeded">>}

CanTransition(from, to) ==
    \/ to = "failed" /\ from \in Active
    \/ to = "cancelled" /\ from \in PreSubmit
    \/ <<from, to>> \in {<<"queued", "pending">>, <<"pending", "simulating">>,
         <<"simulating", "proving">>, <<"simulating", "succeeded">>,
         <<"proving", "submitting">>, <<"submitting", "succeeded">>}

\* transitionOperation accepts: the row exists, the stage machine allows the
\* edge, and an on-chain operation does not take the simulating shortcut.
Legal(r, to) ==
    /\ Present(r)
    /\ CanTransition(Stage(r), to)
    /\ ~(to = "succeeded" /\ Stage(r) = "simulating")

\* The row an accepted transition writes; failedFrom carries the hash of a
\* row that failed in submitting.
NextRow(old, to) ==
    [old EXCEPT !.stage = to,
                !.hash = \/ to \in {"submitting", "succeeded"}
                         \/ to = "failed" /\ old.stage = "submitting" /\ old.hash]

Write(r, to) == journal' = [journal EXCEPT ![r] = NextRow(@, to)]

\* markJournal: a refused write, or an operation without a row, is logged only.
Mark(r, to) == IF Legal(r, to) THEN Write(r, to) ELSE UNCHANGED journal

\* transitionIfStage: the stage is read again under the lock.
TransitionIfStage(r, allowed, to) ==
    IF Stage(r) \in allowed THEN Mark(r, to) ELSE UNCHANGED journal

\* Mutant: the create trusts the profile id, not its incarnation.
CreatableById(e) == deletion = "none"

\* createOperation's fence, read under the transition lock: the profile is
\* listed (a reserved one is absent) and is the incarnation e.
Creatable(e) == deletion = "none" /\ e = epoch

Create(r, stage, e) ==
    journal' = [journal EXCEPT ![r] = [stage |-> stage, hash |-> FALSE, epoch |-> e, life |-> life]]

\* purgeForProfile: snapshot and deletion of every row under one lock hold.
PurgeRows == journal' = [r \in Rows |-> AbsentRow]
=============================================================================
