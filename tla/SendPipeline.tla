---------------------------- MODULE SendPipeline ----------------------------
(***************************************************************************)
(* How the wallet sends a transaction, from the request to the journal's   *)
(* last word on it: popup transfers (transfer-executor.ts) and dApp sends  *)
(* (wallet-sdk/background.ts, dapp-interaction/service.ts,                 *)
(* dapp-send-executor.ts, claim-helper.ts) through the shared lane         *)
(* (execution-lane.ts) and the shared prove-and-send sequence              *)
(* (execution-coordinator.ts), against everything that may interrupt it:   *)
(* the user's cancel, the end of the session that authorised it, the       *)
(* deletion of its profile, the journal's reaper, and the death of the     *)
(* worker.                                                                 *)
(*                                                                         *)
(* A step of a send is the code between two awaits.  One profile, one      *)
(* chain and one dApp session: the lane, the baton and the fence are per   *)
(* such scope.  The lane's mutex is the FIFO line ExecutionMutex           *)
(* implements.                                                             *)
(***************************************************************************)
EXTENDS Journal, Sequences, FiniteSets

CONSTANTS
    Transfers,     \* popup transfers, each requested at most once
    Dapps,         \* dApp sends of one wallet-sdk session
    MaxSerial,     \* bound: sessions opened in one lifetime of the worker
    MaxEpoch,      \* bound: deletions of the profile
    MaxKills,      \* bound: deaths of the worker
    MaxFaults      \* bound: storage calls and lookups that fail

Sends == Transfers \cup Dapps
QueuedRow(s) == <<s, "queued">>    \* filed when the dApp message arrives
FreshRow(s) == <<s, "fresh">>      \* created by the executor itself
Owner(r) == r[1]

ASSUME SendAssumption ==
    /\ Transfers \cap Dapps = {}
    /\ Rows = {QueuedRow(s) : s \in Dapps} \cup {FreshRow(s) : s \in Sends}
    /\ {MaxSerial, MaxEpoch, MaxKills, MaxFaults} \subseteq Nat

VARIABLES
    live,         \* serial of the published session, 0 when locked
    lastSerial,
    controllers,  \* activeControllers: the serial a row's controller is tagged with, 0 without one
    aborted,      \* the rows whose controller has fired
    line,         \* the lane: its head holds the execution slot
    sweep,        \* rows abandonDeadSessions has still to visit
    asked,        \* rows some cancelJob of this lifetime has passed the ownership gate for
    abortDue,     \* rows just cancelled whose controller is to be aborted
    arrived,      \* dApp messages in order of arrival
    released,     \* the dApp sends whose baton is released
    pc,           \* where each send is
    queued,       \* hooks.queuedJournalId of each send
    row,          \* journalId of each send
    fence,        \* {epoch, session} captured for each send
    sent,         \* the sends whose transaction reached the network
    faults

sessionVars == <<live, lastSerial, epoch, deletion>>
laneVars == <<controllers, aborted, line>>
cancelVars == <<sweep, asked, abortDue>>
batonVars == <<arrived, released>>
sendVars == <<queued, row, fence>>
vars == <<journal, life, sessionVars, laneVars, cancelVars, batonVars, pc, sendVars, sent, faults>>

Init ==
    /\ journal = [r \in Rows |-> AbsentRow]
    /\ live = 0 /\ lastSerial = 0
    /\ epoch = 0 /\ deletion = "none"
    /\ life = 0 /\ faults = 0
    /\ controllers = [r \in Rows |-> 0]
    /\ aborted = {} /\ line = <<>>
    /\ sweep = {} /\ asked = {} /\ abortDue = {}
    /\ arrived = <<>> /\ released = {}
    /\ pc = [s \in Sends |-> "idle"]
    /\ queued = [s \in Sends |-> NoRow]
    /\ row = [s \in Sends |-> NoRow]
    /\ fence = [s \in Sends |-> [session |-> 0, epoch |-> 0]]
    /\ sent = {}

Goto(s, label) == pc' = [pc EXCEPT ![s] = label]

-----------------------------------------------------------------------------
(* Writes whose failure is caught and logged: the step goes on without.    *)

Fault == faults < MaxFaults /\ faults' = faults + 1

MarkOrLose(r, to) ==
    \/ Mark(r, to) /\ UNCHANGED faults
    \/ r # NoRow /\ Fault /\ UNCHANGED journal

TransitionOrLose(r, allowed, to) ==
    \/ TransitionIfStage(r, allowed, to) /\ UNCHANGED faults
    \/ r # NoRow /\ Fault /\ UNCHANGED journal

-----------------------------------------------------------------------------
(* The session and the profile.                                            *)

\* Every publication or removal of a session starts a sweep of the jobs
\* registered at that moment; concurrent sweeps visit the union.
StartSweep == sweep' = sweep \cup {r \in Rows : controllers[r] # 0}

Unlock ==
    /\ deletion = "none" /\ lastSerial < MaxSerial
    /\ lastSerial' = lastSerial + 1
    /\ live' = lastSerial + 1
    /\ StartSweep
    /\ UNCHANGED <<journal, life, epoch, deletion, laneVars, asked, abortDue, batonVars, pc, sendVars, sent, faults>>

\* An explicit lock or an expiry; the expiry close does not take the facade lock.
LockWallet ==
    /\ live # 0
    /\ live' = 0
    /\ StartSweep
    /\ UNCHANGED <<journal, life, lastSerial, epoch, deletion, laneVars, asked, abortDue, batonVars, pc, sendVars, sent, faults>>

\* deleteProfile, phase 1, holds the facade lock from the new epoch ...
BeginDeletion ==
    /\ deletion = "none" /\ epoch < MaxEpoch
    /\ deletion' = "begun" /\ epoch' = epoch + 1
    /\ UNCHANGED <<journal, life, live, lastSerial, laneVars, cancelVars, batonVars, pc, sendVars, sent, faults>>

\* ... to the close of the deleted profile's session.
CloseDeleted ==
    /\ deletion = "begun"
    /\ deletion' = "closed"
    /\ live' = 0
    /\ IF live # 0 THEN StartSweep ELSE UNCHANGED sweep
    /\ UNCHANGED <<journal, life, lastSerial, epoch, laneVars, asked, abortDue, batonVars, pc, sendVars, sent, faults>>

PurgeProfile ==
    /\ deletion = "closed"
    /\ deletion' = "purged"
    /\ PurgeRows
    /\ UNCHANGED <<life, live, lastSerial, epoch, laneVars, cancelVars, batonVars, pc, sendVars, sent, faults>>

\* The tombstone is cleared; the id may be imported again.
ReleaseProfile ==
    /\ deletion = "purged"
    /\ deletion' = "none"
    /\ UNCHANGED <<journal, life, live, lastSerial, epoch, laneVars, cancelVars, batonVars, pc, sendVars, sent, faults>>

FacadeFree == deletion # "begun"
CanCapture == live # 0 /\ deletion = "none"
Captured == [session |-> live, epoch |-> epoch]

\* isFenceLive; assertFence asks the same under the facade lock.
FenceLive(s) == live = fence[s].session /\ epoch = fence[s].epoch

-----------------------------------------------------------------------------
(* Cancellation.                                                           *)

\* cancelJob up to its gate: the row exists and the active profile owns it.
CancelAsked(r) ==
    /\ r \notin asked
    /\ Present(r) /\ CanCapture
    /\ asked' = asked \cup {r}
    /\ UNCHANGED <<journal, life, sessionVars, laneVars, sweep, abortDue, batonVars, pc, sendVars, sent, faults>>

\* The stage machine decides whether the cancel applies.  A refused or failed
\* write ends the call with the row as it was.
CancelApplied(r) ==
    /\ r \in asked
    /\ Mark(r, "cancelled")
    /\ abortDue' = IF Legal(r, "cancelled") THEN abortDue \cup {r} ELSE abortDue
    /\ UNCHANGED <<life, sessionVars, laneVars, sweep, asked, batonVars, pc, sendVars, sent, faults>>

\* Mutant: the sweep trusts the serial it saw when it started.
SweepRowBlind(r) ==
    /\ r \in sweep
    /\ sweep' = sweep \ {r}
    /\ TransitionIfStage(r, PreSubmit, "cancelled")
    /\ abortDue' = IF Stage(r) \in PreSubmit THEN abortDue \cup {r} ELSE abortDue
    /\ UNCHANGED <<life, sessionVars, laneVars, asked, batonVars, pc, sendVars, sent, faults>>

\* One record of abandonDeadSessions; liveness is read as it is reached.  A
\* write that fails is logged and the sweep moves on.
SweepRow(r) ==
    /\ r \in sweep
    /\ sweep' = sweep \ {r}
    /\ \/ /\ controllers[r] \in {0, live}
          /\ UNCHANGED <<journal, abortDue, faults>>
       \/ /\ controllers[r] \notin {0, live}
          /\ TransitionIfStage(r, PreSubmit, "cancelled")
          /\ abortDue' = IF Stage(r) \in PreSubmit THEN abortDue \cup {r} ELSE abortDue
          /\ UNCHANGED faults
       \/ /\ controllers[r] \notin {0, live}
          /\ Fault /\ UNCHANGED <<journal, abortDue>>
    /\ UNCHANGED <<life, sessionVars, laneVars, asked, batonVars, pc, sendVars, sent>>

\* abortCancelled.
AbortCancelled(r) ==
    /\ r \in abortDue
    /\ abortDue' = abortDue \ {r}
    /\ aborted' = IF controllers[r] # 0 THEN aborted \cup {r} ELSE aborted
    /\ controllers' = [controllers EXCEPT ![r] = 0]
    /\ UNCHANGED <<journal, life, sessionVars, line, sweep, asked, batonVars, pc, sendVars, sent, faults>>


-----------------------------------------------------------------------------
(* Registration.                                                           *)

\* Mutant: a controller is registered whatever the session.
RegisterAlways(s, r) ==
    /\ controllers' = [controllers EXCEPT ![r] = fence[s].session]
    /\ sweep' = IF sweep # {} THEN sweep \cup {r} ELSE sweep

\* registerInFlight of a live session.  A sweep under way iterates the map and
\* reaches what is added to it.
Register(s, r) ==
    /\ live = fence[s].session
    /\ controllers' = [controllers EXCEPT ![r] = fence[s].session]
    /\ sweep' = IF sweep # {} THEN sweep \cup {r} ELSE sweep

NotLive(s) == live # fence[s].session

-----------------------------------------------------------------------------
(* A popup transfer up to its row.                                         *)

\* executeTransfer: the fence is captured as the transfer is requested.
RequestTransfer(s) ==
    /\ s \in Transfers /\ pc[s] = "idle"
    /\ CanCapture
    /\ fence' = [fence EXCEPT ![s] = Captured]
    /\ Goto(s, "create")
    /\ UNCHANGED <<journal, life, sessionVars, laneVars, cancelVars, batonVars, queued, row, sent, faults>>

\* createTransferJournal: the continuation that sees the row registers its
\* controller; an id is known to a canceller only after that.
CreateTransfer(s) ==
    /\ pc[s] = "create" /\ s \in Transfers
    /\ Creatable(fence[s].epoch)
    /\ Create(FreshRow(s), "pending", fence[s].epoch)
    /\ row' = [row EXCEPT ![s] = FreshRow(s)]
    /\ \/ Register(s, FreshRow(s)) /\ Goto(s, "simulate")
       \/ NotLive(s) /\ Goto(s, "failing") /\ UNCHANGED <<controllers, sweep>>
    /\ UNCHANGED <<life, sessionVars, aborted, line, asked, abortDue, batonVars, queued, fence, sent, faults>>

\* createOperation refused or failed: nothing runs unrecorded.
CreateRefused(s) ==
    /\ pc[s] \in {"create", "createFresh"}
    /\ Goto(s, "cleanup")
    /\ UNCHANGED <<journal, life, sessionVars, laneVars, cancelVars, batonVars, sendVars, sent, faults>>

-----------------------------------------------------------------------------
(* A dApp send up to the lane.                                             *)

\* onWalletMessage: the message takes its place behind the baton of the one
\* before; the profile's epoch is captured for the queued row.
Arrive(s) ==
    /\ s \in Dapps /\ pc[s] = "idle"
    /\ arrived' = Append(arrived, s)
    /\ fence' = [fence EXCEPT ![s].epoch = epoch]
    /\ \/ CanCapture /\ Goto(s, "filing")
       \/ Goto(s, "parked")                      \* no row: locked, at a cap, or refused
    /\ UNCHANGED <<journal, life, sessionVars, laneVars, cancelVars, released, queued, row, sent, faults>>

\* tryCreateQueuedJournal: a refused create leaves the send without a queued row.
FileQueued(s) ==
    /\ pc[s] = "filing"
    /\ Goto(s, "parked")
    /\ \/ /\ Creatable(fence[s].epoch)
          /\ Create(QueuedRow(s), "queued", fence[s].epoch)
          /\ queued' = [queued EXCEPT ![s] = QueuedRow(s)]
       \/ ~Creatable(fence[s].epoch) /\ UNCHANGED <<journal, queued>>
    /\ UNCHANGED <<life, sessionVars, laneVars, cancelVars, batonVars, row, fence, sent, faults>>

\* The baton of the message before, if any, is released.
MayDispatch(s) ==
    \A i \in 2 .. Len(arrived) : arrived[i] = s => arrived[i - 1] \in released

\* handleWalletMessage and DappInteractionService.execute up to the decision
\* between a popup and the silent path.  Locked, a session purged with its
\* profile, and a row no longer queued all end the message; a row that cannot
\* be read does not.
Dispatch(s) ==
    /\ pc[s] = "parked" /\ MayDispatch(s) /\ FacadeFree
    /\ \/ Goto(s, "closing") /\ UNCHANGED faults
       \/ /\ CanCapture /\ fence[s].epoch = epoch
          /\ \/ Stage(queued[s]) \in {"queued", "absent"} /\ UNCHANGED faults
             \/ Stage(queued[s]) \notin {"queued", "absent"} /\ Fault
          /\ Goto(s, "popup") \/ Goto(s, "silent")
    /\ UNCHANGED <<journal, life, sessionVars, laneVars, cancelVars, batonVars, sendVars, sent>>

\* Mutant: the baton is released at the approval.
ApproveReleases(s) ==
    /\ pc[s] = "popup"
    /\ Goto(s, "authorise")
    /\ released' = released \cup {s}
    /\ UNCHANGED <<journal, life, sessionVars, laneVars, cancelVars, arrived, sendVars, sent, faults>>

\* approveInteraction claims the interaction.
Approve(s) ==
    /\ pc[s] = "popup"
    /\ Goto(s, "authorise")
    /\ UNCHANGED <<journal, life, sessionVars, laneVars, cancelVars, batonVars, sendVars, sent, faults>>

\* Rejected, closed or timed out; a row cancelled meanwhile closes it too.
ClosePopup(s) ==
    /\ pc[s] = "popup"
    /\ Goto(s, "closing")
    /\ UNCHANGED <<journal, life, sessionVars, laneVars, cancelVars, batonVars, sendVars, sent, faults>>

\* executeAndResolve: the fence of the approval, and the dApp session's row,
\* which a deletion of the profile purges for good.
Authorise(s) ==
    /\ pc[s] = "authorise" /\ FacadeFree
    /\ \/ Goto(s, "closing") /\ UNCHANGED fence
       \/ /\ CanCapture /\ fence[s].epoch = epoch
          /\ fence' = [fence EXCEPT ![s] = Captured]
          /\ Goto(s, "execute")
    /\ UNCHANGED <<journal, life, sessionVars, laneVars, cancelVars, batonVars, queued, row, sent, faults>>

\* silentInteraction captures the same fence ...
AuthoriseSilently(s) ==
    /\ pc[s] = "silent" /\ FacadeFree
    /\ \/ Goto(s, "closing") /\ UNCHANGED fence
       \/ CanCapture /\ fence' = [fence EXCEPT ![s] = Captured] /\ Goto(s, "forward")
    /\ UNCHANGED <<journal, life, sessionVars, laneVars, cancelVars, batonVars, queued, row, sent, faults>>

\* ... and moves the queued row on before it executes; a refusal is left to the claim.
FastForward(s) ==
    /\ pc[s] = "forward"
    /\ MarkOrLose(queued[s], "pending")
    /\ Goto(s, "execute")
    /\ UNCHANGED <<life, sessionVars, laneVars, cancelVars, batonVars, sendVars, sent>>

\* executeOperations refuses without a current Terms acceptance; the silent
\* path settles the row it had moved on.
RefuseTerms(s) ==
    /\ pc[s] = "execute"
    /\ TransitionOrLose(queued[s], {"pending"}, "failed")
    /\ Goto(s, "closing")
    /\ UNCHANGED <<life, sessionVars, laneVars, cancelVars, batonVars, sendVars, sent>>

-----------------------------------------------------------------------------
(* The lane: acquireSlot.                                                  *)

Unregister(r) == controllers' = [r0 \in Rows |-> IF r0 = r THEN 0 ELSE controllers[r0]]

\* The line q without its i-th place: the others move up (RemoveAt of SequencesExt).
Without(q, i) == SubSeq(q, 1, i - 1) \o SubSeq(q, i + 1, Len(q))

\* A send stands in the line at most once; a transfer takes no place in it.
LeaveLine(s) ==
    \/ \E i \in 1 .. Len(line) : line[i] = s /\ line' = Without(line, i)
    \/ (\A i \in 1 .. Len(line) : line[i] # s) /\ UNCHANGED line

\* registerWaitingRecord, in the call's synchronous prefix.
EnterLane(s) ==
    /\ pc[s] = "execute"
    /\ \/ /\ queued[s] = NoRow
          /\ Goto(s, "fence") /\ UNCHANGED <<controllers, sweep>>
       \/ /\ queued[s] # NoRow
          /\ Register(s, queued[s]) /\ Goto(s, "fence")
       \/ /\ queued[s] # NoRow /\ NotLive(s)
          /\ Goto(s, "refused") /\ UNCHANGED <<controllers, sweep>>
    /\ UNCHANGED <<journal, life, sessionVars, aborted, line, asked, abortDue, batonVars, sendVars, sent, faults>>

\* assertFence and the network's lookup; the one that fails leaves the row as it is.
AssertFence(s) ==
    /\ pc[s] = "fence" /\ FacadeFree
    /\ \/ FenceLive(s) /\ Goto(s, "enqueue") /\ UNCHANGED <<controllers, faults>>
       \/ FenceLive(s) /\ Fault /\ Unregister(queued[s]) /\ Goto(s, "closing")
       \/ ~FenceLive(s) /\ Unregister(queued[s]) /\ Goto(s, "refused") /\ UNCHANGED faults
    /\ UNCHANGED <<journal, life, sessionVars, aborted, line, cancelVars, batonVars, sendVars, sent>>

\* Mutant: the refused row is left to the message, which fails queued rows only.
RefusedLeavesRow(s) ==
    /\ pc[s] = "refused"
    /\ Goto(s, "closing")
    /\ UNCHANGED <<journal, life, sessionVars, laneVars, cancelVars, batonVars, sendVars, sent, faults>>

\* A session end or a full lane fails the row the claim will never reach.
Refused(s) ==
    /\ pc[s] = "refused"
    /\ MarkOrLose(queued[s], "failed")
    /\ Goto(s, "closing")
    /\ UNCHANGED <<life, sessionVars, laneVars, cancelVars, batonVars, sendVars, sent>>

\* executionMutex.acquire joins the line and the baton passes on; a fired
\* signal or a full lane is refused without joining.
Enqueue(s) ==
    /\ pc[s] = "enqueue"
    /\ released' = released \cup {s}
    /\ \/ queued[s] \in aborted /\ Goto(s, "closing") /\ Unregister(queued[s]) /\ UNCHANGED line
       \/ queued[s] \notin aborted /\ Goto(s, "refused") /\ Unregister(queued[s]) /\ UNCHANGED line
       \/ /\ queued[s] \notin aborted
          /\ line' = Append(line, s)
          /\ Goto(s, "waiting") /\ UNCHANGED controllers
    /\ UNCHANGED <<journal, life, sessionVars, aborted, cancelVars, arrived, sendVars, sent, faults>>

Granted(s) ==
    /\ pc[s] = "waiting" /\ Head(line) = s
    /\ Goto(s, "claim")
    /\ UNCHANGED <<journal, life, sessionVars, laneVars, cancelVars, batonVars, sendVars, sent, faults>>

AbortWait(s) ==
    /\ pc[s] = "waiting" /\ queued[s] \in aborted
    /\ LeaveLine(s) /\ Unregister(queued[s])
    /\ Goto(s, "closing")
    /\ UNCHANGED <<journal, life, sessionVars, aborted, cancelVars, batonVars, sendVars, sent, faults>>

-----------------------------------------------------------------------------
(* The claim: claim-helper.ts.                                             *)

\* The queued row is adopted and its controller registered again, in the
\* continuation of the write or read that found it claimable.
Adopt(s) ==
    /\ row' = [row EXCEPT ![s] = queued[s]]
    /\ \/ Register(s, queued[s]) /\ Goto(s, "simulate")
       \/ NotLive(s) /\ Goto(s, "failing") /\ UNCHANGED <<controllers, sweep>>

\* No queued row, or one that is gone or cannot be read: file a fresh one.
ClaimMissing(s) ==
    /\ pc[s] = "claim"
    /\ \/ ~Present(queued[s]) /\ UNCHANGED faults
       \/ Present(queued[s]) /\ Fault
    /\ Unregister(queued[s])
    /\ Goto(s, "createFresh")
    /\ UNCHANGED <<journal, life, sessionVars, aborted, line, cancelVars, batonVars, sendVars, sent>>

\* Any other stage means that a cancel, or the reaper, was first.
ClaimLost(s) ==
    /\ pc[s] \in {"claim", "refile"}
    /\ Present(queued[s]) /\ Stage(queued[s]) \notin {"queued", "pending"}
    /\ Goto(s, "cleanup")
    /\ UNCHANGED <<journal, life, sessionVars, laneVars, cancelVars, batonVars, sendVars, sent, faults>>

\* The row was filed under another account or network; refiling it may fail.
ClaimMoved(s) ==
    /\ pc[s] = "claim" /\ Stage(queued[s]) \in {"queued", "pending"}
    /\ \/ queued[s] \in aborted /\ Goto(s, "cleanup") /\ UNCHANGED faults
       \/ queued[s] \notin aborted /\ Goto(s, "refile") /\ UNCHANGED faults
       \/ queued[s] \notin aborted /\ Goto(s, "cleanup") /\ Fault
    /\ UNCHANGED <<journal, life, sessionVars, laneVars, cancelVars, batonVars, sendVars, sent>>

ClaimQueued(s) ==
    /\ pc[s] \in {"claim", "refile"} /\ Stage(queued[s]) = "queued"
    /\ Goto(s, "claiming")
    /\ UNCHANGED <<journal, life, sessionVars, laneVars, cancelVars, batonVars, sendVars, sent, faults>>

ClaimPending(s) ==
    /\ pc[s] \in {"claim", "refile"} /\ Stage(queued[s]) = "pending"
    /\ Adopt(s)
    /\ UNCHANGED <<journal, life, sessionVars, aborted, line, asked, abortDue, batonVars, queued, fence, sent, faults>>

\* refileOperationScope found the row gone.
RefileMissing(s) ==
    /\ pc[s] = "refile" /\ ~Present(queued[s])
    /\ Unregister(queued[s])
    /\ Goto(s, "createFresh")
    /\ UNCHANGED <<journal, life, sessionVars, aborted, line, cancelVars, batonVars, sendVars, sent, faults>>

\* queued -> pending; or a cancel won the journal's lock, or the write failed.
ClaimTransition(s) ==
    /\ pc[s] = "claiming"
    /\ \/ Legal(queued[s], "pending") /\ Write(queued[s], "pending") /\ Adopt(s)
       \/ Goto(s, "cleanup") /\ UNCHANGED <<journal, row, controllers, sweep>>
    /\ UNCHANGED <<life, sessionVars, aborted, line, asked, abortDue, batonVars, queued, fence, sent, faults>>

CreateFresh(s) ==
    /\ pc[s] = "createFresh"
    /\ Creatable(fence[s].epoch)
    /\ Create(FreshRow(s), "pending", fence[s].epoch)
    /\ row' = [row EXCEPT ![s] = FreshRow(s)]
    /\ \/ Register(s, FreshRow(s)) /\ Goto(s, "simulate")
       \/ NotLive(s) /\ Goto(s, "failing") /\ UNCHANGED <<controllers, sweep>>
    /\ UNCHANGED <<life, sessionVars, aborted, line, asked, abortDue, batonVars, queued, fence, sent, faults>>

-----------------------------------------------------------------------------
(* Build, prove and send: runInSlot, transfer-executor.ts, proveAndSend.   *)

Cancelled(s) == row[s] \in aborted    \* checkCancelled throws

Simulate(s) ==
    /\ pc[s] = "simulate"
    /\ \/ s \in Dapps /\ Cancelled(s) /\ Goto(s, "cleanup") /\ UNCHANGED <<journal, faults>>
       \/ s \in Dapps /\ ~Cancelled(s) /\ Goto(s, "failing") /\ UNCHANGED <<journal, faults>>   \* bad payload
       \/ /\ s \in Transfers \/ ~Cancelled(s)
          /\ MarkOrLose(row[s], "simulating") /\ Goto(s, "build")
    /\ UNCHANGED <<life, sessionVars, laneVars, cancelVars, batonVars, sendVars, sent>>

\* The build may fail, and every path but NO_FROM checks for a cancel first.
Build(s) ==
    /\ pc[s] = "build"
    /\ \/ Cancelled(s) /\ Goto(s, "cleanup")
       \/ Goto(s, "failing")
       \/ Goto(s, "built")
    /\ UNCHANGED <<journal, life, sessionVars, laneVars, cancelVars, batonVars, sendVars, sent, faults>>

EnterProve(s) ==
    /\ pc[s] = "built"
    /\ \/ Cancelled(s) /\ Goto(s, "cleanup") /\ UNCHANGED <<journal, faults>>
       \/ ~Cancelled(s) /\ MarkOrLose(row[s], "proving") /\ Goto(s, "prove")
    /\ UNCHANGED <<life, sessionVars, laneVars, cancelVars, batonVars, sendVars, sent>>

\* proveTxTask and the checkpoint after it.
Prove(s) ==
    /\ pc[s] = "prove"
    /\ \/ Goto(s, "failing")
       \/ Cancelled(s) /\ Goto(s, "cleanup")
       \/ ~Cancelled(s) /\ Goto(s, "authorisation")
    /\ UNCHANGED <<journal, life, sessionVars, laneVars, cancelVars, batonVars, sendVars, sent, faults>>

AssertAuthorization(s) ==
    /\ pc[s] = "authorisation" /\ FacadeFree
    /\ IF FenceLive(s) THEN Goto(s, "commit") ELSE Goto(s, "failing")
    /\ UNCHANGED <<journal, life, sessionVars, laneVars, cancelVars, batonVars, sendVars, sent, faults>>

\* Mutant: the commit is written like the other marks, its refusal logged only.
CommitSubmittingSwallowed(s) ==
    /\ pc[s] = "commit"
    /\ Mark(row[s], "submitting") /\ Goto(s, "send")
    /\ UNCHANGED <<life, sessionVars, laneVars, cancelVars, batonVars, sendVars, sent, faults>>

\* The one journal write the send depends on: it carries the hash.  When it is
\* refused or fails, and when toTx() before it throws, nothing is sent.
CommitSubmitting(s) ==
    /\ pc[s] = "commit"
    /\ \/ Legal(row[s], "submitting") /\ Write(row[s], "submitting") /\ Goto(s, "send")
       \/ Goto(s, "failing") /\ UNCHANGED journal
       \/ Cancelled(s) /\ Goto(s, "cleanup") /\ UNCHANGED journal
    /\ UNCHANGED <<life, sessionVars, laneVars, cancelVars, batonVars, sendVars, sent, faults>>

\* The last cancel checkpoint and the Terms, whose read is awaited.
AdmitSend(s) ==
    /\ pc[s] = "send"
    /\ \/ Cancelled(s) /\ Goto(s, "cleanup")
       \/ ~Cancelled(s) /\ Goto(s, "failing")
       \/ ~Cancelled(s) /\ Goto(s, "broadcast")
    /\ UNCHANGED <<journal, life, sessionVars, laneVars, cancelVars, batonVars, sendVars, sent, faults>>

\* Mutant: the session is asserted before the Terms are read, not after.
BroadcastUnasserted(s) ==
    /\ pc[s] = "broadcast"
    /\ sent' \in {sent, sent \cup {s}} /\ Goto(s, "answer")
    /\ UNCHANGED <<journal, life, sessionVars, laneVars, cancelVars, batonVars, sendVars, faults>>

\* assertLive and node.sendTx with nothing between.  The transaction may be lost.
Broadcast(s) ==
    /\ pc[s] = "broadcast"
    /\ \/ FenceLive(s) /\ sent' \in {sent, sent \cup {s}} /\ Goto(s, "answer")
       \/ ~FenceLive(s) /\ Goto(s, "failing") /\ UNCHANGED sent
    /\ UNCHANGED <<journal, life, sessionVars, laneVars, cancelVars, batonVars, sendVars, faults>>

\* The node's answer: success only for what arrived; the error may be a lost reply.
Answer(s) ==
    /\ pc[s] = "answer"
    /\ \/ s \in sent /\ Goto(s, "record")
       \/ Goto(s, "failing")
    /\ UNCHANGED <<journal, life, sessionVars, laneVars, cancelVars, batonVars, sendVars, sent, faults>>

\* recordTransaction answers to the fence's epoch and may fail.
RecordTransaction(s) ==
    /\ pc[s] = "record"
    /\ \/ epoch = fence[s].epoch /\ Goto(s, "succeed")
       \/ Goto(s, "failing")
    /\ UNCHANGED <<journal, life, sessionVars, laneVars, cancelVars, batonVars, sendVars, sent, faults>>

\* The journal's success; a dApp's receipt is read after it and may fail.
Succeed(s) ==
    /\ pc[s] = "succeed"
    /\ MarkOrLose(row[s], "succeeded")
    /\ Goto(s, "finish") \/ (s \in Dapps /\ Goto(s, "failing"))
    /\ UNCHANGED <<life, sessionVars, laneVars, cancelVars, batonVars, sendVars, sent>>

\* The catch arms: any error but a cancel fails the row.
Failing(s) ==
    /\ pc[s] = "failing"
    /\ MarkOrLose(row[s], "failed")
    /\ Goto(s, "cleanup")
    /\ UNCHANGED <<life, sessionVars, laneVars, cancelVars, batonVars, sendVars, sent>>

AfterCleanup(s) ==
    IF s \in Transfers THEN "done" ELSE IF pc[s] = "finish" THEN "settling" ELSE "closing"

\* Mutant: the controller of the queued id is forgotten when the ids differ.
CleanupOwn(s) ==
    /\ pc[s] \in {"cleanup", "finish"}
    /\ Unregister(row[s])
    /\ LeaveLine(s)
    /\ Goto(s, AfterCleanup(s))
    /\ UNCHANGED <<journal, life, sessionVars, aborted, cancelVars, batonVars, sendVars, sent, faults>>

\* The finally arms: both controller keys, then the slot.
Cleanup(s) ==
    /\ pc[s] \in {"cleanup", "finish"}
    /\ controllers' = [r \in Rows |-> IF r \in {row[s], queued[s]} THEN 0 ELSE controllers[r]]
    /\ LeaveLine(s)
    /\ Goto(s, AfterCleanup(s))
    /\ UNCHANGED <<journal, life, sessionVars, aborted, cancelVars, batonVars, sendVars, sent, faults>>

\* Mutant: only the enqueue releases the baton.
SettleKeepsBaton(s) ==
    /\ pc[s] \in {"closing", "settling"}
    /\ \/ pc[s] = "closing" /\ TransitionOrLose(queued[s], {"queued"}, "failed")
       \/ pc[s] = "settling" /\ UNCHANGED <<journal, faults>>
    /\ Goto(s, "done")
    /\ UNCHANGED <<life, sessionVars, laneVars, cancelVars, batonVars, sendVars, sent>>

\* The message settles: its baton is released, and on an error a row nobody
\* claimed is failed.
Settle(s) ==
    /\ pc[s] \in {"closing", "settling"}
    /\ \/ pc[s] = "closing" /\ TransitionOrLose(queued[s], {"queued"}, "failed")
       \/ pc[s] = "settling" /\ UNCHANGED <<journal, faults>>
    /\ released' = released \cup {s}
    /\ Goto(s, "done")
    /\ UNCHANGED <<life, sessionVars, laneVars, cancelVars, arrived, sendVars, sent>>

-----------------------------------------------------------------------------
(* The worker dies and restarts; the reapers.                              *)

\* Memory is lost, the journal is not.  A wake may restore the session
\* silently; a deletion under way is resumed unless its tombstone was not
\* written yet, and then the profile is the incarnation it was.
Kill ==
    /\ life < MaxKills
    /\ life' = life + 1
    /\ deletion' \in CASE deletion = "none" -> {"none"}
                       [] deletion = "begun" -> {"none", "closed"}
                       [] OTHER -> {"closed"}
    /\ epoch' = IF deletion = "begun" /\ deletion' = "none" THEN epoch - 1 ELSE epoch
    /\ live' \in IF deletion' = "none" THEN {0, 1} ELSE {0}
    /\ lastSerial' = live'
    /\ pc' = [s \in Sends |-> IF pc[s] \in {"idle", "done"} THEN pc[s] ELSE "killed"]
    /\ controllers' = [r \in Rows |-> 0]
    /\ aborted' = {} /\ line' = <<>>
    /\ sweep' = {} /\ asked' = {} /\ abortDue' = {}
    /\ arrived' = <<>> /\ released' = {}
    /\ UNCHANGED <<journal, sendVars, sent, faults>>

\* The boot sweep: every unfinished row of an earlier lifetime.
BootReap(r) ==
    /\ Stage(r) \in Active /\ journal[r].life # life
    /\ Mark(r, "failed")
    /\ UNCHANGED <<life, sessionVars, laneVars, cancelVars, batonVars, pc, sendVars, sent, faults>>

\* The periodic sweep.  Any stage may outlive its grace, and the write pins
\* the stage and the timestamp it decided on.
Reap(r) ==
    /\ Stage(r) \in Active
    /\ Mark(r, "failed")
    /\ UNCHANGED <<life, sessionVars, laneVars, cancelVars, batonVars, pc, sendVars, sent, faults>>

-----------------------------------------------------------------------------
Request(s) == RequestTransfer(s) \/ Arrive(s)

BeforeLane(s) ==
    \/ CreateTransfer(s) \/ CreateRefused(s)
    \/ FileQueued(s) \/ Dispatch(s) \/ Approve(s) \/ ClosePopup(s)
    \/ Authorise(s) \/ AuthoriseSilently(s) \/ FastForward(s) \/ RefuseTerms(s)

InLane(s) ==
    \/ EnterLane(s) \/ AssertFence(s) \/ Refused(s) \/ Enqueue(s) \/ Granted(s) \/ AbortWait(s)
    \/ ClaimMissing(s) \/ ClaimLost(s) \/ ClaimMoved(s) \/ ClaimQueued(s) \/ ClaimPending(s)
    \/ RefileMissing(s) \/ ClaimTransition(s) \/ CreateFresh(s)

InSlot(s) ==
    \/ Simulate(s) \/ Build(s) \/ EnterProve(s) \/ Prove(s) \/ AssertAuthorization(s)
    \/ CommitSubmitting(s) \/ AdmitSend(s) \/ Broadcast(s) \/ Answer(s)
    \/ RecordTransaction(s) \/ Succeed(s) \/ Failing(s) \/ Cleanup(s) \/ Settle(s)

SendStep(s) == BeforeLane(s) \/ InLane(s) \/ InSlot(s)
CancelStep(r) == CancelApplied(r) \/ SweepRow(r) \/ AbortCancelled(r)
DeletionStep == CloseDeleted \/ PurgeProfile \/ ReleaseProfile

Next ==
    \/ \E s \in Sends : Request(s) \/ SendStep(s)
    \/ \E r \in Rows : CancelAsked(r) \/ CancelStep(r) \/ BootReap(r) \/ Reap(r)
    \/ Unlock \/ LockWallet \/ BeginDeletion \/ DeletionStep \/ Kill

Spec == Init /\ [][Next]_vars

-----------------------------------------------------------------------------
(* Properties.                                                             *)

Running(s) == pc[s] \notin {"idle", "done", "killed"}

\* What the user was told is cancelled never reaches the network, however the
\* cancel, the session sweep and the send interleave: proveAndSend's commit
\* and the journal's stage machine arbitrate, not the abort signal.  The row a
\* send executes under is never cancelled; nor is the row the user saw queued,
\* unless a failing call made the claim replace it (CancelHonoured).
CancelledNeverSent ==
    \A s \in sent : /\ Stage(row[s]) # "cancelled"
                    /\ faults = 0 => Stage(queued[s]) # "cancelled"

\* A transaction that may be on the network can be found from its row: the
\* row of a broadcast send carries the hash through success, failure, a reap
\* and a restart.
SentIsTraceable == \A s \in sent : Present(row[s]) => journal[row[s]].hash

\* A send that ended unsent, or whose authorising session or profile
\* incarnation ended before its broadcast, never reaches the network: no later
\* unlock, reimport or restart revives the authority it was given.
Lapsed(s) == s \notin sent /\ fence[s].session # 0 /\ ~(Running(s) /\ FenceLive(s))
LapsedStaysUnsent == [][\A s \in Sends : Lapsed(s) => Lapsed(s)']_vars

\* As long as the session that authorised it lives, nobody but the user cancels
\* a send: a sweep for an ended session spares the jobs of the one after it,
\* even those registered while it is under way.
LiveJobsKept ==
    \A s \in Sends : Running(s) /\ fence[s].session # 0 /\ FenceLive(s) =>
        \A r \in {queued[s], row[s]} : Stage(r) = "cancelled" => r \in asked

\* Once the sweeps are over, a job that is still registered for an ended
\* session is past its last cancel point, when no call failed: no registration
\* slips behind the sweep that would have cancelled it.
DeadJobsSwept ==
    faults = 0 /\ sweep = {} => \A r \in Rows :
        controllers[r] \in {0, live} \/ r \in abortDue \/ Stage(r) \notin PreSubmit

\* A controller or a place in the lane belongs to a running send: no exit path
\* leaks an entry, which would wedge the lane for its profile and chain.
NoLeak ==
    /\ \A r \in Rows : controllers[r] # 0 => Running(Owner(r))
    /\ \A i \in 1 .. Len(line) : Running(line[i])

\* The dApp sends of a session run in the order their messages arrived, though
\* the next popup opens before the one before has executed.
InOrder ==
    \A i, j \in 1 .. Len(line) : \A a, b \in 1 .. Len(arrived) :
        line[i] = arrived[a] /\ line[j] = arrived[b] /\ i < j => a < b

\* A deletion leaves no row of the erased incarnation, neither when it has
\* purged nor once the id is imported again.
ErasedStaysErased ==
    deletion \in {"purged", "none"} => \A r \in Rows : Present(r) => journal[r].epoch = epoch

\* A message that settled leaves no card behind that still says queued or
\* running, neither the one filed when it arrived nor the one it executed
\* under, when no call failed; otherwise the reaper ends the card.
NoStuckCard ==
    faults = 0 => \A s \in Sends : pc[s] = "done" =>
        Stage(queued[s]) \notin Active /\ Stage(row[s]) \notin Active

\* A send whose queued row is cancelled when the claim is reached goes no
\* further: "the claim helper refuses its cancelled record"
\* (dapp-interaction/service.ts) and "any other stage -> throw"
\* (claim-helper.ts).  Refuted: a row the claim cannot read is replaced by a
\* fresh one, with a fresh controller, whatever its stage.
CancelHonoured ==
    [][\A s \in Dapps : pc[s] = "claim" /\ Stage(queued[s]) = "cancelled" => pc'[s] # "createFresh"]_vars

\* Every send that starts comes to an end, whatever is cancelled, locked or
\* refused on the way, and so the message behind it is served
\* (runEstablishedMessage and the finally arms release what it holds).
EverySendEnds == \A s \in Sends : Running(s) ~> ~Running(s)
=============================================================================
