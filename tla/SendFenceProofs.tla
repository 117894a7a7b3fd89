-------------------------- MODULE SendFenceProofs --------------------------
(***************************************************************************)
(* The fences of a send hold for any number of sends, sessions, deletions, *)
(* deaths and storage faults: no job of an ended session slips behind the  *)
(* sweep, the jobs of a live one are spared by it, nothing of an erased    *)
(* profile comes back, and authority that has lapsed sends nothing.        *)
(*                                                                         *)
(* The argument: a step of a send has a small footprint (Footprint): it    *)
(* leaves the session and the profile alone, files a row only under the    *)
(* current incarnation and only where no controller stands yet, registers  *)
(* only for the live session, and otherwise moves its own rows along edges *)
(* that never lead back before the submit.  FenceInv follows from that; on *)
(* top of it AuthorityInv relates the fence of a running send to the       *)
(* session and the epoch, neither of which ever returns to a lower value   *)
(* while a send is running.                                                *)
(***************************************************************************)
EXTENDS SendPipelineProofs

\* Where a send has not had a row to execute under yet.
BeforeRow == {"idle", "create", "filing", "parked", "popup", "silent", "authorise", "forward",
              "execute", "fence", "enqueue", "waiting", "claim", "refile", "claiming", "createFresh"}

\* A row is filed once: the ids are empty up to the step that fills them.
FilesOnce ==
    \A s \in Sends : /\ pc[s] \in {"idle", "filing"} => queued[s] = NoRow
                     /\ pc[s] \in BeforeRow => row[s] = NoRow

\* A controller stands under a row that some send has filed or adopted.
OwnControllers ==
    /\ controllers \in [Rows -> Nat]
    /\ \A r \in Rows : controllers[r] # 0 => \E s \in Sends : r \in {queued[s], row[s]}

\* A cancellable job of an ended session is ahead of a sweep, or was just
\* cancelled by one; only a write of a sweep that fails lets one through.
SweepCovers ==
    /\ faults \in Nat
    /\ faults = 0 => \A r \in Rows : \/ controllers[r] \in {0, live}
                                    \/ r \in sweep \cup abortDue
                                    \/ journal[r].stage \notin PreSubmit

\* Every row carries the epoch of the listed incarnation; in the first phase
\* of a deletion that is still the one before, to which a death may return.
AllOfEpoch(e) == \A r \in Rows : journal[r].stage # "absent" => journal[r].epoch = e
EpochsCurrent ==
    /\ deletion \in {"none", "begun", "closed", "purged"}
    /\ deletion \in {"none", "purged"} => AllOfEpoch(epoch)
    /\ deletion = "begun" => AllOfEpoch(epoch - 1)

\* The inductive invariant, on top of SendInv.
FenceInv == FilesOnce /\ OwnControllers /\ SweepCovers /\ EpochsCurrent

-----------------------------------------------------------------------------
(* The footprint of a step of one send.                                    *)

\* What a transition does to a row, and what one other than a cancel does.
Kept(r) ==
    /\ journal'[r].epoch = journal[r].epoch
    /\ journal'[r].stage = "absent" <=> journal[r].stage = "absent"
    /\ journal'[r].stage \in PreSubmit => journal[r].stage \in PreSubmit
    /\ journal'[r].stage \in Active => journal[r].stage \in Active
    /\ journal'[r].stage = "queued" => journal[r].stage = "queued"
Carried(r) == Kept(r) /\ (journal'[r].stage = "cancelled" => journal[r].stage = "cancelled")

\* Every row is carried, and only those of s are written.
Carries(s) ==
    \A r \in Rows : Carried(r) /\ (r \notin {queued[s], row[s]} => journal'[r] = journal[r])

Filed(r) ==
    /\ deletion = "none" /\ r \in Rows
    /\ \E stage \in {"queued", "pending"} : Create(r, stage, epoch)

JournalPart(s) ==
    \/ Carries(s)
    \/ pc[s] = "filing" /\ Filed(QueuedRow(s)) /\ queued'[s] = QueuedRow(s) /\ UNCHANGED controllers
    \/ pc[s] \in {"create", "createFresh"} /\ Filed(FreshRow(s)) /\ row'[s] = FreshRow(s)

PcPart(s) ==
    /\ \A t \in Sends \ {s} : pc'[t] = pc[t]
    /\ pc'[s] # "idle"
    /\ pc'[s] = "filing" => pc[s] = "idle" /\ queued'[s] = queued[s]
    /\ pc'[s] \in BeforeRow => pc[s] \in BeforeRow /\ row'[s] = row[s]

\* The same for a step that keeps the ids.
Onward(s) ==
    /\ \A t \in Sends \ {s} : pc'[t] = pc[t]
    /\ pc'[s] \notin {"idle", "filing"}
    /\ pc'[s] \in BeforeRow => pc[s] \in BeforeRow

IdPart(s) ==
    /\ \A t \in Sends \ {s} : queued'[t] = queued[t] /\ row'[t] = row[t]
    /\ queued'[s] = queued[s] \/ pc[s] = "filing"
    /\ row'[s] = row[s] \/ pc[s] \in BeforeRow

ControllerPart(s) ==
    /\ controllers' \in [Rows -> Nat]
    /\ \A r \in Rows : \/ controllers'[r] \in {0, controllers[r]}
                       \/ /\ controllers'[r] = live /\ live = fence[s].session
                          /\ r \in {queued'[s], row'[s]}
    /\ sweep \subseteq sweep'

Footprint(s) ==
    /\ UNCHANGED <<live, lastSerial, epoch, deletion, asked, abortDue>>
    /\ JournalPart(s) /\ PcPart(s) /\ IdPart(s) /\ ControllerPart(s)

\* An accepted transition leaves the other rows alone and keeps its own: no
\* edge leads back before the submit (fsm.ts).
LEMMA WriteKeeps ==
    ASSUME journal \in [Rows -> Row], NEW r, r \in Rows \cup {NoRow},
           NEW to, to \notin {"absent", "queued"}, Legal(r, to), Write(r, to)
    PROVE  /\ r \in Rows /\ Kept(r) /\ journal'[r].stage = to
           /\ \A x \in Rows \ {r} : journal'[x] = journal[x]
<1>1. r \in Rows /\ Stage(r) = journal[r].stage
  BY RowsAssumption DEF Legal, Present, Stage
<1>2. journal'[r] = NextRow(journal[r], to) /\ \A x \in Rows \ {r} : journal'[x] = journal[x]
  BY <1>1 DEF Write
<1>3. journal'[r].stage = to /\ journal'[r].epoch = journal[r].epoch
  <2>1. journal[r] \in Row
    BY <1>1
  <2> QED
    BY <1>2, <2>1 DEF NextRow, Row
<1>4. /\ journal[r].stage # "absent" /\ (to \in PreSubmit => journal[r].stage \in PreSubmit)
      /\ journal[r].stage \in Active
  BY <1>1 DEF Legal, Present, CanTransition, PreSubmit, Active
<1> QED
  BY <1>1, <1>2, <1>3, <1>4 DEF Kept

\* So every row is carried by a write that is not a cancel, whether its
\* refusal is only logged, it is guarded, or it is not made.
LEMMA MarkCarries ==
    ASSUME journal \in [Rows -> Row], NEW r \in Rows \cup {NoRow},
           NEW to \in {"pending", "simulating", "proving", "submitting", "succeeded", "failed"},
           \/ Mark(r, to)
           \/ \E allowed : TransitionIfStage(r, allowed, to)
           \/ Legal(r, to) /\ Write(r, to)
           \/ UNCHANGED journal
    PROVE  \A x \in Rows : Carried(x) /\ (x # r => journal'[x] = journal[x])
<1>1. CASE UNCHANGED journal
  BY <1>1 DEF Carried, Kept
<1>2. CASE Legal(r, to) /\ Write(r, to)
  BY <1>2, WriteKeeps DEF Carried, Kept
<1> QED
  BY <1>1, <1>2 DEF Mark, TransitionIfStage

\* A send writes its own rows.
LEMMA OwnMark ==
    ASSUME journal \in [Rows -> Row], NEW s, NEW r \in {queued[s], row[s]}, r \in Rows \cup {NoRow},
           NEW to \in {"pending", "simulating", "proving", "submitting", "succeeded", "failed"},
           \/ Mark(r, to)
           \/ \E allowed : TransitionIfStage(r, allowed, to)
           \/ Legal(r, to) /\ Write(r, to)
           \/ UNCHANGED journal
    PROVE  Carries(s)
<1>1. \A x \in Rows : Carried(x) /\ (x # r => journal'[x] = journal[x])
  BY MarkCarries
<1> QED
  BY <1>1 DEF Carries

\* A step that keeps the ids and the controllers has the footprint when it
\* carries the rows and does not go back to where rows are filed.
LEMMA PlainStep ==
    ASSUME SendInv, FenceInv, NEW s \in Sends, Onward(s),
           Carries(s), UNCHANGED <<sessionVars, controllers, cancelVars, queued, row>>
    PROVE  Footprint(s)
<1>1. JournalPart(s)
  BY DEF JournalPart
<1>2. PcPart(s)
  BY DEF PcPart, Onward, SendInv, Shape
<1>3. IdPart(s)
  BY DEF IdPart
<1>4. ControllerPart(s)
  BY DEF ControllerPart, FenceInv, OwnControllers, cancelVars
<1> QED
  BY <1>1, <1>2, <1>3, <1>4 DEF Footprint, sessionVars, cancelVars

\* So has a step that, besides, drops controllers or registers one of the ids
\* of s for the live session.
LEMMA ControllerStep ==
    ASSUME SendInv, NEW s \in Sends, Onward(s),
           Carries(s), IdPart(s), ControllerPart(s),
           pc'[s] \in BeforeRow => row'[s] = row[s],
           UNCHANGED <<sessionVars, asked, abortDue>>
    PROVE  Footprint(s)
<1>1. JournalPart(s)
  BY DEF JournalPart
<1>2. PcPart(s)
  BY DEF PcPart, Onward, SendInv, Shape
<1> QED
  BY <1>1, <1>2 DEF Footprint, sessionVars

\* registerInFlight touches the controllers as ControllerPart allows.
LEMMA RegisterPart ==
    ASSUME FenceInv, SendInv, NEW s \in Sends, NEW r \in Rows, r \in {queued'[s], row'[s]}, Register(s, r)
    PROVE  ControllerPart(s)
<1>1. live \in Nat /\ controllers \in [Rows -> Nat]
  BY DEF FenceInv, OwnControllers, SendInv, Shape
<1>2. /\ controllers' = [controllers EXCEPT ![r] = live] /\ live = fence[s].session
      /\ sweep \subseteq sweep'
  BY DEF Register
<1> QED
  BY <1>1, <1>2 DEF ControllerPart

\* So does unregisterInFlight, and a step that leaves the controllers alone.
LEMMA UnregisterPart ==
    ASSUME FenceInv, NEW s, NEW r, Unregister(r) \/ UNCHANGED controllers, UNCHANGED sweep
    PROVE  ControllerPart(s)
BY DEF ControllerPart, FenceInv, OwnControllers, Unregister

\* A request and the steps up to the lane.
LEMMA BeforeLaneFootprint ==
    ASSUME SendInv, FenceInv, NEW s \in Sends, Request(s) \/ BeforeLane(s)
    PROVE  Footprint(s)
<1> USE DEF sendVars, laneVars
<1>p. pc = [t \in Sends |-> pc[t]]
  BY DEF SendInv, Shape
<1>t. journal \in [Rows -> Row] /\ queued[s] \in Rows \cup {NoRow} /\ row[s] \in Rows \cup {NoRow}
  BY DEF SendInv, Shape
<1>j. UNCHANGED journal => Carries(s)
  BY DEF Carries, Carried, Kept
<1>1. CASE RequestTransfer(s)
  <2>1. Onward(s)
    BY <1>1, <1>p DEF RequestTransfer, Onward, Goto, BeforeRow
  <2> QED
    BY <1>1, <1>j, <2>1, PlainStep DEF RequestTransfer
<1>2. CASE Arrive(s)
  <2>1. PcPart(s)
    BY <1>2 DEF Arrive, Goto, BeforeRow, PcPart, SendInv, Shape
  <2>2. JournalPart(s) /\ IdPart(s)
    BY <1>2, <1>j DEF Arrive, JournalPart, IdPart
  <2>3. ControllerPart(s)
    BY <1>2, UnregisterPart DEF Arrive, cancelVars
  <2> QED
    BY <1>2, <2>1, <2>2, <2>3 DEF Arrive, Footprint, sessionVars, cancelVars
<1>3. CASE CreateTransfer(s)
  <2>1. pc[s] \in BeforeRow /\ Filed(FreshRow(s)) /\ pc[s] \in {"create", "createFresh"}
    BY <1>3, RowIds DEF CreateTransfer, Creatable, Filed, BeforeRow
  <2>2. row' = [row EXCEPT ![s] = FreshRow(s)] /\ FreshRow(s) \in Rows /\ row'[s] = FreshRow(s)
    BY <1>3, RowIds DEF CreateTransfer, SendInv, Shape
  <2>3. JournalPart(s)
    BY <2>1, <2>2 DEF JournalPart
  <2>4. IdPart(s)
    BY <1>3, <2>1, <2>2 DEF CreateTransfer, IdPart, SendInv, Shape
  <2>5. PcPart(s)
    BY <1>3 DEF CreateTransfer, Goto, BeforeRow, PcPart, SendInv, Shape
  <2>6. ControllerPart(s)
    <3>1. CASE Register(s, FreshRow(s))
      BY <2>2, <3>1, RegisterPart
    <3>2. CASE UNCHANGED <<controllers, sweep>>
      BY <3>2, UnregisterPart
    <3> QED
      BY <1>3, <3>1, <3>2 DEF CreateTransfer
  <2> QED
    BY <1>3, <2>3, <2>4, <2>5, <2>6 DEF CreateTransfer, Footprint, sessionVars
<1>4. CASE CreateRefused(s)
  <2>1. Onward(s)
    BY <1>4, <1>p DEF CreateRefused, Onward, Goto, BeforeRow
  <2> QED
    BY <1>4, <1>j, <2>1, PlainStep DEF CreateRefused
<1>5. CASE FileQueued(s)
  <2>1. pc[s] = "filing" /\ QueuedRow(s) \in Rows
    BY <1>5, RowIds DEF FileQueued, SendInv, OwnRows
  <2>2. JournalPart(s)
    <3>1. CASE Creatable(fence[s].epoch) /\ Create(QueuedRow(s), "queued", fence[s].epoch)
      BY <1>5, <2>1, <3>1 DEF FileQueued, JournalPart, Filed, Creatable, SendInv, Shape
    <3>2. CASE UNCHANGED journal
      BY <1>j, <3>2 DEF JournalPart
    <3> QED
      BY <1>5, <3>1, <3>2 DEF FileQueued
  <2>3. IdPart(s)
    BY <1>5, <2>1 DEF FileQueued, IdPart, SendInv, Shape
  <2>4. PcPart(s)
    BY <1>5 DEF FileQueued, Goto, BeforeRow, PcPart, SendInv, Shape
  <2>5. ControllerPart(s)
    BY <1>5, UnregisterPart DEF FileQueued, cancelVars
  <2> QED
    BY <1>5, <2>2, <2>3, <2>4, <2>5 DEF FileQueued, Footprint, sessionVars, cancelVars
<1>6. CASE Dispatch(s)
  <2>1. Onward(s)
    BY <1>6, <1>p DEF Dispatch, Onward, Goto, BeforeRow
  <2> QED
    BY <1>6, <1>j, <2>1, PlainStep DEF Dispatch
<1>7. CASE Approve(s)
  <2>1. Onward(s)
    BY <1>7, <1>p DEF Approve, Onward, Goto, BeforeRow
  <2> QED
    BY <1>7, <1>j, <2>1, PlainStep DEF Approve
<1>8. CASE ClosePopup(s)
  <2>1. Onward(s)
    BY <1>8, <1>p DEF ClosePopup, Onward, Goto, BeforeRow
  <2> QED
    BY <1>8, <1>j, <2>1, PlainStep DEF ClosePopup
<1>9. CASE Authorise(s)
  <2>1. Onward(s)
    BY <1>9, <1>p DEF Authorise, Onward, Goto, BeforeRow
  <2> QED
    BY <1>9, <1>j, <2>1, PlainStep DEF Authorise
<1>10. CASE AuthoriseSilently(s)
  <2>1. Onward(s)
    BY <1>10, <1>p DEF AuthoriseSilently, Onward, Goto, BeforeRow
  <2> QED
    BY <1>10, <1>j, <2>1, PlainStep DEF AuthoriseSilently
<1>11. CASE FastForward(s)
  <2>1. Onward(s)
    BY <1>11, <1>p DEF FastForward, Onward, Goto, BeforeRow
  <2>2. Carries(s)
    BY <1>11, <1>t, OwnMark DEF FastForward, MarkOrLose
  <2> QED
    BY <1>11, <2>1, <2>2, PlainStep DEF FastForward
<1>12. CASE RefuseTerms(s)
  <2>1. Onward(s)
    BY <1>12, <1>p DEF RefuseTerms, Onward, Goto, BeforeRow
  <2>2. Carries(s)
    BY <1>12, <1>t, OwnMark DEF RefuseTerms, TransitionOrLose
  <2> QED
    BY <1>12, <2>1, <2>2, PlainStep DEF RefuseTerms
<1> QED
  BY <1>1, <1>2, <1>3, <1>4, <1>5, <1>6, <1>7, <1>8, <1>9, <1>10, <1>11, <1>12 DEF Request,
     BeforeLane

\* The lane and the claim.
LEMMA InLaneFootprint ==
    ASSUME SendInv, FenceInv, NEW s \in Sends, InLane(s)
    PROVE  Footprint(s)
<1> USE DEF sendVars, laneVars
<1>p. pc = [t \in Sends |-> pc[t]]
  BY DEF SendInv, Shape
<1>t. journal \in [Rows -> Row] /\ queued[s] \in Rows \cup {NoRow} /\ row[s] \in Rows \cup {NoRow}
  BY DEF SendInv, Shape
<1>j. UNCHANGED journal => Carries(s)
  BY DEF Carries, Carried, Kept
<1>a. ASSUME queued[s] \in Rows, pc[s] \in BeforeRow, Adopt(s), Carries(s),
             UNCHANGED <<sessionVars, asked, abortDue, queued>>
      PROVE  Footprint(s)
  <2>1. row' = [row EXCEPT ![s] = queued[s]] /\ row'[s] = queued[s]
    BY <1>a DEF Adopt, SendInv, Shape
  <2>2. Onward(s) /\ pc'[s] \notin BeforeRow
    BY <1>a DEF Adopt, Goto, Onward, BeforeRow, SendInv, Shape
  <2>3. IdPart(s)
    BY <1>a, <2>1 DEF IdPart, SendInv, Shape
  <2>4. ControllerPart(s)
    <3>1. CASE Register(s, queued[s])
      BY <1>a, <2>1, <3>1, RegisterPart
    <3>2. CASE UNCHANGED <<controllers, sweep>>
      BY <3>2, UnregisterPart
    <3> QED
      BY <1>a, <3>1, <3>2 DEF Adopt
  <2> QED
    BY <1>a, <2>2, <2>3, <2>4, ControllerStep
<1>1. CASE EnterLane(s)
  <2>1. Onward(s)
    BY <1>1, <1>p DEF EnterLane, Onward, Goto, BeforeRow
  <2>2. ControllerPart(s)
    <3>1. CASE queued[s] # NoRow /\ Register(s, queued[s])
      BY <1>1, <1>t, <3>1, RegisterPart DEF EnterLane
    <3>2. CASE UNCHANGED <<controllers, sweep>>
      BY <3>2, UnregisterPart
    <3> QED
      BY <1>1, <3>1, <3>2 DEF EnterLane
  <2>3. IdPart(s)
    BY <1>1 DEF EnterLane, IdPart
  <2> QED
    BY <1>1, <1>j, <2>1, <2>2, <2>3, ControllerStep DEF EnterLane
<1>2. CASE AssertFence(s)
  <2>1. Onward(s)
    BY <1>2, <1>p DEF AssertFence, Onward, Goto, BeforeRow
  <2>2. ControllerPart(s)
    BY <1>2, UnregisterPart DEF AssertFence, cancelVars
  <2>3. IdPart(s)
    BY <1>2 DEF AssertFence, IdPart
  <2> QED
    BY <1>2, <1>j, <2>1, <2>2, <2>3, ControllerStep DEF AssertFence, cancelVars
<1>3. CASE Refused(s)
  <2>1. Onward(s)
    BY <1>3, <1>p DEF Refused, Onward, Goto, BeforeRow
  <2>2. Carries(s)
    BY <1>3, <1>t, OwnMark DEF Refused, MarkOrLose
  <2> QED
    BY <1>3, <2>1, <2>2, PlainStep DEF Refused
<1>4. CASE Enqueue(s)
  <2>1. Onward(s)
    BY <1>4, <1>p DEF Enqueue, Onward, Goto, BeforeRow
  <2>2. ControllerPart(s)
    BY <1>4, UnregisterPart DEF Enqueue, cancelVars
  <2>3. IdPart(s)
    BY <1>4 DEF Enqueue, IdPart
  <2> QED
    BY <1>4, <1>j, <2>1, <2>2, <2>3, ControllerStep, Zenon DEF Enqueue, cancelVars
<1>5. CASE Granted(s)
  <2>1. Onward(s)
    BY <1>5, <1>p DEF Granted, Onward, Goto, BeforeRow
  <2> QED
    BY <1>5, <1>j, <2>1, PlainStep DEF Granted
<1>6. CASE AbortWait(s)
  <2>1. Onward(s)
    BY <1>6, <1>p DEF AbortWait, Onward, Goto, BeforeRow
  <2>2. ControllerPart(s)
    BY <1>6, UnregisterPart DEF AbortWait, cancelVars
  <2>3. IdPart(s)
    BY <1>6 DEF AbortWait, IdPart
  <2> QED
    BY <1>6, <1>j, <2>1, <2>2, <2>3, ControllerStep DEF AbortWait, cancelVars
<1>7. CASE ClaimMissing(s)
  <2>1. Onward(s)
    BY <1>7, <1>p DEF ClaimMissing, Onward, Goto, BeforeRow
  <2>2. ControllerPart(s)
    BY <1>7, UnregisterPart DEF ClaimMissing, cancelVars
  <2>3. IdPart(s)
    BY <1>7 DEF ClaimMissing, IdPart
  <2> QED
    BY <1>7, <1>j, <2>1, <2>2, <2>3, ControllerStep DEF ClaimMissing, cancelVars
<1>8. CASE ClaimLost(s)
  <2>1. Onward(s)
    BY <1>8, <1>p DEF ClaimLost, Onward, Goto, BeforeRow
  <2> QED
    BY <1>8, <1>j, <2>1, PlainStep DEF ClaimLost
<1>9. CASE ClaimMoved(s)
  <2>1. Onward(s)
    BY <1>9, <1>p DEF ClaimMoved, Onward, Goto, BeforeRow
  <2> QED
    BY <1>9, <1>j, <2>1, PlainStep DEF ClaimMoved
<1>10. CASE ClaimQueued(s)
  <2>1. Onward(s)
    BY <1>10, <1>p DEF ClaimQueued, Onward, Goto, BeforeRow
  <2> QED
    BY <1>10, <1>j, <2>1, PlainStep DEF ClaimQueued
<1>11. CASE ClaimPending(s)
  <2>1. queued[s] \in Rows /\ pc[s] \in BeforeRow
    BY <1>11, <1>t DEF ClaimPending, Stage, BeforeRow
  <2> QED
    BY <1>11, <1>j, <2>1, <1>a DEF ClaimPending
<1>12. CASE RefileMissing(s)
  <2>1. Onward(s)
    BY <1>12, <1>p DEF RefileMissing, Onward, Goto, BeforeRow
  <2>2. ControllerPart(s)
    BY <1>12, UnregisterPart DEF RefileMissing, cancelVars
  <2>3. IdPart(s)
    BY <1>12 DEF RefileMissing, IdPart
  <2> QED
    BY <1>12, <1>j, <2>1, <2>2, <2>3, ControllerStep DEF RefileMissing, cancelVars
<1>13. CASE ClaimTransition(s)
  <2>1. CASE Goto(s, "cleanup") /\ UNCHANGED <<journal, row, controllers, sweep>>
    <3>1. Onward(s)
      BY <2>1, <1>p DEF Onward, Goto, BeforeRow
    <3> QED
      BY <1>13, <1>j, <2>1, <3>1, PlainStep DEF ClaimTransition, cancelVars
  <2>2. CASE Legal(queued[s], "pending") /\ Write(queued[s], "pending") /\ Adopt(s)
    <3>1. queued[s] \in Rows /\ pc[s] \in BeforeRow
      BY <1>13, <1>t, <2>2 DEF ClaimTransition, Legal, Present, Stage, BeforeRow
    <3>2. Carries(s)
      BY <1>t, <2>2, OwnMark
    <3> QED
      BY <1>13, <2>2, <3>1, <3>2, <1>a DEF ClaimTransition
  <2> QED
    BY <1>13, <2>1, <2>2 DEF ClaimTransition
<1>14. CASE CreateFresh(s)
  <2>1. pc[s] \in BeforeRow /\ Filed(FreshRow(s)) /\ pc[s] \in {"create", "createFresh"}
    BY <1>14, RowIds DEF CreateFresh, Creatable, Filed, BeforeRow
  <2>2. row' = [row EXCEPT ![s] = FreshRow(s)] /\ FreshRow(s) \in Rows /\ row'[s] = FreshRow(s)
    BY <1>14, RowIds DEF CreateFresh, SendInv, Shape
  <2>3. JournalPart(s)
    BY <2>1, <2>2 DEF JournalPart
  <2>4. IdPart(s)
    BY <1>14, <2>1, <2>2 DEF CreateFresh, IdPart, SendInv, Shape
  <2>5. PcPart(s)
    BY <1>14 DEF CreateFresh, Goto, BeforeRow, PcPart, SendInv, Shape
  <2>6. ControllerPart(s)
    <3>1. CASE Register(s, FreshRow(s))
      BY <2>2, <3>1, RegisterPart
    <3>2. CASE UNCHANGED <<controllers, sweep>>
      BY <3>2, UnregisterPart
    <3> QED
      BY <1>14, <3>1, <3>2 DEF CreateFresh
  <2> QED
    BY <1>14, <2>3, <2>4, <2>5, <2>6, Zenon DEF CreateFresh, Footprint, sessionVars
<1> QED
  BY <1>1, <1>2, <1>3, <1>4, <1>5, <1>6, <1>7, <1>8, <1>9, <1>10, <1>11, <1>12, <1>13,
     <1>14 DEF InLane

\* Build, prove and send, and the way out.
LEMMA InSlotFootprint ==
    ASSUME SendInv, FenceInv, NEW s \in Sends, InSlot(s)
    PROVE  Footprint(s)
<1> USE DEF sendVars, laneVars
<1>p. pc = [t \in Sends |-> pc[t]]
  BY DEF SendInv, Shape
<1>t. journal \in [Rows -> Row] /\ queued[s] \in Rows \cup {NoRow} /\ row[s] \in Rows \cup {NoRow}
  BY DEF SendInv, Shape
<1>j. UNCHANGED journal => Carries(s)
  BY DEF Carries, Carried, Kept
<1>1. CASE Simulate(s)
  <2>1. Onward(s)
    BY <1>1, <1>p DEF Simulate, Onward, Goto, BeforeRow
  <2>2. Carries(s)
    BY <1>1, <1>t, OwnMark DEF Simulate, MarkOrLose
  <2> QED
    BY <1>1, <2>1, <2>2, PlainStep DEF Simulate
<1>2. CASE Build(s)
  <2>1. Onward(s)
    BY <1>2, <1>p DEF Build, Onward, Goto, BeforeRow
  <2> QED
    BY <1>2, <1>j, <2>1, PlainStep DEF Build
<1>3. CASE EnterProve(s)
  <2>1. Onward(s)
    BY <1>3, <1>p DEF EnterProve, Onward, Goto, BeforeRow
  <2>2. Carries(s)
    BY <1>3, <1>t, OwnMark DEF EnterProve, MarkOrLose
  <2> QED
    BY <1>3, <2>1, <2>2, PlainStep DEF EnterProve
<1>4. CASE Prove(s)
  <2>1. Onward(s)
    BY <1>4, <1>p DEF Prove, Onward, Goto, BeforeRow
  <2> QED
    BY <1>4, <1>j, <2>1, PlainStep DEF Prove
<1>5. CASE AssertAuthorization(s)
  <2>1. Onward(s)
    BY <1>5, <1>p DEF AssertAuthorization, Onward, Goto, BeforeRow
  <2> QED
    BY <1>5, <1>j, <2>1, PlainStep DEF AssertAuthorization
<1>6. CASE CommitSubmitting(s)
  <2>1. Onward(s)
    BY <1>6, <1>p DEF CommitSubmitting, Onward, Goto, BeforeRow
  <2>2. Carries(s)
    BY <1>6, <1>t, OwnMark DEF CommitSubmitting, MarkOrLose
  <2> QED
    BY <1>6, <2>1, <2>2, PlainStep DEF CommitSubmitting
<1>7. CASE AdmitSend(s)
  <2>1. Onward(s)
    BY <1>7, <1>p DEF AdmitSend, Onward, Goto, BeforeRow
  <2> QED
    BY <1>7, <1>j, <2>1, PlainStep DEF AdmitSend
<1>8. CASE Broadcast(s)
  <2>1. Onward(s)
    BY <1>8, <1>p DEF Broadcast, Onward, Goto, BeforeRow
  <2> QED
    BY <1>8, <1>j, <2>1, PlainStep DEF Broadcast
<1>9. CASE Answer(s)
  <2>1. Onward(s)
    BY <1>9, <1>p DEF Answer, Onward, Goto, BeforeRow
  <2> QED
    BY <1>9, <1>j, <2>1, PlainStep DEF Answer
<1>10. CASE RecordTransaction(s)
  <2>1. Onward(s)
    BY <1>10, <1>p DEF RecordTransaction, Onward, Goto, BeforeRow
  <2> QED
    BY <1>10, <1>j, <2>1, PlainStep DEF RecordTransaction
<1>11. CASE Succeed(s)
  <2>1. Onward(s)
    BY <1>11, <1>p DEF Succeed, Onward, Goto, BeforeRow
  <2>2. Carries(s)
    BY <1>11, <1>t, OwnMark DEF Succeed, MarkOrLose
  <2> QED
    BY <1>11, <2>1, <2>2, PlainStep DEF Succeed
<1>12. CASE Failing(s)
  <2>1. Onward(s)
    BY <1>12, <1>p DEF Failing, Onward, Goto, BeforeRow
  <2>2. Carries(s)
    BY <1>12, <1>t, OwnMark, Zenon DEF Failing, MarkOrLose
  <2> QED
    BY <1>12, <2>1, <2>2, PlainStep DEF Failing
<1>13. CASE Cleanup(s)
  <2>1. Onward(s)
    BY <1>13, <1>p DEF Cleanup, Onward, Goto, BeforeRow, AfterCleanup
  <2>2. ControllerPart(s)
    BY <1>13, Zenon DEF Cleanup, cancelVars, ControllerPart, FenceInv, OwnControllers
  <2>3. IdPart(s)
    BY <1>13 DEF Cleanup, IdPart
  <2> QED
    BY <1>13, <1>j, <2>1, <2>2, <2>3, ControllerStep, Zenon DEF Cleanup, cancelVars
<1>14. CASE Settle(s)
  <2>1. Onward(s)
    BY <1>14, <1>p DEF Settle, Onward, Goto, BeforeRow
  <2>2. Carries(s)
    BY <1>14, <1>t, OwnMark DEF Settle, TransitionOrLose
  <2> QED
    BY <1>14, <2>1, <2>2, PlainStep DEF Settle
<1> QED
  BY <1>1, <1>2, <1>3, <1>4, <1>5, <1>6, <1>7, <1>8, <1>9, <1>10, <1>11, <1>12, <1>13,
     <1>14 DEF InSlot

-----------------------------------------------------------------------------
(* The invariant.                                                          *)

\* A controller never stands under a row that is about to be filed.
LEMMA UnfiledFree ==
    ASSUME SendInv, FenceInv, NEW s \in Sends
    PROVE  /\ pc[s] = "filing" => controllers[QueuedRow(s)] = 0
           /\ pc[s] \in {"create", "createFresh"} => controllers[FreshRow(s)] = 0
<1>1. CASE pc[s] = "filing"
  <2>1. QueuedRow(s) \in Rows /\ queued[s] = NoRow /\ row[s] = NoRow
    BY <1>1, RowIds DEF SendInv, OwnRows, FenceInv, FilesOnce, BeforeRow
  <2>2. \A t \in Sends : QueuedRow(s) \notin {queued[t], row[t]}
    BY <2>1, RowIds DEF SendInv, OwnRows
  <2> QED
    BY <1>1, <2>1, <2>2 DEF FenceInv, OwnControllers
<1>2. CASE pc[s] \in {"create", "createFresh"}
  <2>1. FreshRow(s) \in Rows /\ row[s] = NoRow
    BY <1>2, RowIds DEF FenceInv, FilesOnce, BeforeRow
  <2>2. \A t \in Sends : FreshRow(s) \notin {queued[t], row[t]}
    BY <2>1, RowIds DEF SendInv, OwnRows
  <2> QED
    BY <1>2, <2>1, <2>2 DEF FenceInv, OwnControllers
<1> QED
  BY <1>1, <1>2

\* Filing changes one row, to a fresh one of the current incarnation.
LEMMA FiledRow ==
    ASSUME journal \in [Rows -> Row], NEW r, Filed(r)
    PROVE  /\ deletion = "none" /\ r \in Rows
           /\ journal'[r].stage \in {"queued", "pending"} /\ journal'[r].epoch = epoch
           /\ \A x \in Rows \ {r} : journal'[x] = journal[x]
BY DEF Filed, Create

\* A step of a send keeps the invariant.
LEMMA SendKeepsFence ==
    ASSUME SendInv, FenceInv, NEW s \in Sends, Footprint(s), faults' \in {faults, faults + 1}
    PROVE  FenceInv'
<1>j. journal \in [Rows -> Row]
  BY DEF SendInv, Shape
<1>1. FilesOnce'
  BY DEF Footprint, PcPart, IdPart, FenceInv, FilesOnce
<1>2. OwnControllers'
  <2>1. controllers' \in [Rows -> Nat]
    BY DEF Footprint, ControllerPart
  <2>2. ASSUME NEW r \in Rows, controllers'[r] # 0 PROVE \E t \in Sends : r \in {queued'[t], row'[t]}
    <3>1. CASE controllers'[r] = controllers[r]
      <4>1. PICK t \in Sends : r \in {queued[t], row[t]}
        BY <2>2, <3>1 DEF FenceInv, OwnControllers
      <4>2. queued[t] \in {queued'[t], NoRow} /\ row[t] \in {row'[t], NoRow}
        BY DEF Footprint, IdPart, FenceInv, FilesOnce
      <4> QED
        BY <4>1, <4>2, RowsAssumption
    <3>2. CASE r \in {queued'[s], row'[s]}
      BY <3>2
    <3> QED
      BY <2>2, <3>1, <3>2 DEF Footprint, ControllerPart
  <2> QED
    BY <2>1, <2>2 DEF OwnControllers
<1>3. SweepCovers'
  <2>f. faults \in Nat /\ faults' \in Nat /\ (faults' = 0 => faults = 0)
    BY DEF FenceInv, SweepCovers
  <2> SUFFICES ASSUME NEW r \in Rows, faults = 0, controllers'[r] \notin {0, live},
                      r \notin sweep' \cup abortDue, journal'[r].stage \in PreSubmit
               PROVE  FALSE
    BY <2>f DEF SweepCovers, Footprint
  <2>1. controllers'[r] = controllers[r] /\ r \notin sweep
    BY DEF Footprint, ControllerPart
  <2>2. journal[r].stage \notin PreSubmit
    BY <2>1 DEF FenceInv, SweepCovers
  <2>3. CASE Carries(s)
    BY <2>2, <2>3 DEF Carries, Carried, Kept
  <2>4. CASE pc[s] = "filing" /\ Filed(QueuedRow(s))
    BY <1>j, <2>1, <2>2, <2>4, FiledRow, UnfiledFree
  <2>5. CASE pc[s] \in {"create", "createFresh"} /\ Filed(FreshRow(s))
    BY <1>j, <2>1, <2>2, <2>5, FiledRow, UnfiledFree
  <2> QED
    BY <2>3, <2>4, <2>5 DEF Footprint, JournalPart
<1>4. EpochsCurrent'
  <2>1. CASE Carries(s)
    BY <2>1 DEF Footprint, FenceInv, EpochsCurrent, AllOfEpoch, Carries, Carried, Kept
  <2>2. CASE \E r : Filed(r)
    BY <1>j, <2>2, FiledRow DEF Footprint, FenceInv, EpochsCurrent, AllOfEpoch
  <2> QED
    BY <2>1, <2>2 DEF Footprint, JournalPart
<1> QED
  BY <1>1, <1>2, <1>3, <1>4 DEF FenceInv

\* Sessions, deletions, cancels, reapers and the death of the worker keep it.
LEMMA EnvironmentKeepsFence ==
    ASSUME SendInv, FenceInv,
           \/ \E r \in Rows : CancelAsked(r) \/ CancelStep(r) \/ BootReap(r) \/ Reap(r)
           \/ Unlock \/ LockWallet \/ BeginDeletion \/ DeletionStep \/ Kill
    PROVE  FenceInv'
<1> USE DEF sendVars, sessionVars, laneVars, cancelVars
<1>j. journal \in [Rows -> Row]
  BY DEF SendInv, Shape
<1>c. controllers \in [Rows -> Nat]
  BY DEF FenceInv, OwnControllers
<1>k. UNCHANGED journal => \A x \in Rows : Kept(x)
  BY DEF Kept
<1>a. ASSUME UNCHANGED <<pc, queued, row, controllers>> PROVE FilesOnce' /\ OwnControllers'
  BY <1>a DEF FenceInv, FilesOnce, OwnControllers
<1>b. ASSUME UNCHANGED <<pc, queued, row, controllers, live, epoch, deletion, faults>>,
             \A x \in Rows : Kept(x), sweep \cup abortDue \subseteq sweep' \cup abortDue'
      PROVE  FenceInv'
  <2>1. FilesOnce' /\ OwnControllers'
    BY <1>a, <1>b
  <2>2. SweepCovers'
    BY <1>b DEF FenceInv, SweepCovers, Kept
  <2>3. EpochsCurrent'
    BY <1>b DEF FenceInv, EpochsCurrent, AllOfEpoch, Kept
  <2> QED
    BY <2>1, <2>2, <2>3 DEF FenceInv
<1>s. ASSUME StartSweep, UNCHANGED <<controllers, faults>> PROVE SweepCovers'
  BY <1>s DEF FenceInv, StartSweep, SweepCovers
<1>1. CASE \E r \in Rows : CancelAsked(r)
  BY <1>1, <1>b, <1>k DEF CancelAsked
<1>2. ASSUME NEW r \in Rows, CancelApplied(r) PROVE FenceInv'
  <2>1. \A x \in Rows : Kept(x)
    BY <1>2, <1>j, <1>k, WriteKeeps DEF CancelApplied, Mark, Kept
  <2> QED
    BY <1>2, <2>1, <1>b DEF CancelApplied
<1>3. ASSUME NEW r \in Rows, SweepRow(r) PROVE FenceInv'
  <2>1. Stage(r) = journal[r].stage
    BY RowsAssumption, Zenon DEF Stage
  <2>f. faults \in Nat
    BY DEF FenceInv, SweepCovers
  <2>2. CASE UNCHANGED faults /\ controllers[r] \notin {0, live} /\ journal[r].stage \in PreSubmit
    <3>1. Legal(r, "cancelled")
      BY <2>1, <2>2 DEF Legal, Present, CanTransition, PreSubmit
    <3>2. Write(r, "cancelled") /\ abortDue' = abortDue \cup {r}
      BY <1>3, <2>1, <2>2, <2>f, <3>1 DEF SweepRow, Fault, TransitionIfStage, Mark
    <3>3. \A x \in Rows : Kept(x)
      BY <1>j, <3>1, <3>2, WriteKeeps, Zenon DEF Kept
    <3> QED
      BY <1>3, <2>2, <3>2, <3>3, <1>b, Zenon DEF SweepRow
  <2>3. CASE \/ controllers[r] \in {0, live} \/ journal[r].stage \notin PreSubmit
             \/ Fault /\ UNCHANGED <<journal, abortDue>>
    <3>1. /\ UNCHANGED <<journal, abortDue, pc, queued, row, controllers, live, epoch, deletion>>
          /\ sweep' = sweep \ {r}
      BY <1>3, <2>1, <2>3, Zenon DEF SweepRow, TransitionIfStage
    <3>2. FilesOnce' /\ OwnControllers'
      BY <3>1, <1>a
    <3>3. SweepCovers'
      <4>1. CASE Fault
        BY <2>f, <4>1 DEF Fault, SweepCovers
      <4>2. CASE UNCHANGED faults /\ (controllers[r] \in {0, live} \/ journal[r].stage \notin PreSubmit)
        BY <3>1, <4>2, Zenon DEF FenceInv, SweepCovers
      <4> QED
        BY <1>3, <2>3, <4>1, <4>2 DEF SweepRow
    <3>4. EpochsCurrent'
      BY <3>1, Zenon DEF FenceInv, EpochsCurrent, AllOfEpoch
    <3> QED
      BY <3>2, <3>3, <3>4 DEF FenceInv
  <2> QED
    BY <1>3, <2>2, <2>3, Zenon DEF SweepRow
<1>4. ASSUME NEW r \in Rows, AbortCancelled(r) PROVE FenceInv'
  <2>1. /\ UNCHANGED <<journal, pc, queued, row, live, epoch, deletion, sweep, faults>>
        /\ abortDue' = abortDue \ {r} /\ controllers' = [controllers EXCEPT ![r] = 0]
    BY <1>4 DEF AbortCancelled
  <2>2. FilesOnce' /\ OwnControllers'
    BY <2>1, <1>c DEF FenceInv, FilesOnce, OwnControllers
  <2>3. SweepCovers'
    BY <2>1, <1>c DEF FenceInv, SweepCovers
  <2>4. EpochsCurrent'
    BY <2>1, Zenon DEF FenceInv, EpochsCurrent, AllOfEpoch
  <2> QED
    BY <2>2, <2>3, <2>4 DEF FenceInv
<1>5. ASSUME NEW r \in Rows, BootReap(r) \/ Reap(r) PROVE FenceInv'
  <2>1. \A x \in Rows : Kept(x)
    BY <1>5, <1>j, MarkCarries DEF BootReap, Reap, Carried
  <2> QED
    BY <1>5, <2>1, <1>b DEF BootReap, Reap
<1>6. CASE Unlock \/ LockWallet
  <2>1. UNCHANGED <<journal, pc, queued, row, controllers, epoch, deletion, faults>> /\ StartSweep
    BY <1>6 DEF Unlock, LockWallet
  <2>2. EpochsCurrent'
    BY <2>1, Zenon DEF FenceInv, EpochsCurrent, AllOfEpoch
  <2> QED
    BY <2>1, <2>2, <1>a, <1>s DEF FenceInv
<1>7. CASE BeginDeletion
  <2>1. UNCHANGED <<journal, pc, queued, row, controllers, live, sweep, abortDue, faults>>
    BY <1>7 DEF BeginDeletion
  <2>2. EpochsCurrent'
    <3>t. epoch \in Nat
      BY DEF SendInv, Shape
    <3>1. deletion = "none" /\ deletion' = "begun" /\ epoch' - 1 = epoch
      BY <1>7, <3>t DEF BeginDeletion
    <3> QED
      BY <2>1, <3>1, Zenon DEF FenceInv, EpochsCurrent, AllOfEpoch
  <2>3. SweepCovers'
    BY <2>1 DEF FenceInv, SweepCovers
  <2> QED
    BY <2>1, <2>2, <2>3, <1>a DEF FenceInv
<1>8. CASE CloseDeleted
  <2>1. UNCHANGED <<journal, pc, queued, row, controllers, abortDue, faults>> /\ deletion' = "closed"
    BY <1>8 DEF CloseDeleted
  <2>2. EpochsCurrent'
    BY <2>1 DEF EpochsCurrent
  <2>3. SweepCovers'
    <3>1. CASE live # 0
      BY <1>8, <2>1, <3>1, <1>s DEF CloseDeleted
    <3>2. CASE live = 0
      BY <1>8, <2>1, <3>2 DEF CloseDeleted, FenceInv, SweepCovers
    <3> QED
      BY <3>1, <3>2
  <2> QED
    BY <2>1, <2>2, <2>3, <1>a DEF FenceInv
<1>9. CASE PurgeProfile
  <2>1. UNCHANGED <<pc, queued, row, controllers, live, faults>> /\ deletion' = "purged"
    BY <1>9 DEF PurgeProfile
  <2>2. \A r \in Rows : journal'[r].stage = "absent"
    BY <1>9 DEF PurgeProfile, PurgeRows, AbsentRow
  <2>3. EpochsCurrent' /\ SweepCovers'
    BY <2>1, <2>2, Zenon DEF FenceInv, EpochsCurrent, AllOfEpoch, SweepCovers, PreSubmit
  <2> QED
    BY <2>1, <2>3, <1>a DEF FenceInv
<1>10. CASE ReleaseProfile
  <2>1. /\ UNCHANGED <<journal, pc, queued, row, controllers, live, epoch, sweep, abortDue, faults>>
        /\ deletion = "purged" /\ deletion' = "none"
    BY <1>10 DEF ReleaseProfile
  <2>2. EpochsCurrent' /\ SweepCovers'
    BY <2>1 DEF FenceInv, EpochsCurrent, AllOfEpoch, SweepCovers
  <2> QED
    BY <2>1, <2>2, <1>a DEF FenceInv
<1>11. CASE Kill
  <2>1. controllers' = [r \in Rows |-> 0] /\ UNCHANGED <<journal, queued, row, faults>>
    BY <1>11 DEF Kill
  <2>2. \A s \in Sends : pc'[s] \in {pc[s], "killed"}
    BY <1>11 DEF Kill
  <2>3. FilesOnce'
    BY <2>1, <2>2, Zenon DEF FenceInv, FilesOnce, BeforeRow
  <2>4. OwnControllers' /\ SweepCovers'
    BY <2>1 DEF FenceInv, OwnControllers, SweepCovers
  <2>5. EpochsCurrent'
    <3>1. CASE deletion = "none"
      BY <1>11, <2>1, <3>1 DEF Kill, FenceInv, EpochsCurrent, AllOfEpoch
    <3>2. CASE deletion = "begun"
      BY <1>11, <2>1, <3>2 DEF Kill, FenceInv, EpochsCurrent, AllOfEpoch
    <3>3. CASE deletion \in {"closed", "purged"}
      BY <1>11, <3>3 DEF Kill, EpochsCurrent
    <3> QED
      BY <3>1, <3>2, <3>3 DEF FenceInv, EpochsCurrent
  <2> QED
    BY <2>3, <2>4, <2>5 DEF FenceInv
<1> QED
  BY <1>1, <1>2, <1>3, <1>4, <1>5, <1>6, <1>7, <1>8, <1>9, <1>10, <1>11 DEF CancelStep,
     DeletionStep

-----------------------------------------------------------------------------
(* The theorems.                                                           *)

\* Every step of a send has the footprint.
LEMMA StepFootprint ==
    ASSUME SendInv, FenceInv, NEW s \in Sends, Request(s) \/ SendStep(s) PROVE Footprint(s)
BY BeforeLaneFootprint, InLaneFootprint, InSlotFootprint DEF SendStep

\* Every step of a send counts at most one failed call.
LEMMA StepFaults ==
    ASSUME NEW s \in Sends, Request(s) \/ SendStep(s) PROVE faults' \in {faults, faults + 1}
<1>1. CASE Request(s) \/ BeforeLane(s)
  BY <1>1 DEF Request, RequestTransfer, Arrive, BeforeLane, CreateTransfer, CreateRefused,
     FileQueued,
     Dispatch, Approve, ClosePopup, Authorise, AuthoriseSilently, FastForward, RefuseTerms,
     MarkOrLose, TransitionOrLose, Fault
<1>2. CASE InLane(s)
  BY <1>2, Zenon DEF InLane, EnterLane, AssertFence, Refused, Enqueue, Granted, AbortWait, ClaimMissing,
     ClaimLost, ClaimMoved, ClaimQueued, ClaimPending, RefileMissing, ClaimTransition, CreateFresh,
     MarkOrLose, Fault
<1>3. CASE InSlot(s)
  BY <1>3, Zenon DEF InSlot, Simulate, Build, EnterProve, Prove, AssertAuthorization, CommitSubmitting,
     AdmitSend, Broadcast, Answer, RecordTransaction, Succeed, Failing, Cleanup, Settle,
     MarkOrLose, TransitionOrLose, Fault
<1> QED
  BY <1>1, <1>2, <1>3 DEF SendStep

\* FenceInv holds in every state of every run of the pipeline.
THEOREM FenceInvariant == Spec => []FenceInv
<1>1. Init => FenceInv
  <2> SUFFICES ASSUME Init PROVE FenceInv
    OBVIOUS
  <2>1. FilesOnce /\ OwnControllers /\ SweepCovers
    BY DEF Init, FilesOnce, OwnControllers, SweepCovers
  <2>2. \A r \in Rows : journal[r].stage = "absent"
    BY Zenon DEF Init, AbsentRow
  <2>3. EpochsCurrent
    BY <2>2 DEF Init, EpochsCurrent, AllOfEpoch
  <2> QED
    BY <2>1, <2>3 DEF FenceInv
<1>2. SendInv /\ FenceInv /\ [Next]_vars => FenceInv'
  <2> SUFFICES ASSUME SendInv, FenceInv, [Next]_vars PROVE FenceInv'
    OBVIOUS
  <2>1. ASSUME NEW s \in Sends, Request(s) \/ SendStep(s) PROVE FenceInv'
    BY <2>1, StepFootprint, StepFaults, SendKeepsFence
  <2>2. CASE UNCHANGED vars
    <3>1. UNCHANGED <<journal, epoch, deletion, live, controllers, sweep, abortDue, pc, queued, row, faults>>
      BY <2>2 DEF vars, sessionVars, laneVars, cancelVars, sendVars
    <3> QED
      BY <3>1, Zenon DEF FenceInv, FilesOnce, OwnControllers, SweepCovers, EpochsCurrent, AllOfEpoch
  <2> QED
    BY <2>1, <2>2, EnvironmentKeepsFence DEF Next
<1> QED
  BY <1>1, <1>2, SendInvariant, PTL DEF Spec

\* When no sweep is under way and no call has failed, a job that is still
\* registered for an ended session is past its last cancel point
\* (abandonDeadSessions against registerInFlight).
THEOREM FenceDeadJobsSwept == Spec => []DeadJobsSwept
<1>1. FenceInv => DeadJobsSwept
  BY RowsAssumption, Zenon DEF FenceInv, SweepCovers, DeadJobsSwept, Stage
<1> QED
  BY <1>1, FenceInvariant, PTL

\* No row of an erased incarnation survives its deletion or is filed after it
\* (deleteProfile, createOperation's epoch fence and a death in between).
THEOREM FenceErasedStaysErased == Spec => []ErasedStaysErased
<1>1. FenceInv => ErasedStaysErased
  BY RowsAssumption DEF FenceInv, EpochsCurrent, AllOfEpoch, ErasedStaysErased, Present, Stage
<1> QED
  BY <1>1, FenceInvariant, PTL


-----------------------------------------------------------------------------
(* Authority: the fence of a running send against the live session.        *)

\* Where a send has not been authorised yet; Arrive captures the epoch only.
Unauthorised == {"idle", "filing", "parked", "popup", "silent", "authorise"}

\* Why neither a session nor an epoch a running send holds comes back.
NeverAhead ==
    /\ live <= lastSerial
    /\ \A s \in Sends : pc[s] \in Unauthorised => fence[s].session = 0
    /\ \A s \in Sends : Running(s) => fence[s].session <= lastSerial /\ fence[s].epoch <= epoch

\* The controllers of a send are tagged with the session that authorised it.
OwnTags ==
    \A s \in Sends : \A r \in Rows : r \in {queued[s], row[s]} => controllers[r] \in {0, fence[s].session}

\* LiveJobsKept, and the same before the send is authorised.
SparedRow(r) == Stage(r) = "cancelled" => r \in asked
Spared ==
    \A s \in Sends : Running(s) /\ (fence[s].session = 0 \/ FenceLive(s)) =>
        SparedRow(queued[s]) /\ SparedRow(row[s])

AuthorityInv == NeverAhead /\ OwnTags /\ Spared

\* What a step of s does to its own authority and to what is sent.
AuthorityPart(s) ==
    /\ pc[s] \notin {"done", "killed"}
    /\ \A t \in Sends \ {s} : fence'[t] = fence[t]
    /\ \/ pc[s] # "idle" /\ fence'[s] = fence[s]
       \/ /\ pc[s] \in Unauthorised /\ UNCHANGED controllers
          /\ fence'[s].epoch = epoch /\ fence'[s].session \in {fence[s].session, live}
    /\ pc'[s] \in Unauthorised => pc[s] \in Unauthorised /\ fence'[s].session = fence[s].session
    /\ \A r \in {queued'[s], row'[s]} : \/ r \in {queued[s], row[s]}
                                        \/ journal'[r].stage \in {"queued", "pending"}
    /\ \A t \in sent' \ sent : t = s /\ FenceLive(s)

\* Most steps leave the authority, the rows and what is sent alone.
LEMMA OldAuthority ==
    ASSUME NEW s \in Sends, pc[s] \notin {"idle", "done", "killed"}, UNCHANGED <<fence, queued, row, sent>>,
           pc'[s] \in Unauthorised => pc[s] \in Unauthorised
    PROVE  AuthorityPart(s)
BY DEF AuthorityPart

\* So do some that file or adopt a row.
LEMMA RowAuthority ==
    ASSUME NEW s \in Sends, pc[s] \notin {"idle", "done", "killed"}, UNCHANGED <<fence, sent>>,
           pc'[s] \in Unauthorised => pc[s] \in Unauthorised,
           \/ UNCHANGED row /\ (queued'[s] = queued[s] \/ journal'[queued'[s]].stage = "queued")
           \/ UNCHANGED queued /\ (row'[s] = queued[s] \/ journal'[row'[s]].stage = "pending")
    PROVE  AuthorityPart(s)
<1>1. \A r \in {queued'[s], row'[s]} : r \in {queued[s], row[s]} \/ journal'[r].stage \in {"queued", "pending"}
  OBVIOUS
<1> QED
  BY <1>1 DEF AuthorityPart

\* Every step of a send does that.
LEMMA StepAuthority ==
    ASSUME SendInv, NEW s \in Sends, Request(s) \/ SendStep(s) PROVE AuthorityPart(s)
<1> USE DEF Goto
<1>p. pc = [t \in Sends |-> pc[t]] /\ fence \in [Sends -> [session : Nat, epoch : Nat]]
  BY DEF SendInv, Shape
<1>j. /\ journal \in [Rows -> Row] /\ queued \in [Sends -> Rows \cup {NoRow}]
      /\ row \in [Sends -> Rows \cup {NoRow}]
  BY DEF SendInv, Shape
<1>1. CASE Request(s)
  <2>1. CASE RequestTransfer(s)
    BY <1>p, <2>1 DEF RequestTransfer, Captured, laneVars, AuthorityPart, Unauthorised
  <2>2. CASE Arrive(s)
    BY <1>p, <2>2 DEF Arrive, laneVars, AuthorityPart, Unauthorised
  <2> QED
    BY <1>1, <2>1, <2>2 DEF Request
<1>2. CASE Authorise(s) \/ AuthoriseSilently(s)
  BY <1>2, <1>p DEF Authorise, AuthoriseSilently, Captured, laneVars, AuthorityPart, Unauthorised
<1>3. CASE CreateTransfer(s) \/ CreateFresh(s)
  <2>1. /\ Create(FreshRow(s), "pending", fence[s].epoch) /\ row' = [row EXCEPT ![s] = FreshRow(s)]
        /\ UNCHANGED <<queued, fence, sent>>
    BY <1>3 DEF CreateTransfer, CreateFresh
  <2>2. FreshRow(s) \in Rows
    BY RowIds
  <2>3. row'[s] = FreshRow(s) /\ journal'[FreshRow(s)].stage = "pending"
    BY <1>j, <2>1, <2>2 DEF Create
  <2>4. pc[s] \in {"create", "createFresh"} /\ pc'[s] \notin Unauthorised
    BY <1>3, <1>p DEF CreateTransfer, CreateFresh, Unauthorised
  <2> QED
    BY <2>1, <2>3, <2>4, RowAuthority, Zenon
<1>4. CASE FileQueued(s)
  <2>1. QueuedRow(s) \in Rows
    BY <1>4, RowIds, Zenon DEF FileQueued, SendInv, OwnRows
  <2>2. /\ pc[s] = "filing" /\ UNCHANGED <<fence, sent, row>>
        /\ \/ UNCHANGED queued
           \/ /\ Create(QueuedRow(s), "queued", fence[s].epoch)
              /\ queued' = [queued EXCEPT ![s] = QueuedRow(s)]
    BY <1>4 DEF FileQueued
  <2>3. UNCHANGED queued \/ (queued'[s] = QueuedRow(s) /\ journal'[QueuedRow(s)].stage = "queued")
    <3>1. ASSUME Create(QueuedRow(s), "queued", fence[s].epoch),
                 queued' = [queued EXCEPT ![s] = QueuedRow(s)]
          PROVE  queued'[s] = QueuedRow(s) /\ journal'[QueuedRow(s)].stage = "queued"
      BY <1>j, <2>1, <3>1 DEF Create
    <3> QED
      BY <2>2, <3>1
  <2> QED
    BY <2>2, <2>3, RowAuthority, Zenon DEF Unauthorised
<1>5. CASE CreateRefused(s) \/ Dispatch(s) \/ Approve(s) \/ ClosePopup(s)
  BY <1>5, <1>p, OldAuthority DEF CreateRefused, Dispatch, Approve, ClosePopup, sendVars, Unauthorised
<1>6. CASE FastForward(s) \/ RefuseTerms(s)
  BY <1>6, <1>p, OldAuthority DEF FastForward, RefuseTerms, sendVars, Unauthorised
<1>7. CASE EnterLane(s) \/ AssertFence(s) \/ Refused(s)
  BY <1>7, <1>p, OldAuthority DEF EnterLane, AssertFence, Refused, sendVars, Unauthorised
<1>8. CASE Enqueue(s) \/ Granted(s) \/ AbortWait(s)
  BY <1>8, <1>p, OldAuthority DEF Enqueue, Granted, AbortWait, sendVars, Unauthorised
<1>9. CASE ClaimMissing(s) \/ ClaimLost(s) \/ ClaimMoved(s)
  BY <1>9, <1>p, OldAuthority DEF ClaimMissing, ClaimLost, ClaimMoved, sendVars, Unauthorised
<1>10. CASE ClaimQueued(s) \/ RefileMissing(s)
  BY <1>10, <1>p, OldAuthority DEF ClaimQueued, RefileMissing, sendVars, Unauthorised
<1>11. ASSUME Adopt(s), pc[s] \notin {"idle", "done", "killed"}, UNCHANGED <<fence, sent, queued>>
       PROVE  AuthorityPart(s)
  BY <1>11, <1>p, <1>j, RowAuthority DEF Adopt, Unauthorised
<1>12. CASE ClaimPending(s)
  BY <1>11, <1>12, Zenon DEF ClaimPending
<1>13. CASE ClaimTransition(s)
  <2>1. CASE Adopt(s)
    BY <1>11, <1>13, <2>1 DEF ClaimTransition
  <2>2. CASE ~Adopt(s)
    BY <1>13, <1>p, <2>2, OldAuthority DEF ClaimTransition, Unauthorised
  <2> QED
    BY <2>1, <2>2
<1>14. CASE Simulate(s) \/ Build(s) \/ EnterProve(s) \/ Prove(s)
  BY <1>14, <1>p, OldAuthority DEF Simulate, Build, EnterProve, Prove, sendVars, Unauthorised
<1>15. CASE AssertAuthorization(s) \/ CommitSubmitting(s) \/ AdmitSend(s) \/ Answer(s)
  BY <1>15, <1>p, OldAuthority DEF AssertAuthorization, CommitSubmitting, AdmitSend, Answer, sendVars,
     Unauthorised
<1>16. CASE Broadcast(s)
  BY <1>16, <1>p DEF Broadcast, sendVars, AuthorityPart, Unauthorised
<1>17. CASE RecordTransaction(s) \/ Succeed(s) \/ Failing(s)
  BY <1>17, <1>p, OldAuthority DEF RecordTransaction, Succeed, Failing, sendVars, Unauthorised
<1>18. CASE Cleanup(s) \/ Settle(s)
  BY <1>18, <1>p, OldAuthority DEF Cleanup, AfterCleanup, Settle, sendVars, Unauthorised
<1>19. CASE BeforeLane(s)
  BY <1>2, <1>3, <1>4, <1>5, <1>6, <1>19, Zenon DEF BeforeLane
<1>20. CASE InLane(s)
  BY <1>3, <1>7, <1>8, <1>9, <1>10, <1>12, <1>13, <1>20, Zenon DEF InLane
<1>21. CASE InSlot(s)
  BY <1>14, <1>15, <1>16, <1>17, <1>18, <1>21, Zenon DEF InSlot
<1> QED
  BY <1>1, <1>19, <1>20, <1>21 DEF SendStep

\* Two sends never hold the same row, before and after a step either.
LEMMA OneOwner ==
    ASSUME SendInv, SendInv', NEW s \in Sends, NEW t \in Sends, NEW r \in Rows,
           r \in {queued[s], row[s]}, r \in {queued'[t], row'[t]}
    PROVE  s = t
<1>1. r \in {QueuedRow(s), FreshRow(s)}
  BY RowIds DEF SendInv, OwnRows
<1>2. r \in {QueuedRow(t), FreshRow(t)}
  BY RowIds DEF SendInv, OwnRows
<1> QED
  BY <1>1, <1>2, RowIds

\* A step of a send keeps AuthorityInv.
LEMMA SendKeepsAuthority ==
    ASSUME SendInv, SendInv', FenceInv, AuthorityInv, NEW s \in Sends, Footprint(s), AuthorityPart(s)
    PROVE  AuthorityInv'
<1>p. /\ \A t \in Sends \ {s} : pc'[t] = pc[t] /\ fence'[t] = fence[t]
      /\ UNCHANGED <<live, lastSerial, epoch, asked>>
      /\ pc'[s] # "idle" /\ pc[s] \notin {"done", "killed"}
  BY Zenon DEF Footprint, PcPart, AuthorityPart
<1>i. \A t \in Sends \ {s} : queued'[t] = queued[t] /\ row'[t] = row[t]
  BY Zenon DEF Footprint, IdPart
<1>f. \/ pc[s] # "idle" /\ fence'[s] = fence[s]
      \/ /\ pc[s] \in Unauthorised /\ UNCHANGED controllers /\ fence[s].session = 0
         /\ fence'[s].epoch = epoch /\ fence'[s].session \in {0, live}
  BY Zenon DEF AuthorityPart, AuthorityInv, NeverAhead
<1>1. NeverAhead'
  <2>1. pc'[s] \in Unauthorised => fence'[s].session = 0
    BY Zenon DEF AuthorityPart, AuthorityInv, NeverAhead
  <2>2. fence'[s].session <= lastSerial /\ fence'[s].epoch <= epoch
    <3>1. live \in Nat /\ lastSerial \in Nat /\ epoch \in Nat /\ live <= lastSerial
      BY DEF SendInv, Shape, AuthorityInv, NeverAhead
    <3>2. pc[s] # "idle" => fence[s].session <= lastSerial /\ fence[s].epoch <= epoch
      BY <1>p DEF AuthorityInv, NeverAhead, Running
    <3> QED
      BY <1>f, <3>1, <3>2
  <2> QED
    BY <1>p, <2>1, <2>2, Zenon DEF AuthorityInv, NeverAhead, Running
<1>2. OwnTags'
  <2> SUFFICES ASSUME NEW t \in Sends, NEW r \in Rows, r \in {queued'[t], row'[t]}
               PROVE  controllers'[r] \in {0, fence'[t].session}
    BY Zenon DEF OwnTags
  <2>1. controllers[r] \in {0, fence[t].session}
    <3> SUFFICES ASSUME controllers[r] # 0 PROVE controllers[r] = fence[t].session
      OBVIOUS
    <3>1. PICK u \in Sends : r \in {queued[u], row[u]}
      BY DEF FenceInv, OwnControllers
    <3>2. u = t
      BY <3>1, OneOwner
    <3> QED
      BY <3>1, <3>2, Zenon DEF AuthorityInv, OwnTags
  <2>2. \/ controllers'[r] \in {0, controllers[r]}
        \/ controllers'[r] = fence[s].session /\ r \in {queued'[s], row'[s]}
    BY Zenon DEF Footprint, ControllerPart
  <2>3. r \in {queued'[s], row'[s]} => t = s
    BY <1>i, OneOwner, Zenon
  <2> QED
    BY <1>p, <1>f, <2>1, <2>2, <2>3, Zenon
<1>3. Spared'
  <2>1. \A r \in Rows : journal'[r].stage = "cancelled" => journal[r].stage = "cancelled"
    <3>1. CASE Carries(s)
      BY <3>1 DEF Carries, Carried
    <3>2. CASE \E x : Filed(x)
      BY <3>2, FiledRow DEF SendInv, Shape
    <3> QED
      BY <3>1, <3>2, Zenon DEF Footprint, JournalPart
  <2> SUFFICES ASSUME NEW t \in Sends, Running(t)', (fence[t].session = 0 \/ FenceLive(t))',
                      NEW r \in Rows, r \in {queued'[t], row'[t]}, journal'[r].stage = "cancelled"
               PROVE  r \in asked
    BY <1>p, RowsAssumption, Zenon DEF Spared, SparedRow, Stage, SendInv, Shape
  <2>2. r \in {queued[t], row[t]} /\ Stage(r) = "cancelled"
    BY <1>i, <2>1, RowsAssumption, Zenon DEF AuthorityPart, Stage
  <2>3. Running(t)
    BY <1>p, <2>2, RowsAssumption, Zenon DEF Running, FenceInv, FilesOnce, BeforeRow
  <2>4. fence[t].session = 0 \/ FenceLive(t)
    BY <1>p, <1>f, Zenon DEF FenceLive
  <2> QED
    BY <2>2, <2>3, <2>4, Zenon DEF AuthorityInv, Spared, SparedRow
<1> QED
  BY <1>1, <1>2, <1>3 DEF AuthorityInv

\* What the rest of the wallet does to the authority of the sends.
DropsTags == \A r \in Rows : controllers'[r] \in {0, controllers[r]}
CancelsDead ==
    \A r \in Rows : journal'[r].stage = "cancelled" =>
        \/ journal[r].stage = "cancelled" \/ r \in asked
        \/ controllers[r] \notin {0, live} /\ UNCHANGED live
Advanced ==
    /\ UNCHANGED pc /\ asked \subseteq asked'
    /\ lastSerial <= lastSerial' /\ epoch <= epoch'
    /\ live' \in {0, live} \/ live' > lastSerial
Halted == \A s \in Sends : pc'[s] \in {"done", "killed"} \/ (pc'[s] = "idle" /\ pc[s] = "idle")

EnvironmentPart ==
    /\ UNCHANGED <<fence, queued, row, sent>>
    /\ DropsTags /\ CancelsDead /\ live' <= lastSerial' /\ (Advanced \/ Halted)

\* Sessions, deletions, cancels, reapers and the death of the worker do that.
LEMMA EnvironmentAuthority ==
    ASSUME SendInv, FenceInv, AuthorityInv,
           \/ \E r \in Rows : CancelAsked(r) \/ CancelStep(r) \/ BootReap(r) \/ Reap(r)
           \/ Unlock \/ LockWallet \/ BeginDeletion \/ DeletionStep \/ Kill
    PROVE  EnvironmentPart
<1> USE DEF sendVars, sessionVars, laneVars
<1>n. /\ live \in Nat /\ lastSerial \in Nat /\ epoch \in Nat /\ live <= lastSerial
      /\ journal \in [Rows -> Row] /\ controllers \in [Rows -> Nat]
  BY DEF SendInv, Shape, AuthorityInv, NeverAhead, FenceInv, OwnControllers
<1>1. ASSUME UNCHANGED <<live, lastSerial, epoch, fence, queued, row, sent, pc>>,
             asked \subseteq asked', DropsTags, CancelsDead
      PROVE  EnvironmentPart
  BY <1>1, <1>n DEF EnvironmentPart, Advanced
<1>2. UNCHANGED controllers => DropsTags
  BY DEF DropsTags
<1>3. UNCHANGED journal => CancelsDead
  BY DEF CancelsDead
<1>4. ASSUME NEW x \in Rows, CancelApplied(x) \/ SweepRow(x) \/ BootReap(x) \/ Reap(x)
      PROVE  EnvironmentPart
  <2>1. UNCHANGED <<live, lastSerial, epoch, controllers, asked, fence, queued, row, sent, pc>>
    BY <1>4, Zenon DEF CancelApplied, SweepRow, BootReap, Reap, cancelVars
  <2>2. CancelApplied(x) => CancelsDead
    BY <1>n, <2>1, WriteKeeps, Zenon DEF CancelApplied, Mark, CancelsDead
  <2>3. SweepRow(x) => CancelsDead
    BY <1>n, <2>1, WriteKeeps, Zenon DEF SweepRow, TransitionIfStage, Mark, CancelsDead
  <2>4. BootReap(x) \/ Reap(x) => CancelsDead
    BY <1>n, <2>1, MarkCarries, Zenon DEF BootReap, Reap, Carried, CancelsDead
  <2>5. CancelsDead
    BY <1>4, <2>2, <2>3, <2>4
  <2> QED
    BY <1>1, <1>2, <2>1, <2>5
<1>5. ASSUME NEW x \in Rows, CancelAsked(x) PROVE EnvironmentPart
  BY <1>1, <1>2, <1>3, <1>5 DEF CancelAsked
<1>6. ASSUME NEW x \in Rows, AbortCancelled(x) PROVE EnvironmentPart
  <2>1. DropsTags
    BY <1>n, <1>6 DEF AbortCancelled, DropsTags
  <2> QED
    BY <1>1, <1>3, <1>6, <2>1 DEF AbortCancelled
<1>7. CASE Unlock \/ LockWallet \/ BeginDeletion
  <2>1. /\ UNCHANGED <<controllers, journal, fence, queued, row, sent, pc, asked>>
        /\ epoch' \in {epoch, epoch + 1} /\ lastSerial' \in {lastSerial, lastSerial + 1}
        /\ live' \in {0, live} \/ (live' = lastSerial + 1 /\ lastSerial' = live')
    BY <1>n, <1>7 DEF Unlock, LockWallet, BeginDeletion, cancelVars
  <2>2. live' <= lastSerial' /\ lastSerial <= lastSerial' /\ epoch <= epoch'
    BY <1>n, <2>1
  <2>3. live' \in {0, live} \/ live' > lastSerial
    BY <1>n, <2>1
  <2> QED
    BY <1>2, <1>3, <2>1, <2>2, <2>3 DEF EnvironmentPart, Advanced
<1>8. CASE CloseDeleted
  <2>1. /\ UNCHANGED <<controllers, journal, lastSerial, epoch, fence, queued, row, sent, pc, asked>>
        /\ live' \in {0, live}
    BY <1>8 DEF CloseDeleted, cancelVars
  <2>2. live' <= lastSerial' /\ lastSerial <= lastSerial' /\ epoch <= epoch'
    BY <1>n, <2>1
  <2> QED
    BY <1>2, <1>3, <2>1, <2>2 DEF EnvironmentPart, Advanced
<1>9. CASE ReleaseProfile
  BY <1>1, <1>2, <1>3, <1>9 DEF ReleaseProfile, cancelVars
<1>10. CASE PurgeProfile
  <2>1. \A r \in Rows : journal'[r].stage = "absent"
    BY <1>10 DEF PurgeProfile, PurgeRows, AbsentRow
  <2>2. CancelsDead
    BY <2>1 DEF CancelsDead
  <2>3. UNCHANGED <<live, lastSerial, epoch, controllers, asked, fence, queued, row, sent, pc>>
    BY <1>10 DEF PurgeProfile, cancelVars
  <2> QED
    BY <1>1, <1>2, <2>2, <2>3
<1>11. CASE Kill
  <2>1. /\ \A s \in Sends : pc[s] \in {"idle", "done"} => pc'[s] = pc[s]
        /\ \A s \in Sends : pc[s] \notin {"idle", "done"} => pc'[s] = "killed"
    BY <1>11 DEF Kill
  <2>2. live' \in {0, 1} /\ lastSerial' = live'
    BY <1>11 DEF Kill
  <2>3. UNCHANGED <<journal, fence, queued, row, sent>> /\ DropsTags
    BY <1>11 DEF Kill, DropsTags
  <2>4. Halted
    BY <2>1 DEF Halted
  <2>5. live' <= lastSerial'
    BY <2>2
  <2> QED
    BY <1>3, <2>3, <2>4, <2>5, Zenon DEF EnvironmentPart
<1> QED
  BY <1>4, <1>5, <1>6, <1>7, <1>8, <1>9, <1>10, <1>11, Zenon DEF CancelStep, DeletionStep

\* No later session and no later incarnation makes the fence of a running
\* send live again.
LEMMA NoReturn ==
    ASSUME SendInv, AuthorityInv, EnvironmentPart, NEW s \in Sends, Running(s)', FenceLive(s)'
    PROVE  Running(s) /\ (fence[s].session = 0 \/ FenceLive(s))
<1>1. /\ live \in Nat /\ lastSerial \in Nat /\ epoch \in Nat
      /\ fence[s].session \in Nat /\ fence[s].epoch \in Nat
  BY DEF SendInv, Shape
<1>2. Advanced /\ Running(s)
  BY Zenon DEF EnvironmentPart, Advanced, Halted, Running
<1>3. fence[s].session <= lastSerial /\ fence[s].epoch <= epoch
  BY <1>2 DEF AuthorityInv, NeverAhead
<1>4. live' = fence[s].session /\ epoch' = fence[s].epoch
  BY DEF EnvironmentPart, FenceLive
<1>5. epoch <= epoch' /\ (live' \in {0, live} \/ live' > lastSerial)
  BY <1>2 DEF Advanced
<1>6. epoch = fence[s].epoch
  BY <1>1, <1>3, <1>4, <1>5
<1>7. live = fence[s].session \/ fence[s].session = 0
  BY <1>1, <1>3, <1>4, <1>5
<1> QED
  BY <1>2, <1>6, <1>7 DEF FenceLive

\* So the rest of the wallet keeps AuthorityInv.
LEMMA EnvironmentKeepsAuthority ==
    ASSUME SendInv, AuthorityInv, EnvironmentPart, epoch' \in Nat /\ lastSerial' \in Nat
    PROVE  AuthorityInv'
<1>c. UNCHANGED <<fence, queued, row, sent>> /\ DropsTags /\ CancelsDead
  BY DEF EnvironmentPart
<1>r. ASSUME NEW s \in Sends, Running(s)' PROVE Running(s) /\ Advanced
  BY <1>r, Zenon DEF EnvironmentPart, Halted, Advanced, Running
<1>1. NeverAhead'
  <2>1. /\ lastSerial \in Nat /\ epoch \in Nat
        /\ \A s \in Sends : fence[s].session \in Nat /\ fence[s].epoch \in Nat
    BY DEF SendInv, Shape
  <2>2. \A s \in Sends : pc'[s] \in Unauthorised => fence[s].session = 0
    BY DEF EnvironmentPart, Advanced, Halted, AuthorityInv, NeverAhead, Unauthorised
  <2>3. ASSUME NEW s \in Sends, Running(s)' PROVE fence[s].session <= lastSerial' /\ fence[s].epoch <= epoch'
    <3>1. Running(s) /\ lastSerial <= lastSerial' /\ epoch <= epoch'
      BY <1>r, <2>3 DEF Advanced
    <3> QED
      BY <2>1, <3>1 DEF AuthorityInv, NeverAhead
  <2> QED
    BY <1>c, <2>2, <2>3 DEF EnvironmentPart, NeverAhead
<1>2. OwnTags'
  BY <1>c DEF DropsTags, AuthorityInv, OwnTags
<1>3. Spared'
  <2> SUFFICES ASSUME NEW s \in Sends, Running(s)', (fence[s].session = 0 \/ FenceLive(s))',
                      NEW r \in Rows, r \in {queued[s], row[s]}, journal'[r].stage = "cancelled"
               PROVE  r \in asked'
    BY <1>c, RowsAssumption DEF Spared, SparedRow, Stage, SendInv, Shape
  <2>1. Running(s) /\ asked \subseteq asked'
    BY <1>r DEF Advanced
  <2>2. fence[s].session = 0 \/ FenceLive(s)
    BY <1>c, NoReturn, Zenon
  <2>3. controllers[r] \in {0, live}
    BY <2>2, Zenon DEF AuthorityInv, OwnTags, FenceLive
  <2>4. journal[r].stage = "cancelled" \/ r \in asked
    BY <1>c, <2>3, Zenon DEF CancelsDead
  <2> QED
    BY <2>1, <2>2, <2>4, RowsAssumption, Zenon DEF AuthorityInv, Spared, SparedRow, Stage
<1> QED
  BY <1>1, <1>2, <1>3 DEF AuthorityInv

\* AuthorityInv holds in every state of every run of the pipeline.
THEOREM AuthorityInvariant == Spec => []AuthorityInv
<1>1. Init => AuthorityInv
  <2> SUFFICES ASSUME Init PROVE AuthorityInv
    OBVIOUS
  <2>1. NeverAhead /\ OwnTags
    BY DEF Init, NeverAhead, OwnTags, Running
  <2>2. Spared
    BY DEF Init, Spared, Running
  <2> QED
    BY <2>1, <2>2 DEF AuthorityInv
<1>2. SendInv /\ SendInv' /\ FenceInv /\ AuthorityInv /\ [Next]_vars => AuthorityInv'
  <2> SUFFICES ASSUME SendInv, SendInv', FenceInv, AuthorityInv, [Next]_vars PROVE AuthorityInv'
    OBVIOUS
  <2>1. ASSUME NEW s \in Sends, Request(s) \/ SendStep(s) PROVE AuthorityInv'
    BY <2>1, StepFootprint, StepAuthority, SendKeepsAuthority
  <2>2. CASE UNCHANGED vars
    BY <2>2, Zenon DEF vars, sessionVars, laneVars, cancelVars, sendVars, AuthorityInv, NeverAhead,
       OwnTags,
       Spared, SparedRow, Running, FenceLive, Stage
  <2>3. epoch' \in Nat /\ lastSerial' \in Nat
    BY DEF SendInv, Shape
  <2> QED
    BY <2>1, <2>2, <2>3, EnvironmentAuthority, EnvironmentKeepsAuthority DEF Next
<1> QED
  BY <1>1, <1>2, SendInvariant, FenceInvariant, PTL DEF Spec

\* As long as the session that authorised a send lives, its rows are cancelled
\* only when the user asked: a sweep for an ended session spares the jobs of
\* the session after it, also those registered while it is under way
\* (abandonDeadSessions against registerInFlight).
THEOREM FenceLiveJobsKept == Spec => []LiveJobsKept
<1>1. AuthorityInv => LiveJobsKept
  BY DEF AuthorityInv, Spared, SparedRow, LiveJobsKept
<1> QED
  BY <1>1, AuthorityInvariant, PTL

\* A send that ended unsent, or whose authority ended before its broadcast,
\* never reaches the network, whatever is unlocked, imported or restarted
\* later (assertLive before node.sendTx, the fence's serial and epoch).
THEOREM FenceLapsedStaysUnsent == Spec => LapsedStaysUnsent
<1>1. SendInv /\ FenceInv /\ AuthorityInv /\ [Next]_vars => [\A s \in Sends : Lapsed(s) => Lapsed(s)']_vars
  <2> SUFFICES ASSUME SendInv, FenceInv, AuthorityInv, Next, NEW s \in Sends, Lapsed(s) PROVE Lapsed(s)'
    OBVIOUS
  <2>1. ASSUME NEW t \in Sends, Request(t) \/ SendStep(t) PROVE Lapsed(s)'
    <3>1. Footprint(t) /\ AuthorityPart(t)
      BY <2>1, StepFootprint, StepAuthority
    <3>2. CASE s = t
      <4>1. pc[s] \notin Unauthorised /\ Running(s)
        BY <3>1, <3>2, Zenon DEF AuthorityInv, NeverAhead, Lapsed, AuthorityPart, Unauthorised, Running
      <4> QED
        BY <3>1, <3>2, <4>1, Zenon DEF AuthorityPart, Footprint, Lapsed, FenceLive
    <3>3. CASE s # t
      BY <3>1, <3>3, Zenon DEF AuthorityPart, Footprint, PcPart, Lapsed, FenceLive, Running
    <3> QED
      BY <3>2, <3>3
  <2>2. CASE EnvironmentPart
    <3>1. Running(s)' /\ FenceLive(s)' => Running(s) /\ FenceLive(s)
      BY <2>2, NoReturn DEF Lapsed
    <3> QED
      BY <2>2, <3>1, Zenon DEF EnvironmentPart, Lapsed
  <2> QED
    BY <2>1, <2>2, EnvironmentAuthority DEF Next
<1> QED
  BY <1>1, SendInvariant, FenceInvariant, AuthorityInvariant, PTL DEF Spec, LapsedStaysUnsent
=============================================================================
