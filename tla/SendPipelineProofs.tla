------------------------- MODULE SendPipelineProofs -------------------------
(***************************************************************************)
(* What is sent can be found: its row carries the hash, for any number of  *)
(* sends, sessions, deletions, deaths and storage faults.                  *)
(*                                                                         *)
(* The argument: a row is sound when it is gone, or carries a hash in a    *)
(* stage from which no edge leads to cancelled.  No journal write spoils a *)
(* sound row; the commit of a send makes its row sound before the          *)
(* broadcast; and no other send, and no later step of the same one, writes *)
(* a new row over it.                                                      *)
(***************************************************************************)
EXTENDS SendPipeline, TLAPS

SoundRow(r) ==
    \/ journal[r].stage = "absent"
    \/ journal[r].hash /\ journal[r].stage \in {"submitting", "succeeded", "failed"}

Committed == {"send", "broadcast"}
Broadcasted == {"answer", "record", "succeed", "failing", "cleanup", "finish",
                "settling", "closing", "done", "killed"}

\* The part of TypeOK that the argument needs.
Shape ==
    /\ journal \in [Rows -> Row]
    /\ life \in Nat /\ epoch \in Nat
    /\ deletion = "begun" => epoch > 0
    /\ pc = [s \in Sends |-> pc[s]]
    /\ fence \in [Sends -> [session : Nat, epoch : Nat]]
    /\ live \in Nat /\ lastSerial \in Nat
    /\ queued \in [Sends -> Rows \cup {NoRow}]
    /\ row \in [Sends -> Rows \cup {NoRow}]
    /\ sent \subseteq Sends

OwnRows ==
    \A s \in Sends :
        /\ queued[s] \in {NoRow, QueuedRow(s)}
        /\ row[s] \in {NoRow, QueuedRow(s), FreshRow(s)}
        /\ pc[s] = "filing" => s \in Dapps

\* The inductive invariant: what is committed to be sent, or may have been,
\* has a sound row of its own and is past every step that files one.
SendInv ==
    /\ Shape /\ OwnRows
    /\ \A s \in sent : pc[s] \in Broadcasted
    /\ \A s \in Sends : s \in sent \/ pc[s] \in Committed => row[s] \in Rows /\ SoundRow(row[s])

-----------------------------------------------------------------------------
(* The rows of a send are its own.                                         *)

\* Row ids are never shared by two sends, nor by the queued and the fresh row
\* of one (the journal's random ids).
LEMMA RowIds ==
    /\ \A s \in Sends : FreshRow(s) \in Rows
    /\ \A s \in Dapps : QueuedRow(s) \in Rows
    /\ \A s, t \in Sends : QueuedRow(s) # FreshRow(t)
    /\ \A s, t \in Sends : QueuedRow(s) = QueuedRow(t) => s = t
    /\ \A s, t \in Sends : FreshRow(s) = FreshRow(t) => s = t
    /\ Dapps \subseteq Sends
    /\ NoRow \notin Rows
BY SendAssumption, RowsAssumption DEF FreshRow, QueuedRow, Sends

\* An accepted transition keeps the journal well-formed and every sound row
\* sound (transitionOperation with fsm.ts's edges and failedFrom's hash).
LEMMA WriteSound ==
    ASSUME journal \in [Rows -> Row], NEW r \in Rows, NEW to \in Active \cup Terminal,
           Legal(r, to), Write(r, to)
    PROVE  /\ journal' \in [Rows -> Row]
           /\ \A x \in Rows : SoundRow(x) => SoundRow(x)'
<1>1. r # NoRow
  BY RowsAssumption
<1>2. journal[r] \in Row /\ NextRow(journal[r], to) \in Row
  BY Zenon DEF NextRow, Row, Active, Terminal
<1>3. journal' \in [Rows -> Row]
  BY <1>2 DEF Write
<1>4. SoundRow(r) => SoundRow(r)'
  <2>1. journal'[r] = NextRow(journal[r], to)
    BY DEF Write
  <2>2. /\ NextRow(journal[r], to).stage = to
        /\ NextRow(journal[r], to).hash = (\/ to \in {"submitting", "succeeded"}
                                           \/ to = "failed" /\ journal[r].stage = "submitting" /\ journal[r].hash)
    BY <1>2 DEF NextRow, Row
  <2>3. CanTransition(journal[r].stage, to) /\ journal[r].stage # "absent"
    BY <1>1 DEF Legal, Present, Stage
  <2> QED
    BY <2>1, <2>2, <2>3 DEF SoundRow, CanTransition, Active, PreSubmit
<1>5. ASSUME NEW x \in Rows, x # r PROVE SoundRow(x) => SoundRow(x)'
  BY <1>5 DEF Write, SoundRow
<1> QED
  BY <1>3, <1>4, <1>5

\* The same for a write whose refusal is only logged, and for a guarded one.
LEMMA MarkSound ==
    ASSUME journal \in [Rows -> Row], NEW r \in Rows \cup {NoRow}, NEW to \in Active \cup Terminal,
           \/ Mark(r, to)
           \/ \E allowed \in SUBSET (Active \cup Terminal) : TransitionIfStage(r, allowed, to)
           \/ UNCHANGED journal
    PROVE  /\ journal' \in [Rows -> Row]
           /\ \A x \in Rows : SoundRow(x) => SoundRow(x)'
<1>1. CASE UNCHANGED journal
  BY <1>1 DEF SoundRow
<1>2. CASE Legal(r, to) /\ Write(r, to)
  <2>1. r \in Rows
    BY <1>2 DEF Legal, Present, Stage
  <2> QED
    BY <1>2, <2>1, WriteSound
<1> QED
  BY <1>1, <1>2 DEF Mark, TransitionIfStage
-----------------------------------------------------------------------------
(* Steps of one send.                                                      *)

JournalKeeps ==
    /\ journal' \in [Rows -> Row]
    /\ \A x \in Rows : SoundRow(x) => SoundRow(x)'

\* A step of s that neither commits it nor takes it back to where rows are filed.
Advances(s) ==
    /\ pc' = [t \in Sends |-> pc'[t]] /\ \A t \in Sends \ {s} : pc'[t] = pc[t]
    /\ pc[s] \in Broadcasted => pc'[s] \in Broadcasted
    /\ pc'[s] \in Committed => pc[s] \in Committed
    /\ pc'[s] = "filing" => s \in Dapps

\* Such a step keeps the invariant when the journal keeps its sound rows.
LEMMA QuietStep ==
    ASSUME SendInv, NEW s \in Sends, Advances(s), JournalKeeps,
           fence' \in [Sends -> [session : Nat, epoch : Nat]],
           UNCHANGED <<life, sessionVars, queued, row, sent>>
    PROVE  SendInv'
<1>1. UNCHANGED <<life, epoch, deletion, live, lastSerial, queued, row, sent>>
  BY DEF sessionVars
<1>2. Shape'
  BY <1>1 DEF SendInv, Shape, JournalKeeps, Advances
<1>3. OwnRows'
  BY <1>1 DEF SendInv, OwnRows, Advances
<1>4. \A t \in sent' : pc'[t] \in Broadcasted
  BY <1>1, Zenon DEF SendInv, Shape, Advances
<1>5. ASSUME NEW t \in Sends, t \in sent' \/ pc'[t] \in Committed
      PROVE  row'[t] \in Rows /\ SoundRow(row[t])'
  <2>1. t \in sent \/ pc[t] \in Committed
    BY <1>1, <1>5 DEF Advances
  <2>2. row[t] \in Rows /\ SoundRow(row[t]) /\ row'[t] = row[t]
    BY <2>1, <1>1 DEF SendInv
  <2> QED
    BY <2>2 DEF JournalKeeps, SoundRow
<1> QED
  BY <1>2, <1>3, <1>4, <1>5 DEF SendInv, SoundRow

\* A step of s that files or adopts its row, before it is committed.
LEMMA FilingStep ==
    ASSUME SendInv, NEW s \in Sends, Advances(s),
           pc[s] \notin Broadcasted, pc'[s] \notin Committed,
           journal' \in [Rows -> Row],
           \A x \in Rows \ {QueuedRow(s), FreshRow(s)} : journal'[x] = journal[x],
           NEW q \in {NoRow, QueuedRow(s)}, q \in Rows \cup {NoRow},
           NEW w \in {NoRow, QueuedRow(s), FreshRow(s)}, w \in Rows \cup {NoRow},
           queued' = [queued EXCEPT ![s] = q], row' = [row EXCEPT ![s] = w],
           UNCHANGED <<life, sessionVars, fence, sent>>
    PROVE  SendInv'
<1>1. UNCHANGED <<life, epoch, deletion, live, lastSerial, fence, sent>>
  BY DEF sessionVars
<1>2. Shape'
  BY <1>1 DEF SendInv, Shape, Advances
<1>3. OwnRows'
  BY <1>1 DEF SendInv, Shape, OwnRows, Advances
<1>4. s \notin sent /\ \A t \in sent' : pc'[t] \in Broadcasted
  BY <1>1, Zenon DEF SendInv, Shape, Advances
<1>5. ASSUME NEW t \in Sends, t \in sent' \/ pc'[t] \in Committed
      PROVE  row'[t] \in Rows /\ SoundRow(row[t])'
  <2>1. t # s /\ (t \in sent \/ pc[t] \in Committed)
    BY <1>1, <1>4, <1>5 DEF Advances
  <2>2. row[t] \in Rows /\ SoundRow(row[t]) /\ row'[t] = row[t]
    BY <2>1 DEF SendInv, Shape
  <2>3. row[t] \notin {QueuedRow(s), FreshRow(s)}
    BY <2>1, <2>2, RowIds DEF SendInv, OwnRows
  <2> QED
    BY <2>2, <2>3 DEF SoundRow
<1> QED
  BY <1>2, <1>3, <1>4, <1>5 DEF SendInv, SoundRow
-----------------------------------------------------------------------------
(* Every step keeps the invariant.                                         *)

\* A request and the steps up to the lane.
LEMMA BeforeLaneKeeps ==
    ASSUME SendInv, NEW s \in Sends, Request(s) \/ BeforeLane(s)
    PROVE  SendInv'
<1> USE DEF sendVars
<1>f. [session |-> live, epoch |-> epoch] \in [session : Nat, epoch : Nat] /\ fence[s] \in [session : Nat, epoch : Nat]
  BY DEF SendInv, Shape
<1>p. pc = [t \in Sends |-> pc[t]]
  BY DEF SendInv, Shape
<1>j. UNCHANGED journal => JournalKeeps
  BY DEF SendInv, Shape, JournalKeeps, SoundRow
<1>1. CASE RequestTransfer(s)
  <2>1. JournalKeeps
    BY <1>1, <1>j DEF RequestTransfer
  <2>2. Advances(s)
    BY <1>1, <1>p DEF RequestTransfer, Advances, Goto, Broadcasted, Committed
  <2>3. fence' \in [Sends -> [session : Nat, epoch : Nat]]
    BY <1>1, <1>f DEF RequestTransfer, Captured, SendInv, Shape
  <2> QED
    BY <1>1, <2>1, <2>2, <2>3, QuietStep DEF RequestTransfer
<1>2. CASE Arrive(s)
  <2>1. JournalKeeps
    BY <1>2, <1>j DEF Arrive
  <2>2. Advances(s)
    BY <1>2, <1>p DEF Arrive, Advances, Goto, Broadcasted, Committed
  <2>3. fence' \in [Sends -> [session : Nat, epoch : Nat]]
    BY <1>2, <1>f, Zenon DEF Arrive, Captured, SendInv, Shape
  <2> QED
    BY <1>2, <2>1, <2>2, <2>3, QuietStep DEF Arrive
<1>3. CASE CreateRefused(s)
  <2>1. JournalKeeps
    BY <1>3, <1>j DEF CreateRefused
  <2>2. Advances(s)
    BY <1>3, <1>p DEF CreateRefused, Advances, Goto, Broadcasted, Committed
  <2>3. fence' \in [Sends -> [session : Nat, epoch : Nat]]
    BY <1>3, <1>f DEF CreateRefused, SendInv, Shape
  <2> QED
    BY <1>3, <2>1, <2>2, <2>3, QuietStep DEF CreateRefused
<1>4. CASE Dispatch(s)
  <2>1. JournalKeeps
    BY <1>4, <1>j DEF Dispatch
  <2>2. Advances(s)
    BY <1>4, <1>p DEF Dispatch, Advances, Goto, Broadcasted, Committed
  <2>3. fence' \in [Sends -> [session : Nat, epoch : Nat]]
    BY <1>4, <1>f DEF Dispatch, SendInv, Shape
  <2> QED
    BY <1>4, <2>1, <2>2, <2>3, QuietStep DEF Dispatch
<1>5. CASE Approve(s)
  <2>1. JournalKeeps
    BY <1>5, <1>j DEF Approve
  <2>2. Advances(s)
    BY <1>5, <1>p DEF Approve, Advances, Goto, Broadcasted, Committed
  <2>3. fence' \in [Sends -> [session : Nat, epoch : Nat]]
    BY <1>5, <1>f DEF Approve, SendInv, Shape
  <2> QED
    BY <1>5, <2>1, <2>2, <2>3, QuietStep DEF Approve
<1>6. CASE ClosePopup(s)
  <2>1. JournalKeeps
    BY <1>6, <1>j DEF ClosePopup
  <2>2. Advances(s)
    BY <1>6, <1>p DEF ClosePopup, Advances, Goto, Broadcasted, Committed
  <2>3. fence' \in [Sends -> [session : Nat, epoch : Nat]]
    BY <1>6, <1>f DEF ClosePopup, SendInv, Shape
  <2> QED
    BY <1>6, <2>1, <2>2, <2>3, QuietStep DEF ClosePopup
<1>7. CASE Authorise(s)
  <2>1. JournalKeeps
    BY <1>7, <1>j DEF Authorise
  <2>2. Advances(s)
    BY <1>7, <1>p DEF Authorise, Advances, Goto, Broadcasted, Committed
  <2>3. fence' \in [Sends -> [session : Nat, epoch : Nat]]
    BY <1>7, <1>f DEF Authorise, Captured, SendInv, Shape
  <2> QED
    BY <1>7, <2>1, <2>2, <2>3, QuietStep DEF Authorise
<1>8. CASE AuthoriseSilently(s)
  <2>1. JournalKeeps
    BY <1>8, <1>j DEF AuthoriseSilently
  <2>2. Advances(s)
    BY <1>8, <1>p DEF AuthoriseSilently, Advances, Goto, Broadcasted, Committed
  <2>3. fence' \in [Sends -> [session : Nat, epoch : Nat]]
    BY <1>8, <1>f DEF AuthoriseSilently, Captured, SendInv, Shape
  <2> QED
    BY <1>8, <2>1, <2>2, <2>3, QuietStep DEF AuthoriseSilently
<1>9. CASE FastForward(s)
  <2>1. JournalKeeps
    <3>1. queued[s] \in Rows \cup {NoRow} /\ "pending" \in Active \cup Terminal
      BY DEF SendInv, Shape, Active, Terminal
    <3> QED
      BY <1>9, <3>1, MarkSound, Zenon DEF FastForward, MarkOrLose, SendInv, Shape, JournalKeeps
  <2>2. Advances(s)
    BY <1>9, <1>p DEF FastForward, Advances, Goto, Broadcasted, Committed
  <2>3. fence' \in [Sends -> [session : Nat, epoch : Nat]]
    BY <1>9, <1>f DEF FastForward, SendInv, Shape
  <2> QED
    BY <1>9, <2>1, <2>2, <2>3, QuietStep DEF FastForward
<1>10. CASE RefuseTerms(s)
  <2>1. JournalKeeps
    <3>1. queued[s] \in Rows \cup {NoRow} /\ "failed" \in Active \cup Terminal
      BY DEF SendInv, Shape, Active, Terminal
    <3> QED
      BY <1>10, <3>1, MarkSound DEF RefuseTerms, TransitionOrLose, Active, Terminal, SendInv,
         Shape, JournalKeeps
  <2>2. Advances(s)
    BY <1>10, <1>p DEF RefuseTerms, Advances, Goto, Broadcasted, Committed
  <2>3. fence' \in [Sends -> [session : Nat, epoch : Nat]]
    BY <1>10, <1>f DEF RefuseTerms, SendInv, Shape
  <2> QED
    BY <1>10, <2>1, <2>2, <2>3, QuietStep DEF RefuseTerms
<1>11. CASE CreateTransfer(s)
  <2>1. [stage |-> "pending", hash |-> FALSE, epoch |-> fence[s].epoch, life |-> life] \in Row
    BY <1>f DEF SendInv, Shape, Row, Active
  <2>2. journal' \in [Rows -> Row] /\ \A x \in Rows \ {QueuedRow(s), FreshRow(s)} : journal'[x] = journal[x]
    BY <1>11, <2>1, Zenon DEF CreateTransfer, Create, SendInv, Shape
  <2>3. row' = [row EXCEPT ![s] = FreshRow(s)] /\ queued' = [queued EXCEPT ![s] = queued[s]]
    BY <1>11 DEF CreateTransfer, SendInv, Shape
  <2>4. queued[s] \in {NoRow, QueuedRow(s)} /\ queued[s] \in Rows \cup {NoRow} /\ FreshRow(s) \in Rows
    BY RowIds DEF SendInv, Shape, OwnRows
  <2>5. Advances(s) /\ pc[s] \notin Broadcasted /\ pc'[s] \notin Committed
    BY <1>11, <1>p DEF CreateTransfer, Advances, Goto, Broadcasted, Committed
  <2> QED
    BY <1>11, <2>2, <2>3, <2>4, <2>5, FilingStep, Zenon DEF CreateTransfer
<1>12. CASE FileQueued(s)
  <2>1. [stage |-> "queued", hash |-> FALSE, epoch |-> fence[s].epoch, life |-> life] \in Row
    BY <1>f DEF SendInv, Shape, Row, Active
  <2>2. journal' \in [Rows -> Row] /\ \A x \in Rows \ {QueuedRow(s), FreshRow(s)} : journal'[x] = journal[x]
    <3>1. journal \in [Rows -> Row]
      BY DEF SendInv, Shape
    <3>2. CASE Create(QueuedRow(s), "queued", fence[s].epoch)
      BY <2>1, <3>1, <3>2, Zenon DEF Create
    <3>3. CASE UNCHANGED journal
      BY <3>1, <3>3
    <3> QED
      BY <1>12, <3>2, <3>3 DEF FileQueued
  <2>3. QueuedRow(s) \in Rows /\ queued[s] \in {NoRow, QueuedRow(s)} /\ queued[s] \in Rows \cup {NoRow}
    BY <1>12, RowIds DEF FileQueued, SendInv, Shape, OwnRows
  <2>4. PICK q \in {queued[s], QueuedRow(s)} : queued' = [queued EXCEPT ![s] = q]
    BY <1>12 DEF FileQueued, SendInv, Shape
  <2>5. row' = [row EXCEPT ![s] = row[s]] /\ row[s] \in {NoRow, QueuedRow(s), FreshRow(s)} /\ row[s] \in Rows \cup {NoRow}
    BY <1>12 DEF FileQueued, SendInv, Shape, OwnRows
  <2>6. Advances(s) /\ pc[s] \notin Broadcasted /\ pc'[s] \notin Committed
    BY <1>12, <1>p DEF FileQueued, Advances, Goto, Broadcasted, Committed
  <2>7. q \in {NoRow, QueuedRow(s)} /\ q \in Rows \cup {NoRow}
    BY <2>3
  <2> QED
    BY <1>12, <2>2, <2>3, <2>4, <2>5, <2>6, <2>7, FilingStep, Zenon DEF FileQueued
<1> QED
  BY <1>1, <1>2, <1>3, <1>4, <1>5, <1>6, <1>7, <1>8, <1>9, <1>10, <1>11, <1>12 DEF Request,
     BeforeLane

\* The lane and the claim.
LEMMA InLaneKeeps ==
    ASSUME SendInv, NEW s \in Sends, InLane(s)
    PROVE  SendInv'
<1> USE DEF sendVars
<1>f. fence \in [Sends -> [session : Nat, epoch : Nat]] /\ fence[s] \in [session : Nat, epoch : Nat]
  BY DEF SendInv, Shape
<1>p. pc = [t \in Sends |-> pc[t]]
  BY DEF SendInv, Shape
<1>j. UNCHANGED journal => JournalKeeps
  BY DEF SendInv, Shape, JournalKeeps, SoundRow
<1>q. queued[s] \in {NoRow, QueuedRow(s)} /\ queued[s] \in Rows \cup {NoRow}
  BY DEF SendInv, Shape, OwnRows
<1>1. CASE EnterLane(s)
  <2>1. JournalKeeps
    BY <1>1, <1>j DEF EnterLane
  <2>2. Advances(s)
    BY <1>1, <1>p DEF EnterLane, Advances, Goto, Broadcasted, Committed
  <2>3. fence' \in [Sends -> [session : Nat, epoch : Nat]]
    BY <1>1, <1>f DEF EnterLane, SendInv, Shape
  <2> QED
    BY <1>1, <2>1, <2>2, <2>3, QuietStep DEF EnterLane
<1>2. CASE AssertFence(s)
  <2>1. JournalKeeps
    BY <1>2, <1>j DEF AssertFence
  <2>2. Advances(s)
    BY <1>2, <1>p DEF AssertFence, Advances, Goto, Broadcasted, Committed
  <2>3. fence' \in [Sends -> [session : Nat, epoch : Nat]]
    BY <1>2, <1>f DEF AssertFence, SendInv, Shape
  <2> QED
    BY <1>2, <2>1, <2>2, <2>3, QuietStep DEF AssertFence
<1>3. CASE Refused(s)
  <2>1. JournalKeeps
    <3>1. queued[s] \in Rows \cup {NoRow} /\ "failed" \in Active \cup Terminal
      BY DEF SendInv, Shape, Active, Terminal
    <3> QED
      BY <1>3, <3>1, MarkSound DEF Refused, MarkOrLose, SendInv, Shape, JournalKeeps
  <2>2. Advances(s)
    BY <1>3, <1>p DEF Refused, Advances, Goto, Broadcasted, Committed
  <2>3. fence' \in [Sends -> [session : Nat, epoch : Nat]]
    BY <1>3, <1>f DEF Refused, SendInv, Shape
  <2> QED
    BY <1>3, <2>1, <2>2, <2>3, QuietStep DEF Refused
<1>4. CASE Enqueue(s)
  <2>1. JournalKeeps
    BY <1>4, <1>j DEF Enqueue
  <2>2. Advances(s)
    BY <1>4, <1>p DEF Enqueue, Advances, Goto, Broadcasted, Committed
  <2>3. fence' \in [Sends -> [session : Nat, epoch : Nat]]
    BY <1>4, <1>f DEF Enqueue, SendInv, Shape
  <2> QED
    BY <1>4, <2>1, <2>2, <2>3, QuietStep DEF Enqueue
<1>5. CASE Granted(s)
  <2>1. JournalKeeps
    BY <1>5, <1>j DEF Granted
  <2>2. Advances(s)
    BY <1>5, <1>p DEF Granted, Advances, Goto, Broadcasted, Committed
  <2>3. fence' \in [Sends -> [session : Nat, epoch : Nat]]
    BY <1>5, <1>f DEF Granted, SendInv, Shape
  <2> QED
    BY <1>5, <2>1, <2>2, <2>3, QuietStep DEF Granted
<1>6. CASE AbortWait(s)
  <2>1. JournalKeeps
    BY <1>6, <1>j DEF AbortWait
  <2>2. Advances(s)
    BY <1>6, <1>p DEF AbortWait, Advances, Goto, Broadcasted, Committed
  <2>3. fence' \in [Sends -> [session : Nat, epoch : Nat]]
    BY <1>6, <1>f DEF AbortWait, SendInv, Shape
  <2> QED
    BY <1>6, <2>1, <2>2, <2>3, QuietStep DEF AbortWait
<1>7. CASE ClaimMissing(s)
  <2>1. JournalKeeps
    BY <1>7, <1>j DEF ClaimMissing
  <2>2. Advances(s)
    BY <1>7, <1>p DEF ClaimMissing, Advances, Goto, Broadcasted, Committed
  <2>3. fence' \in [Sends -> [session : Nat, epoch : Nat]]
    BY <1>7, <1>f DEF ClaimMissing, SendInv, Shape
  <2> QED
    BY <1>7, <2>1, <2>2, <2>3, QuietStep DEF ClaimMissing
<1>8. CASE ClaimLost(s)
  <2>1. JournalKeeps
    BY <1>8, <1>j DEF ClaimLost
  <2>2. Advances(s)
    BY <1>8, <1>p DEF ClaimLost, Advances, Goto, Broadcasted, Committed
  <2>3. fence' \in [Sends -> [session : Nat, epoch : Nat]]
    BY <1>8, <1>f DEF ClaimLost, SendInv, Shape
  <2> QED
    BY <1>8, <2>1, <2>2, <2>3, QuietStep DEF ClaimLost
<1>9. CASE ClaimMoved(s)
  <2>1. JournalKeeps
    BY <1>9, <1>j DEF ClaimMoved
  <2>2. Advances(s)
    BY <1>9, <1>p DEF ClaimMoved, Advances, Goto, Broadcasted, Committed
  <2>3. fence' \in [Sends -> [session : Nat, epoch : Nat]]
    BY <1>9, <1>f DEF ClaimMoved, SendInv, Shape
  <2> QED
    BY <1>9, <2>1, <2>2, <2>3, QuietStep DEF ClaimMoved
<1>10. CASE ClaimQueued(s)
  <2>1. JournalKeeps
    BY <1>10, <1>j DEF ClaimQueued
  <2>2. Advances(s)
    BY <1>10, <1>p DEF ClaimQueued, Advances, Goto, Broadcasted, Committed
  <2>3. fence' \in [Sends -> [session : Nat, epoch : Nat]]
    BY <1>10, <1>f DEF ClaimQueued, SendInv, Shape
  <2> QED
    BY <1>10, <2>1, <2>2, <2>3, QuietStep DEF ClaimQueued
<1>11. CASE RefileMissing(s)
  <2>1. JournalKeeps
    BY <1>11, <1>j DEF RefileMissing
  <2>2. Advances(s)
    BY <1>11, <1>p DEF RefileMissing, Advances, Goto, Broadcasted, Committed
  <2>3. fence' \in [Sends -> [session : Nat, epoch : Nat]]
    BY <1>11, <1>f DEF RefileMissing, SendInv, Shape
  <2> QED
    BY <1>11, <2>1, <2>2, <2>3, QuietStep DEF RefileMissing
<1>12. CASE ClaimPending(s)
  <2>1. journal' \in [Rows -> Row] /\ \A x \in Rows \ {QueuedRow(s), FreshRow(s)} : journal'[x] = journal[x]
    BY <1>12 DEF ClaimPending, SendInv, Shape
  <2>2. row' = [row EXCEPT ![s] = queued[s]] /\ queued' = [queued EXCEPT ![s] = queued[s]]
    BY <1>12 DEF ClaimPending, Adopt, SendInv, Shape
  <2>3. Advances(s) /\ pc[s] \notin Broadcasted /\ pc'[s] \notin Committed
    BY <1>12, <1>p DEF ClaimPending, Adopt, Advances, Goto, Broadcasted, Committed
  <2> QED
    BY <1>12, <1>q, <2>1, <2>2, <2>3, FilingStep, Zenon DEF ClaimPending
<1>13. CASE ClaimTransition(s)
  <2>1. CASE Legal(queued[s], "pending") /\ Write(queued[s], "pending") /\ Adopt(s)
    <3>0. queued[s] \in Rows
      BY <1>q, <2>1 DEF Legal, Present, Stage
    <3>1. journal' \in [Rows -> Row] /\ \A x \in Rows \ {QueuedRow(s), FreshRow(s)} : journal'[x] = journal[x]
      <4>1. journal' \in [Rows -> Row]
        BY <2>1, <3>0, WriteSound DEF SendInv, Shape, Active
      <4> QED
        BY <1>q, <2>1, <3>0, <4>1, RowIds DEF Write, SendInv, Shape
    <3>2. row' = [row EXCEPT ![s] = queued[s]] /\ queued' = [queued EXCEPT ![s] = queued[s]]
      BY <1>13, <2>1 DEF ClaimTransition, Adopt, SendInv, Shape
    <3>3. Advances(s) /\ pc[s] \notin Broadcasted /\ pc'[s] \notin Committed
      BY <1>13, <2>1, <1>p DEF ClaimTransition, Adopt, Advances, Goto, Broadcasted, Committed
    <3> QED
      BY <1>13, <1>q, <3>1, <3>2, <3>3, FilingStep, Zenon DEF ClaimTransition
  <2>2. CASE Goto(s, "cleanup") /\ UNCHANGED <<journal, row, controllers, sweep>>
    <3>1. JournalKeeps /\ Advances(s)
      BY <1>13, <1>j, <1>p, <2>2 DEF ClaimTransition, Advances, Goto, Broadcasted, Committed
    <3> QED
      BY <1>13, <1>f, <2>2, <3>1, QuietStep DEF ClaimTransition
  <2> QED
    BY <1>13, <2>1, <2>2 DEF ClaimTransition
<1>14. CASE CreateFresh(s)
  <2>1. [stage |-> "pending", hash |-> FALSE, epoch |-> fence[s].epoch, life |-> life] \in Row
    BY <1>f DEF SendInv, Shape, Row, Active
  <2>2. journal' \in [Rows -> Row] /\ \A x \in Rows \ {QueuedRow(s), FreshRow(s)} : journal'[x] = journal[x]
    BY <1>14, <2>1, Zenon DEF CreateFresh, Create, SendInv, Shape
  <2>3. row' = [row EXCEPT ![s] = FreshRow(s)] /\ queued' = [queued EXCEPT ![s] = queued[s]]
    BY <1>14 DEF CreateFresh, SendInv, Shape
  <2>4. queued[s] \in {NoRow, QueuedRow(s)} /\ queued[s] \in Rows \cup {NoRow} /\ FreshRow(s) \in Rows
    BY RowIds DEF SendInv, Shape, OwnRows
  <2>5. Advances(s) /\ pc[s] \notin Broadcasted /\ pc'[s] \notin Committed
    BY <1>14, <1>p DEF CreateFresh, Advances, Goto, Broadcasted, Committed
  <2> QED
    BY <1>14, <2>2, <2>3, <2>4, <2>5, FilingStep, Zenon DEF CreateFresh
<1> QED
  BY <1>1, <1>2, <1>3, <1>4, <1>5, <1>6, <1>7, <1>8, <1>9, <1>10, <1>11, <1>12, <1>13,
     <1>14 DEF InLane

\* Build, prove, send and settle; the commit is what makes the row sound.
LEMMA InSlotKeeps ==
    ASSUME SendInv, NEW s \in Sends, InSlot(s)
    PROVE  SendInv'
<1> USE DEF sendVars
<1>f. fence \in [Sends -> [session : Nat, epoch : Nat]]
  BY DEF SendInv, Shape
<1>p. pc = [t \in Sends |-> pc[t]]
  BY DEF SendInv, Shape
<1>j. UNCHANGED journal => JournalKeeps
  BY DEF SendInv, Shape, JournalKeeps, SoundRow
<1>1. CASE Simulate(s)
  <2>1. JournalKeeps
    <3>1. row[s] \in Rows \cup {NoRow} /\ "simulating" \in Active \cup Terminal
      BY DEF SendInv, Shape, Active, Terminal
    <3> QED
      BY <1>1, <3>1, MarkSound DEF Simulate, MarkOrLose, SendInv, Shape, JournalKeeps
  <2>2. Advances(s)
    BY <1>1, <1>p DEF Simulate, Advances, Goto, Broadcasted, Committed
  <2>3. fence' \in [Sends -> [session : Nat, epoch : Nat]]
    BY <1>1, <1>f DEF Simulate, SendInv, Shape
  <2> QED
    BY <1>1, <2>1, <2>2, <2>3, QuietStep DEF Simulate
<1>2. CASE Build(s)
  <2>1. JournalKeeps
    BY <1>2, <1>j DEF Build
  <2>2. Advances(s)
    BY <1>2, <1>p DEF Build, Advances, Goto, Broadcasted, Committed
  <2>3. fence' \in [Sends -> [session : Nat, epoch : Nat]]
    BY <1>2, <1>f DEF Build, SendInv, Shape
  <2> QED
    BY <1>2, <2>1, <2>2, <2>3, QuietStep DEF Build
<1>3. CASE EnterProve(s)
  <2>1. JournalKeeps
    <3>1. row[s] \in Rows \cup {NoRow} /\ "proving" \in Active \cup Terminal
      BY DEF SendInv, Shape, Active, Terminal
    <3> QED
      BY <1>3, <3>1, MarkSound DEF EnterProve, MarkOrLose, SendInv, Shape, JournalKeeps
  <2>2. Advances(s)
    BY <1>3, <1>p DEF EnterProve, Advances, Goto, Broadcasted, Committed
  <2>3. fence' \in [Sends -> [session : Nat, epoch : Nat]]
    BY <1>3, <1>f DEF EnterProve, SendInv, Shape
  <2> QED
    BY <1>3, <2>1, <2>2, <2>3, QuietStep DEF EnterProve
<1>4. CASE Prove(s)
  <2>1. JournalKeeps
    BY <1>4, <1>j DEF Prove
  <2>2. Advances(s)
    BY <1>4, <1>p DEF Prove, Advances, Goto, Broadcasted, Committed
  <2>3. fence' \in [Sends -> [session : Nat, epoch : Nat]]
    BY <1>4, <1>f DEF Prove, SendInv, Shape
  <2> QED
    BY <1>4, <2>1, <2>2, <2>3, QuietStep DEF Prove
<1>5. CASE AssertAuthorization(s)
  <2>1. JournalKeeps
    BY <1>5, <1>j DEF AssertAuthorization
  <2>2. Advances(s)
    BY <1>5, <1>p DEF AssertAuthorization, Advances, Goto, Broadcasted, Committed
  <2>3. fence' \in [Sends -> [session : Nat, epoch : Nat]]
    BY <1>5, <1>f DEF AssertAuthorization, SendInv, Shape
  <2> QED
    BY <1>5, <2>1, <2>2, <2>3, QuietStep DEF AssertAuthorization
<1>6. CASE AdmitSend(s)
  <2>1. JournalKeeps
    BY <1>6, <1>j DEF AdmitSend
  <2>2. Advances(s)
    BY <1>6, <1>p DEF AdmitSend, Advances, Goto, Broadcasted, Committed
  <2>3. fence' \in [Sends -> [session : Nat, epoch : Nat]]
    BY <1>6, <1>f DEF AdmitSend, SendInv, Shape
  <2> QED
    BY <1>6, <2>1, <2>2, <2>3, QuietStep DEF AdmitSend
<1>7. CASE Answer(s)
  <2>1. JournalKeeps
    BY <1>7, <1>j DEF Answer
  <2>2. Advances(s)
    BY <1>7, <1>p DEF Answer, Advances, Goto, Broadcasted, Committed
  <2>3. fence' \in [Sends -> [session : Nat, epoch : Nat]]
    BY <1>7, <1>f DEF Answer, SendInv, Shape
  <2> QED
    BY <1>7, <2>1, <2>2, <2>3, QuietStep DEF Answer
<1>8. CASE RecordTransaction(s)
  <2>1. JournalKeeps
    BY <1>8, <1>j DEF RecordTransaction
  <2>2. Advances(s)
    BY <1>8, <1>p DEF RecordTransaction, Advances, Goto, Broadcasted, Committed
  <2>3. fence' \in [Sends -> [session : Nat, epoch : Nat]]
    BY <1>8, <1>f DEF RecordTransaction, SendInv, Shape
  <2> QED
    BY <1>8, <2>1, <2>2, <2>3, QuietStep DEF RecordTransaction
<1>9. CASE Succeed(s)
  <2>1. JournalKeeps
    <3>1. row[s] \in Rows \cup {NoRow} /\ "succeeded" \in Active \cup Terminal
      BY DEF SendInv, Shape, Active, Terminal
    <3> QED
      BY <1>9, <3>1, MarkSound DEF Succeed, MarkOrLose, SendInv, Shape, JournalKeeps
  <2>2. Advances(s)
    BY <1>9, <1>p DEF Succeed, Advances, Goto, Broadcasted, Committed
  <2>3. fence' \in [Sends -> [session : Nat, epoch : Nat]]
    BY <1>9, <1>f DEF Succeed, SendInv, Shape
  <2> QED
    BY <1>9, <2>1, <2>2, <2>3, QuietStep DEF Succeed
<1>10. CASE Failing(s)
  <2>1. JournalKeeps
    <3>1. row[s] \in Rows \cup {NoRow} /\ "failed" \in Active \cup Terminal
      BY DEF SendInv, Shape, Active, Terminal
    <3> QED
      BY <1>10, <3>1, MarkSound, Zenon DEF Failing, MarkOrLose, SendInv, Shape, JournalKeeps
  <2>2. Advances(s)
    BY <1>10, <1>p DEF Failing, Advances, Goto, Broadcasted, Committed
  <2>3. fence' \in [Sends -> [session : Nat, epoch : Nat]]
    BY <1>10, <1>f DEF Failing, SendInv, Shape
  <2> QED
    BY <1>10, <2>1, <2>2, <2>3, QuietStep DEF Failing
<1>11. CASE Cleanup(s)
  <2>1. JournalKeeps
    BY <1>11, <1>j DEF Cleanup
  <2>2. Advances(s)
    BY <1>11, <1>p DEF Cleanup, AfterCleanup, Advances, Goto, Broadcasted, Committed
  <2>3. fence' \in [Sends -> [session : Nat, epoch : Nat]]
    BY <1>11, <1>f DEF Cleanup, SendInv, Shape
  <2> QED
    BY <1>11, <2>1, <2>2, <2>3, QuietStep DEF Cleanup
<1>12. CASE Settle(s)
  <2>1. JournalKeeps
    <3>1. queued[s] \in Rows \cup {NoRow} /\ "failed" \in Active \cup Terminal
      BY DEF SendInv, Shape, Active, Terminal
    <3> QED
      BY <1>12, <3>1, MarkSound, Zenon DEF Settle, TransitionOrLose, Active, Terminal, SendInv,
         Shape, JournalKeeps
  <2>2. Advances(s)
    BY <1>12, <1>p DEF Settle, Advances, Goto, Broadcasted, Committed
  <2>3. fence' \in [Sends -> [session : Nat, epoch : Nat]]
    BY <1>12, <1>f DEF Settle, SendInv, Shape
  <2> QED
    BY <1>12, <2>1, <2>2, <2>3, QuietStep DEF Settle
<1>13. CASE CommitSubmitting(s)
  <2>1. CASE Legal(row[s], "submitting") /\ Write(row[s], "submitting") /\ Goto(s, "send")
    <3>1. row[s] \in Rows
      BY <2>1 DEF Legal, Present, Stage, SendInv, Shape
    <3>2. JournalKeeps
      BY <2>1, <3>1, WriteSound DEF SendInv, Shape, JournalKeeps, Active
    <3>3. SoundRow(row[s])' /\ row' = row
      <4>1. journal[row[s]] \in Row /\ journal'[row[s]] = NextRow(journal[row[s]], "submitting")
        BY <2>1, <3>1 DEF Write, SendInv, Shape
      <4>2. row' = row
        BY <1>13 DEF CommitSubmitting
      <4> QED
        BY <4>1, <4>2, Zenon DEF NextRow, SoundRow, Row
    <3>4. pc' = [pc EXCEPT ![s] = "send"] /\ s \notin sent
      BY <1>13, <2>1 DEF CommitSubmitting, Goto, SendInv, Broadcasted
    <3>5. Shape' /\ OwnRows' /\ \A t \in sent' : pc'[t] \in Broadcasted
      BY <1>13, <3>2, <3>4, Zenon DEF CommitSubmitting, SendInv, Shape, OwnRows, JournalKeeps,
         sessionVars
    <3>6. ASSUME NEW t \in Sends, t # s, t \in sent' \/ pc'[t] \in Committed
          PROVE  row'[t] \in Rows /\ SoundRow(row[t])'
      <4>1. row[t] \in Rows /\ SoundRow(row[t])
        BY <1>13, <3>4, <3>6 DEF CommitSubmitting, SendInv, Shape
      <4> QED
        BY <4>1, <3>2, <3>3 DEF JournalKeeps, SoundRow
    <3> QED
      BY <3>1, <3>3, <3>5, <3>6 DEF SendInv, SoundRow
  <2>2. CASE UNCHANGED journal /\ (Goto(s, "cleanup") \/ Goto(s, "failing"))
    <3>1. JournalKeeps /\ Advances(s)
      BY <1>13, <1>j, <1>p, <2>2 DEF CommitSubmitting, Advances, Goto, Broadcasted, Committed
    <3> QED
      BY <1>13, <1>f, <3>1, QuietStep, Zenon DEF CommitSubmitting
  <2> QED
    BY <1>13, <2>1, <2>2 DEF CommitSubmitting
<1>14. CASE Broadcast(s)
  <2>1. CASE sent' \in {sent, sent \cup {s}} /\ Goto(s, "answer")
    <3>1. pc' = [pc EXCEPT ![s] = "answer"] /\ UNCHANGED <<journal, row>>
      BY <1>14, <2>1 DEF Broadcast, Goto
    <3>2. Shape' /\ OwnRows'
      BY <1>14, <2>1, <3>1 DEF Broadcast, SendInv, Shape, OwnRows, sessionVars
    <3>3. \A t \in sent' : pc'[t] \in Broadcasted
      BY <2>1, <3>1, Zenon DEF SendInv, Shape, Broadcasted
    <3>4. ASSUME NEW t \in Sends, t \in sent' \/ pc'[t] \in Committed
          PROVE  row'[t] \in Rows /\ SoundRow(row[t])'
      <4>1. t \in sent \/ pc[t] \in Committed
        BY <1>14, <2>1, <3>1, <3>4 DEF Broadcast, Committed, SendInv, Shape
      <4> QED
        BY <4>1, <3>1 DEF SendInv, SoundRow
    <3> QED
      BY <3>2, <3>3, <3>4 DEF SendInv, SoundRow
  <2>2. CASE Goto(s, "failing") /\ UNCHANGED sent
    <3>1. JournalKeeps /\ Advances(s)
      BY <1>14, <1>j, <1>p, <2>2, Zenon DEF Broadcast, Advances, Goto, Broadcasted, Committed
    <3> QED
      BY <1>14, <1>f, <2>2, <3>1, QuietStep DEF Broadcast
  <2> QED
    BY <1>14, <2>1, <2>2 DEF Broadcast
<1> QED
  BY <1>1, <1>2, <1>3, <1>4, <1>5, <1>6, <1>7, <1>8, <1>9, <1>10, <1>11, <1>12, <1>13,
     <1>14 DEF InSlot

\* Sessions, deletions, cancels, reapers and the death of the worker.
LEMMA EnvironmentKeeps ==
    ASSUME SendInv,
           \/ \E r \in Rows : CancelAsked(r) \/ CancelStep(r) \/ BootReap(r) \/ Reap(r)
           \/ Unlock \/ LockWallet \/ BeginDeletion \/ DeletionStep \/ Kill
    PROVE  SendInv'
<1> USE DEF sendVars, sessionVars
<1>a. ASSUME Shape', JournalKeeps, UNCHANGED <<queued, row, sent>>,
             \A s \in Sends : pc'[s] \in {pc[s], "killed"}
      PROVE  SendInv'
  <2>1. "killed" \in Broadcasted /\ "killed" \notin Committed
    BY DEF Broadcasted, Committed
  <2>2. OwnRows' /\ \A s \in sent' : pc'[s] \in Broadcasted
    BY <1>a, <2>1, Zenon DEF SendInv, OwnRows, Shape
  <2>3. ASSUME NEW s \in Sends, s \in sent' \/ pc'[s] \in Committed
        PROVE  row'[s] \in Rows /\ SoundRow(row[s])'
    <3>1. row[s] \in Rows /\ SoundRow(row[s])
      BY <1>a, <2>1, <2>3 DEF SendInv
    <3> QED
      BY <1>a, <3>1 DEF JournalKeeps, SoundRow
  <2> QED
    BY <1>a, <2>2, <2>3 DEF SendInv, SoundRow
<1>b. ASSUME JournalKeeps, UNCHANGED <<pc, sendVars, sent, life, live, lastSerial, epoch,
             deletion>>
      PROVE  SendInv'
  BY <1>a, <1>b, Zenon DEF SendInv, Shape, JournalKeeps
<1>c. UNCHANGED journal => JournalKeeps
  BY DEF SendInv, Shape, JournalKeeps, SoundRow
<1>1. CASE \E r \in Rows : CancelAsked(r)
  BY <1>1, <1>b, <1>c DEF CancelAsked
<1>2. CASE \E r \in Rows : CancelStep(r)
  <2>1. PICK r \in Rows : CancelStep(r)
    BY <1>2
  <2>2. PreSubmit \in SUBSET (Active \cup Terminal) /\ "cancelled" \in Active \cup Terminal
    BY DEF PreSubmit, Active, Terminal
  <2>3. CASE CancelApplied(r)
    <3>1. JournalKeeps
      BY <2>2, <2>3, MarkSound DEF CancelApplied, JournalKeeps, SendInv, Shape
    <3> QED
      BY <2>3, <3>1, <1>b DEF CancelApplied
  <2>4. CASE SweepRow(r)
    <3>1. \/ \E allowed \in SUBSET (Active \cup Terminal) : TransitionIfStage(r, allowed, "cancelled")
          \/ UNCHANGED journal
      BY <2>2, <2>4 DEF SweepRow
    <3>2. JournalKeeps
      BY <2>2, <3>1, MarkSound DEF JournalKeeps, SendInv, Shape
    <3> QED
      BY <2>4, <3>2, <1>b DEF SweepRow
  <2>5. CASE AbortCancelled(r)
    BY <2>5, <1>b, <1>c DEF AbortCancelled
  <2> QED
    BY <2>1, <2>3, <2>4, <2>5 DEF CancelStep
<1>3. CASE \E r \in Rows : BootReap(r) \/ Reap(r)
  <2>1. PICK r \in Rows : BootReap(r) \/ Reap(r)
    BY <1>3
  <2>2. JournalKeeps
    BY <2>1, MarkSound DEF BootReap, Reap, JournalKeeps, SendInv, Shape, Terminal
  <2> QED
    BY <2>1, <2>2, <1>b DEF BootReap, Reap
<1>4. CASE Unlock
  <2>1. Shape' /\ UNCHANGED <<pc, journal>>
    BY <1>4 DEF Unlock, SendInv, Shape
  <2> QED
    BY <1>4, <2>1, <1>a, <1>c DEF Unlock
<1>5. CASE LockWallet
  <2>1. Shape' /\ UNCHANGED <<pc, journal>>
    BY <1>5 DEF LockWallet, SendInv, Shape
  <2> QED
    BY <1>5, <2>1, <1>a, <1>c DEF LockWallet
<1>6. CASE BeginDeletion
  <2>1. Shape' /\ UNCHANGED <<pc, journal>>
    BY <1>6 DEF BeginDeletion, SendInv, Shape
  <2> QED
    BY <1>6, <2>1, <1>a, <1>c DEF BeginDeletion
<1>7. CASE CloseDeleted \/ ReleaseProfile
  <2>1. Shape' /\ UNCHANGED <<pc, journal>>
    BY <1>7 DEF CloseDeleted, ReleaseProfile, SendInv, Shape
  <2> QED
    BY <1>7, <2>1, <1>a, <1>c DEF CloseDeleted, ReleaseProfile
<1>8. CASE PurgeProfile
  <2>1. JournalKeeps
    <3>1. AbsentRow \in Row /\ AbsentRow.stage = "absent"
      BY DEF AbsentRow, Row
    <3> QED
      BY <1>8, <3>1, Zenon DEF PurgeProfile, PurgeRows, JournalKeeps, SoundRow
  <2>2. Shape' /\ UNCHANGED pc
    BY <1>8, <2>1 DEF PurgeProfile, JournalKeeps, SendInv, Shape
  <2> QED
    BY <1>8, <2>1, <2>2, <1>a DEF PurgeProfile
<1>9. CASE Kill
  <2>1. live' \in Nat /\ lastSerial' \in Nat
    BY <1>9 DEF Kill
  <2>2. epoch' \in Nat /\ life' \in Nat /\ deletion' # "begun"
    BY <1>9 DEF Kill, SendInv, Shape
  <2>3. pc' = [s \in Sends |-> pc'[s]] /\ \A s \in Sends : pc'[s] \in {pc[s], "killed"}
    BY <1>9 DEF Kill
  <2>4. Shape' /\ UNCHANGED journal
    BY <1>9, <2>1, <2>2, <2>3 DEF Kill, SendInv, Shape
  <2> QED
    BY <1>9, <2>3, <2>4, <1>a, <1>c DEF Kill
<1> QED
  BY <1>1, <1>2, <1>3, <1>4, <1>5, <1>6, <1>7, <1>8, <1>9 DEF DeletionStep

-----------------------------------------------------------------------------
(* The theorems.                                                           *)

\* SendInv holds in every state of every run of the pipeline.
THEOREM SendInvariant == Spec => []SendInv
<1>1. Init => SendInv
  <2> SUFFICES ASSUME Init PROVE SendInv
    OBVIOUS
  <2>1. AbsentRow \in Row
    BY DEF AbsentRow, Row
  <2>2. Shape
    BY <2>1, RowIds DEF Init, Shape
  <2>3. OwnRows
    BY DEF Init, OwnRows
  <2> QED
    BY <2>2, <2>3 DEF Init, SendInv, Committed
<1>2. SendInv /\ [Next]_vars => SendInv'
  <2> SUFFICES ASSUME SendInv, [Next]_vars PROVE SendInv'
    OBVIOUS
  <2>1. ASSUME NEW s \in Sends, Request(s) \/ SendStep(s) PROVE SendInv'
    BY <2>1, BeforeLaneKeeps, InLaneKeeps, InSlotKeeps DEF SendStep
  <2>2. CASE UNCHANGED vars
    BY <2>2, Zenon DEF vars, sessionVars, sendVars, SendInv, Shape, OwnRows, SoundRow
  <2> QED
    BY <2>1, <2>2, EnvironmentKeeps DEF Next
<1> QED
  BY <1>1, <1>2, PTL DEF Spec

\* The row of a send whose transaction may be on the network carries the hash
\* as long as it exists, through failures, reaps and restarts.
THEOREM SendSentIsTraceable == Spec => []SentIsTraceable
<1>1. SendInv => SentIsTraceable
  BY RowIds DEF SendInv, Shape, SentIsTraceable, SoundRow, Present, Stage
<1> QED
  BY <1>1, SendInvariant, PTL

=============================================================================
