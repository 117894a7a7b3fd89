--------------------------- MODULE SendLaneProofs ---------------------------
(***************************************************************************)
(* The lane and the journal after a send: nothing of it stays behind, for  *)
(* any number of sends, sessions, deletions, deaths and storage faults.    *)
(*                                                                         *)
(* The argument, first part: a step of a send follows a course (Course).   *)
(* It joins the line once, from one place, and whatever way it goes on it  *)
(* is in the line until the step that leaves it; it keeps its controller   *)
(* only at places from which it still has to drop it; and it is dispatched *)
(* after every earlier message has joined the line or never will, which    *)
(* makes the order of the line the order of arrival.                       *)
(*                                                                         *)
(* Second part: every way out of the pipeline gives the rows of the send   *)
(* their last word first.  Which unfinished stages the row it was queued   *)
(* by may have is known at every place: queued before it executes, queued  *)
(* or pending up to the claim, and from there on it is the row the send    *)
(* executes under, or it is gone.  A write the journal refuses is no       *)
(* exception: a row that refuses one has been settled by somebody else,    *)
(* and a row that was cancelled never runs again.                          *)
(***************************************************************************)
EXTENDS SendFenceProofs

\* Where a send holds a place in the lane, and where it may hold a controller.
InTheLine == {"waiting", "claim", "refile", "claiming", "createFresh", "simulate", "build", "built",
              "prove", "authorisation", "commit", "send", "broadcast", "answer", "record",
              "succeed", "failing", "cleanup", "finish"}
Holding == InTheLine \cup {"fence", "enqueue"}

\* The places before the baton is passed on, and those before the dispatch.
Undispatched == {"filing", "parked"}
Unreleased == {"idle", "filing", "parked", "popup", "silent", "authorise", "forward", "execute",
               "fence", "enqueue"}

\* The line holds each send at most once, and only where it will leave it.
LineInv ==
    /\ line \in Seq(Sends)
    /\ \A i, j \in 1 .. Len(line) : line[i] = line[j] => i = j
    /\ \A i \in 1 .. Len(line) : pc[line[i]] \in InTheLine

\* A controller stands only where its send will drop it.
HeldInv == \A r \in Rows : controllers[r] # 0 => pc[Owner(r)] \in Holding

\* A message is dispatched when every earlier one has released the baton, and
\* it releases it when it stands in the line, or never will.
BatonInv ==
    /\ arrived \in Seq(Sends) /\ released \subseteq Sends
    /\ \A a, b \in 1 .. Len(arrived) : arrived[a] = arrived[b] => a = b
    /\ \A a \in 1 .. Len(arrived) : pc[arrived[a]] # "idle"
    /\ \A s \in released : pc[s] \notin Unreleased
    /\ \A a, b \in 1 .. Len(arrived) :
           a < b /\ pc[arrived[b]] \notin Undispatched => arrived[a] \in released

\* The inductive invariant of the lane, on top of SendInv and FenceInv.
LaneInv == LineInv /\ HeldInv /\ BatonInv /\ InOrder

-----------------------------------------------------------------------------
(* Sequences.                                                              *)

\* What is left of a sequence without its i-th element.
LEMMA WithoutOne ==
    ASSUME NEW S, NEW q \in Seq(S), NEW i \in 1 .. Len(q)
    PROVE  /\ Without(q, i) \in Seq(S) /\ Len(Without(q, i)) = Len(q) - 1
           /\ \A j \in 1 .. Len(q) - 1 : Without(q, i)[j] = IF j < i THEN q[j] ELSE q[j + 1]
<1> DEFINE a == SubSeq(q, 1, i - 1)
           b == SubSeq(q, i + 1, Len(q))
<1>0. Len(q) \in Nat /\ i \in Int /\ Without(q, i) = a \o b
  BY DEF Without, a, b
<1>1. a \in Seq(S) /\ Len(a) = i - 1 /\ \A j \in 1 .. i - 1 : a[j] = q[j]
  BY <1>0, SMT
<1>2. b \in Seq(S) /\ Len(b) = Len(q) - i /\ \A j \in 1 .. Len(q) - i : b[j] = q[i + j]
  BY <1>0, SMT
<1> HIDE DEF a, b
<1>3. a \in Seq(S) /\ b \in Seq(S) /\ Len(a) + Len(b) = Len(q) - 1
  BY <1>0, <1>1, <1>2
<1>4. /\ (a \o b) \in Seq(S)
      /\ Len(a \o b) = Len(a) + Len(b)
      /\ \A j \in 1 .. Len(a) + Len(b) : (a \o b)[j] = IF j <= Len(a) THEN a[j] ELSE b[j - Len(a)]
  BY <1>3, SMT
<1>5. ASSUME NEW j \in 1 .. Len(q) - 1
      PROVE  (a \o b)[j] = IF j < i THEN q[j] ELSE q[j + 1]
  <2>1. CASE j < i
    BY <1>0, <1>1, <1>3, <1>4, <2>1
  <2>2. CASE ~(j < i)
    <3>1. (a \o b)[j] = b[j - i + 1]
      BY <1>0, <1>1, <1>3, <1>4, <2>2
    <3>2. j - i + 1 \in 1 .. Len(q) - i /\ i + (j - i + 1) = j + 1
      BY <1>0, <2>2
    <3> QED
      BY <1>2, <2>2, <3>1, <3>2, Zenon
  <2> QED
    BY <2>1, <2>2, Zenon
<1> QED
  BY <1>3, <1>4, <1>5, <1>0

\* What LeaveLine leaves: each place of the new line is one of the old, in the
\* same order, and s has none.
LEMMA LineWithout ==
    ASSUME LineInv, NEW s, LeaveLine(s)
    PROVE  /\ line' \in Seq(Sends)
           /\ \A j \in 1 .. Len(line') : line'[j] # s
           /\ \E at \in [1 .. Len(line') -> 1 .. Len(line)] :
                  /\ \A j \in 1 .. Len(line') : line'[j] = line[at[j]]
                  /\ \A j, k \in 1 .. Len(line') : j < k => at[j] < at[k]
<1>0. line \in Seq(Sends) /\ Len(line) \in Nat
  BY DEF LineInv
<1>1. CASE UNCHANGED line /\ \A i \in 1 .. Len(line) : line[i] # s
  <2> DEFINE at == [j \in 1 .. Len(line) |-> j]
  <2>1. /\ at \in [1 .. Len(line') -> 1 .. Len(line)]
        /\ \A j \in 1 .. Len(line') : line'[j] = line[at[j]]
        /\ \A j, k \in 1 .. Len(line') : j < k => at[j] < at[k]
    BY <1>1
  <2> HIDE DEF at
  <2> QED
    BY <1>0, <1>1, <2>1, Zenon
<1>2. ASSUME NEW i \in 1 .. Len(line), line[i] = s, line' = Without(line, i)
      PROVE  /\ line' \in Seq(Sends)
             /\ \A j \in 1 .. Len(line') : line'[j] # s
             /\ \E at \in [1 .. Len(line') -> 1 .. Len(line)] :
                    /\ \A j \in 1 .. Len(line') : line'[j] = line[at[j]]
                    /\ \A j, k \in 1 .. Len(line') : j < k => at[j] < at[k]
  <2> DEFINE at == [j \in 1 .. Len(line') |-> IF j < i THEN j ELSE j + 1]
  <2>1. /\ Without(line, i) \in Seq(Sends) /\ Len(Without(line, i)) = Len(line) - 1
        /\ \A j \in 1 .. Len(line) - 1 : Without(line, i)[j] = IF j < i THEN line[j] ELSE line[j + 1]
    BY <1>0, WithoutOne
  <2>2. /\ line' \in Seq(Sends) /\ Len(line') = Len(line) - 1
        /\ \A j \in 1 .. Len(line') : line'[j] = IF j < i THEN line[j] ELSE line[j + 1]
    BY <1>2, <2>1
  <2>3. at \in [1 .. Len(line') -> 1 .. Len(line)]
    BY <1>0, <2>2
  <2>4. \A j \in 1 .. Len(line') : line'[j] = line[at[j]] /\ at[j] # i
    BY <1>0, <2>2
  <2>5. \A j, k \in 1 .. Len(line') : j < k => at[j] < at[k]
    BY <1>0, <2>2
  <2> HIDE DEF at
  <2>6. \A j \in 1 .. Len(line') : line'[j] # s
    BY <1>2, <2>3, <2>4 DEF LineInv
  <2> QED
    BY <2>2, <2>3, <2>4, <2>5, <2>6, Zenon
<1> QED
  BY <1>1, <1>2, Zenon DEF LeaveLine

-----------------------------------------------------------------------------
(* The course of a send through the lane.                                  *)

\* Into the line, through it, and out of it.
LinePart(s) ==
    \/ line' = line /\ (pc[s] \in InTheLine => pc'[s] \in InTheLine)
    \/ line' = Append(line, s) /\ pc[s] = "enqueue" /\ pc'[s] = "waiting"
    \/ LeaveLine(s) /\ pc[s] \in InTheLine

\* A send that leaves the places where it holds a controller has dropped it.
HeldPart(s) ==
    \/ pc'[s] \in Holding
    \/ UNCHANGED controllers /\ pc[s] \notin Holding
    \/ \A r \in Rows : r \in {queued'[s], row'[s]} => controllers'[r] = 0

\* The baton is awaited before the dispatch and passed on once, for good.
BatonPart(s) ==
    /\ pc[s] \notin Unreleased => pc'[s] \notin Unreleased
    /\ pc[s] \in Undispatched => pc'[s] \in Undispatched \/ MayDispatch(s)
    /\ \/ UNCHANGED <<arrived, released>>
       \/ UNCHANGED arrived /\ released' = released \cup {s} /\ pc'[s] \notin Unreleased
       \/ /\ arrived' = Append(arrived, s) /\ UNCHANGED released
          /\ pc[s] = "idle" /\ pc'[s] \in Undispatched

\* The course of one step.
Course(s) == LinePart(s) /\ HeldPart(s) /\ BatonPart(s) /\ UNCHANGED aborted

\* A request and the steps up to the lane.
LEMMA BeforeLaneCourse ==
    ASSUME SendInv, FenceInv, NEW s \in Sends, Request(s) \/ BeforeLane(s)
    PROVE  Course(s)
<1> USE DEF Course, LinePart, HeldPart, BatonPart, InTheLine, Holding, Unreleased, Undispatched
<1> USE DEF Goto, sendVars, laneVars, batonVars
<1>p. pc = [t \in Sends |-> pc[t]]
  BY DEF SendInv, Shape
<1>1. CASE RequestTransfer(s)
  BY <1>1, <1>p DEF RequestTransfer
<1>2. CASE Arrive(s)
  BY <1>2, <1>p DEF Arrive
<1>3. CASE CreateTransfer(s)
  BY <1>3, <1>p DEF CreateTransfer
<1>4. CASE CreateRefused(s)
  BY <1>4, <1>p DEF CreateRefused
<1>5. CASE FileQueued(s)
  BY <1>5, <1>p DEF FileQueued
<1>6. CASE Dispatch(s)
  BY <1>6, <1>p DEF Dispatch
<1>7. CASE Approve(s)
  BY <1>7, <1>p DEF Approve
<1>8. CASE ClosePopup(s)
  BY <1>8, <1>p DEF ClosePopup
<1>9. CASE Authorise(s)
  BY <1>9, <1>p DEF Authorise
<1>10. CASE AuthoriseSilently(s)
  BY <1>10, <1>p DEF AuthoriseSilently
<1>11. CASE FastForward(s)
  BY <1>11, <1>p DEF FastForward
<1>12. CASE RefuseTerms(s)
  BY <1>12, <1>p DEF RefuseTerms
<1> QED
  BY <1>1, <1>2, <1>3, <1>4, <1>5, <1>6, <1>7, <1>8, <1>9, <1>10, <1>11, <1>12,
     Zenon DEF Request, BeforeLane

\* The lane and the claim.
LEMMA InLaneCourse ==
    ASSUME SendInv, FenceInv, NEW s \in Sends, InLane(s)
    PROVE  Course(s)
<1> USE DEF Course, LinePart, HeldPart, BatonPart, InTheLine, Holding, Unreleased, Undispatched
<1> USE DEF Goto, sendVars, laneVars, batonVars
<1>p. pc = [t \in Sends |-> pc[t]]
  BY DEF SendInv, Shape
<1>1. CASE EnterLane(s)
  BY <1>1, <1>p DEF EnterLane
<1>2. CASE AssertFence(s)
  BY <1>2, <1>p, RowsAssumption DEF AssertFence, Unregister, FenceInv, FilesOnce, BeforeRow
<1>3. CASE Refused(s)
  BY <1>3, <1>p DEF Refused
<1>4. CASE Enqueue(s)
  BY <1>4, <1>p, RowsAssumption DEF Enqueue, Unregister, FenceInv, FilesOnce, BeforeRow
<1>5. CASE Granted(s)
  BY <1>5, <1>p DEF Granted
<1>6. CASE AbortWait(s)
  BY <1>6, <1>p, RowsAssumption DEF AbortWait, Unregister, FenceInv, FilesOnce, BeforeRow
<1>7. CASE ClaimMissing(s)
  BY <1>7, <1>p DEF ClaimMissing
<1>8. CASE ClaimLost(s)
  BY <1>8, <1>p DEF ClaimLost
<1>9. CASE ClaimMoved(s)
  BY <1>9, <1>p DEF ClaimMoved
<1>10. CASE ClaimQueued(s)
  BY <1>10, <1>p DEF ClaimQueued
<1>11. CASE ClaimPending(s)
  BY <1>11, <1>p DEF ClaimPending, Adopt
<1>12. CASE RefileMissing(s)
  BY <1>12, <1>p DEF RefileMissing
<1>13. CASE ClaimTransition(s)
  BY <1>13, <1>p DEF ClaimTransition, Adopt
<1>14. CASE CreateFresh(s)
  BY <1>14, <1>p DEF CreateFresh
<1> QED
  BY <1>1, <1>2, <1>3, <1>4, <1>5, <1>6, <1>7, <1>8, <1>9, <1>10, <1>11, <1>12, <1>13, <1>14,
     Zenon DEF InLane

\* Build, prove and send, and the way out.
LEMMA InSlotCourse ==
    ASSUME SendInv, FenceInv, NEW s \in Sends, InSlot(s)
    PROVE  Course(s)
<1> USE DEF Course, LinePart, HeldPart, BatonPart, InTheLine, Holding, Unreleased, Undispatched
<1> USE DEF Goto, sendVars, laneVars, batonVars
<1>p. pc = [t \in Sends |-> pc[t]]
  BY DEF SendInv, Shape
<1>1. CASE Simulate(s)
  BY <1>1, <1>p DEF Simulate
<1>2. CASE Build(s)
  BY <1>2, <1>p DEF Build
<1>3. CASE EnterProve(s)
  BY <1>3, <1>p DEF EnterProve
<1>4. CASE Prove(s)
  BY <1>4, <1>p DEF Prove
<1>5. CASE AssertAuthorization(s)
  BY <1>5, <1>p DEF AssertAuthorization
<1>6. CASE CommitSubmitting(s)
  BY <1>6, <1>p DEF CommitSubmitting
<1>7. CASE AdmitSend(s)
  BY <1>7, <1>p DEF AdmitSend
<1>8. CASE Broadcast(s)
  BY <1>8, <1>p DEF Broadcast
<1>9. CASE Answer(s)
  BY <1>9, <1>p DEF Answer
<1>10. CASE RecordTransaction(s)
  BY <1>10, <1>p DEF RecordTransaction
<1>11. CASE Succeed(s)
  BY <1>11, <1>p DEF Succeed
<1>12. CASE Failing(s)
  BY <1>12, <1>p DEF Failing
<1>13. CASE Cleanup(s)
  BY <1>13, <1>p DEF Cleanup, AfterCleanup
<1>14. CASE Settle(s)
  BY <1>14, <1>p DEF Settle
<1> QED
  BY <1>1, <1>2, <1>3, <1>4, <1>5, <1>6, <1>7, <1>8, <1>9, <1>10, <1>11, <1>12, <1>13, <1>14,
     Zenon DEF InSlot

\* Every step of a send follows the course.
LEMMA StepCourse ==
    ASSUME SendInv, FenceInv, NEW s \in Sends, Request(s) \/ SendStep(s) PROVE Course(s)
BY BeforeLaneCourse, InLaneCourse, InSlotCourse DEF SendStep

-----------------------------------------------------------------------------
(* The invariant of the lane.                                              *)

\* The owner of a row is the send that files it.
LEMMA OwnerIs ==
    /\ \A s \in Sends : Owner(QueuedRow(s)) = s /\ Owner(FreshRow(s)) = s
    /\ \A r \in Rows : Owner(r) \in Sends
BY SendAssumption DEF Owner, QueuedRow, FreshRow, Sends

\* A step of a send keeps the lane's invariant.
LEMMA SendKeepsLane ==
    ASSUME SendInv, FenceInv, FenceInv', SendInv', LaneInv, NEW s \in Sends, Footprint(s), Course(s)
    PROVE  LaneInv'
<1>0. /\ line \in Seq(Sends) /\ Len(line) \in Nat /\ arrived \in Seq(Sends) /\ Len(arrived) \in Nat
  BY DEF LaneInv, LineInv, BatonInv
<1>a. \A i \in 1 .. Len(line) : line[i] \in Sends
  BY <1>0
<1>p. pc'[s] # "idle" /\ \A t \in Sends \ {s} : pc'[t] = pc[t]
  BY DEF Footprint, PcPart
<1>1. LineInv'
  <2>1. CASE line' = line /\ (pc[s] \in InTheLine => pc'[s] \in InTheLine)
    BY <1>0, <1>p, <2>1 DEF LaneInv, LineInv
  <2>2. CASE line' = Append(line, s) /\ pc[s] = "enqueue" /\ pc'[s] = "waiting"
    <3>1. line' \in Seq(Sends) /\ Len(line') = Len(line) + 1
      BY <1>0, <2>2
    <3>2. \A i \in 1 .. Len(line') : line'[i] = IF i = Len(line) + 1 THEN s ELSE line[i]
      BY <1>0, <2>2
    <3>3. \A i \in 1 .. Len(line) : line[i] # s
      BY <2>2 DEF LaneInv, LineInv, InTheLine
    <3> QED
      BY <1>0, <1>a, <1>p, <2>2, <3>1, <3>2, <3>3 DEF LaneInv, LineInv, InTheLine
  <2>3. CASE LeaveLine(s) /\ pc[s] \in InTheLine
    <3>1. /\ line' \in Seq(Sends)
          /\ \A j \in 1 .. Len(line') : line'[j] # s
      BY <2>3, LineWithout DEF LaneInv
    <3>2. PICK at \in [1 .. Len(line') -> 1 .. Len(line)] :
                  /\ \A j \in 1 .. Len(line') : line'[j] = line[at[j]]
                  /\ \A j, k \in 1 .. Len(line') : j < k => at[j] < at[k]
      BY <2>3, LineWithout DEF LaneInv
    <3>3. \A j, k \in 1 .. Len(line') : line'[j] = line'[k] => j = k
      <4> SUFFICES ASSUME NEW j \in 1 .. Len(line'), NEW k \in 1 .. Len(line'), line'[j] = line'[k], j < k
                   PROVE  FALSE
        BY <3>1
      <4>1. at[j] = at[k]
        BY <3>2 DEF LaneInv, LineInv
      <4> QED
        BY <3>2, <4>1
    <3>4. \A j \in 1 .. Len(line') : pc'[line'[j]] \in InTheLine
      <4> SUFFICES ASSUME NEW j \in 1 .. Len(line') PROVE pc'[line'[j]] \in InTheLine
        OBVIOUS
      <4>1. line'[j] = line[at[j]] /\ at[j] \in 1 .. Len(line) /\ line'[j] # s
        BY <3>1, <3>2
      <4> QED
        BY <1>a, <1>p, <4>1 DEF LaneInv, LineInv
    <3> QED
      BY <3>1, <3>3, <3>4 DEF LineInv
  <2> QED
    BY <2>1, <2>2, <2>3 DEF Course, LinePart
<1>2. HeldInv'
  <2> SUFFICES ASSUME NEW r \in Rows, controllers'[r] # 0 PROVE pc'[Owner(r)] \in Holding
    BY DEF HeldInv
  <2>1. PICK t \in Sends : r \in {queued'[t], row'[t]}
    BY DEF FenceInv, OwnControllers
  <2>2. Owner(r) = t
    BY <2>1, OwnerIs, RowsAssumption DEF SendInv, OwnRows
  <2>3. CASE t = s
    <3>1. CASE UNCHANGED controllers /\ pc[s] \notin Holding
      BY <2>2, <2>3, <3>1 DEF LaneInv, HeldInv
    <3> QED
      BY <2>1, <2>2, <2>3, <3>1 DEF Course, HeldPart
  <2>4. CASE t # s
    <3>1. r \notin {queued'[s], row'[s]}
      BY <2>2, <2>4, OwnerIs, RowsAssumption DEF SendInv, OwnRows
    <3>2. controllers[r] # 0
      BY <3>1 DEF Footprint, ControllerPart
    <3> QED
      BY <1>p, <2>2, <2>4, <3>2 DEF LaneInv, HeldInv
  <2> QED
    BY <2>3, <2>4
<1>3. BatonInv'
  <2>a. \A a \in 1 .. Len(arrived) : arrived[a] \in Sends
    BY <1>0
  <2>b. released \subseteq Sends
    BY DEF LaneInv, BatonInv
  <2>1. \A t \in released' : pc'[t] \notin Unreleased
    BY <1>p, <2>b DEF LaneInv, BatonInv, Course, BatonPart
  <2>2. CASE arrived' = arrived
    <3>1. released \subseteq released' /\ released' \subseteq Sends
      BY <2>2, <2>b, Zenon DEF Course, BatonPart
    <3>2. ASSUME NEW a \in 1 .. Len(arrived), NEW b \in 1 .. Len(arrived), a < b,
                 pc'[arrived[b]] \notin Undispatched
          PROVE  arrived[a] \in released
      <4>1. CASE pc[arrived[b]] \notin Undispatched
        BY <3>2, <4>1 DEF LaneInv, BatonInv
      <4>2. CASE pc[arrived[b]] \in Undispatched
        <5>1. arrived[b] = s /\ MayDispatch(s)
          BY <1>p, <2>a, <3>2, <4>2 DEF Course, BatonPart
        <5>2. b - 1 \in 1 .. Len(arrived) /\ b \in 2 .. Len(arrived) /\ (a < b - 1 \/ a = b - 1)
          BY <1>0, <3>2
        <5>3. arrived[b - 1] \in released
          BY <5>1, <5>2 DEF MayDispatch
        <5>4. pc[arrived[b - 1]] \notin Undispatched
          BY <5>3 DEF LaneInv, BatonInv, Undispatched, Unreleased
        <5> QED
          BY <5>2, <5>3, <5>4 DEF LaneInv, BatonInv
      <4> QED
        BY <4>1, <4>2
    <3> QED
      BY <1>0, <1>p, <2>1, <2>2, <2>a, <3>1, <3>2, Zenon DEF LaneInv, BatonInv
  <2>3. CASE /\ arrived' = Append(arrived, s) /\ UNCHANGED released
             /\ pc[s] = "idle" /\ pc'[s] \in Undispatched
    <3>1. arrived' \in Seq(Sends) /\ Len(arrived') = Len(arrived) + 1
      BY <1>0, <2>3
    <3>2. \A a \in 1 .. Len(arrived') : arrived'[a] = IF a = Len(arrived) + 1 THEN s ELSE arrived[a]
      BY <1>0, <2>3
    <3>3. \A a \in 1 .. Len(arrived) : arrived[a] # s
      BY <2>3 DEF LaneInv, BatonInv
    <3>4. \A a, b \in 1 .. Len(arrived') : arrived'[a] = arrived'[b] => a = b
      BY <1>0, <3>1, <3>2, <3>3 DEF LaneInv, BatonInv
    <3>5. ASSUME NEW a \in 1 .. Len(arrived') PROVE pc'[arrived'[a]] # "idle"
      <4>1. CASE a = Len(arrived) + 1
        BY <2>3, <3>2, <4>1 DEF Undispatched
      <4>2. CASE a \in 1 .. Len(arrived)
        <5>1. arrived'[a] = arrived[a] /\ arrived[a] \in Sends /\ arrived[a] # s
          BY <1>0, <2>a, <3>2, <3>3, <4>2
        <5>2. pc[arrived[a]] # "idle"
          BY <4>2 DEF LaneInv, BatonInv
        <5> QED
          BY <1>p, <5>1, <5>2
      <4> QED
        BY <1>0, <3>1, <4>1, <4>2
    <3>6. \A a, b \in 1 .. Len(arrived') :
              a < b /\ pc'[arrived'[b]] \notin Undispatched => arrived'[a] \in released
      <4> SUFFICES ASSUME NEW a \in 1 .. Len(arrived'), NEW b \in 1 .. Len(arrived'), a < b,
                          pc'[arrived'[b]] \notin Undispatched
                   PROVE  arrived'[a] \in released
        OBVIOUS
      <4>1. b # Len(arrived) + 1
        BY <2>3, <3>2
      <4>2. a \in 1 .. Len(arrived) /\ b \in 1 .. Len(arrived)
        BY <1>0, <3>1, <4>1
      <4>3. arrived'[a] = arrived[a] /\ arrived'[b] = arrived[b]
        BY <1>0, <3>2, <4>2
      <4>4. pc'[arrived[b]] = pc[arrived[b]]
        BY <1>p, <2>a, <3>3, <4>2
      <4> QED
        BY <4>2, <4>3, <4>4 DEF LaneInv, BatonInv
    <3> QED
      BY <2>1, <2>3, <2>b, <3>1, <3>4, <3>5, <3>6 DEF BatonInv
  <2> QED
    BY <2>2, <2>3 DEF Course, BatonPart
<1>4. InOrder'
  <2> SUFFICES ASSUME NEW i \in 1 .. Len(line'), NEW j \in 1 .. Len(line'), i < j,
                      NEW a \in 1 .. Len(arrived'), NEW b \in 1 .. Len(arrived'),
                      line'[i] = arrived'[a], line'[j] = arrived'[b]
               PROVE  a < b
    BY DEF InOrder
  <2>0. Len(line') \in Nat /\ Len(arrived') \in Nat /\ line' \in Seq(Sends) /\ arrived' \in Seq(Sends)
    BY <1>1, <1>3 DEF LineInv, BatonInv
  <2>1. CASE line' = Append(line, s) /\ pc[s] = "enqueue" /\ pc'[s] = "waiting"
    <3>1. arrived' = arrived
      BY <2>1 DEF Course, BatonPart
    <3>a. Len(line') = Len(line) + 1 /\ \A k \in 1 .. Len(line) : line'[k] = line[k]
      BY <1>0, <2>1
    <3>2. CASE j = Len(line')
      <4>1. line'[j] = s /\ line'[i] = line[i] /\ i \in 1 .. Len(line)
        BY <1>0, <2>0, <2>1, <3>2
      <4>2. pc[line[i]] \in InTheLine /\ arrived[b] = s /\ arrived[a] = line[i]
        BY <3>1, <4>1 DEF LaneInv, LineInv
      <4>3. s \notin released /\ pc[arrived[a]] \notin Undispatched /\ arrived[a] # s
        BY <2>1, <4>2 DEF LaneInv, BatonInv, Unreleased, Undispatched, InTheLine
      <4>4. ~(b < a) /\ a # b
        BY <3>1, <4>2, <4>3 DEF LaneInv, BatonInv
      <4> QED
        BY <2>0, <4>4
    <3>3. CASE j # Len(line')
      <4>1. line'[j] = line[j] /\ line'[i] = line[i] /\ i \in 1 .. Len(line) /\ j \in 1 .. Len(line)
        BY <1>0, <3>3, <3>a
      <4> QED
        BY <3>1, <4>1 DEF LaneInv, InOrder
    <3> QED
      BY <3>2, <3>3
  <2>2. CASE line' = line
    <3>1. CASE arrived' = arrived
      BY <2>2, <3>1 DEF LaneInv, InOrder
    <3>2. CASE arrived' = Append(arrived, s) /\ pc[s] = "idle"
      <4>1. line[i] # s /\ line[j] # s
        BY <2>2, <3>2, Zenon DEF LaneInv, LineInv, InTheLine
      <4>2. /\ a \in 1 .. Len(arrived) /\ b \in 1 .. Len(arrived)
            /\ arrived'[a] = arrived[a] /\ arrived'[b] = arrived[b]
        BY <1>0, <2>0, <2>2, <3>2, <4>1
      <4> QED
        BY <2>2, <4>2 DEF LaneInv, InOrder
    <3> QED
      BY <3>1, <3>2, Zenon DEF Course, BatonPart
  <2>3. CASE LeaveLine(s) /\ pc[s] \in InTheLine
    <3>1. PICK at \in [1 .. Len(line') -> 1 .. Len(line)] :
                  /\ \A m \in 1 .. Len(line') : line'[m] = line[at[m]]
                  /\ \A m, k \in 1 .. Len(line') : m < k => at[m] < at[k]
      BY <2>3, LineWithout DEF LaneInv
    <3>2. line'[i] = line[at[i]] /\ line'[j] = line[at[j]] /\ at[i] < at[j]
      BY <3>1
    <3>3. arrived' = arrived
      BY <2>3 DEF Course, BatonPart, InTheLine
    <3> QED
      BY <3>1, <3>2, <3>3, Zenon DEF LaneInv, InOrder
  <2> QED
    BY <2>1, <2>2, <2>3 DEF Course, LinePart
<1> QED
  BY <1>1, <1>2, <1>3, <1>4 DEF LaneInv

\* Everything else leaves the line and the baton alone and at most drops
\* controllers; a death empties all three.
LEMMA EnvironmentKeepsLane ==
    ASSUME SendInv, FenceInv, LaneInv,
           \/ \E r \in Rows : CancelAsked(r) \/ CancelStep(r) \/ BootReap(r) \/ Reap(r)
           \/ Unlock \/ LockWallet \/ BeginDeletion \/ DeletionStep \/ Kill
    PROVE  LaneInv'
<1>c. controllers \in [Rows -> Nat]
  BY DEF FenceInv, OwnControllers
<1>1. ASSUME UNCHANGED <<pc, line, arrived, released>>, \A r \in Rows : controllers'[r] \in {0,
             controllers[r]}
      PROVE  LaneInv'
  <2>1. LineInv' /\ BatonInv' /\ HeldInv' /\ InOrder'
    BY <1>1 DEF LaneInv, LineInv, BatonInv, HeldInv, InOrder
  <2> QED
    BY <2>1 DEF LaneInv
<1>2. CASE \E r \in Rows : CancelAsked(r) \/ CancelApplied(r) \/ SweepRow(r) \/ BootReap(r) \/ Reap(r)
  BY <1>1, <1>2, Zenon DEF CancelAsked, CancelApplied, SweepRow, BootReap, Reap, laneVars,
     batonVars
<1>3. CASE \E r \in Rows : AbortCancelled(r)
  BY <1>1, <1>3, <1>c DEF AbortCancelled, batonVars
<1>4. CASE Unlock \/ LockWallet \/ BeginDeletion \/ CloseDeleted \/ PurgeProfile \/ ReleaseProfile
  BY <1>1, <1>4 DEF Unlock, LockWallet, BeginDeletion, CloseDeleted, PurgeProfile,
     ReleaseProfile, laneVars, batonVars
<1>5. CASE Kill
  <2>1. line' = <<>> /\ arrived' = <<>> /\ released' = {} /\ \A r \in Rows : controllers'[r] = 0
    BY <1>5 DEF Kill
  <2>2. Len(line') = 0 /\ Len(arrived') = 0 /\ line' \in Seq(Sends) /\ arrived' \in Seq(Sends)
    BY <2>1
  <2>3. LineInv' /\ HeldInv' /\ BatonInv' /\ InOrder'
    BY <2>1, <2>2 DEF LineInv, HeldInv, BatonInv, InOrder
  <2> QED
    BY <2>3 DEF LaneInv
<1> QED
  BY <1>2, <1>3, <1>4, <1>5 DEF CancelStep, DeletionStep

\* LaneInv holds in every state of every run of the pipeline.
THEOREM LaneInvariant == Spec => []LaneInv
<1>1. Init => LaneInv
  BY DEF Init, LaneInv, LineInv, HeldInv, BatonInv, InOrder
<1>2. SendInv /\ SendInv' /\ FenceInv /\ FenceInv' /\ LaneInv /\ [Next]_vars => LaneInv'
  <2> SUFFICES ASSUME SendInv, SendInv', FenceInv, FenceInv', LaneInv, [Next]_vars PROVE LaneInv'
    OBVIOUS
  <2>1. ASSUME NEW s \in Sends, Request(s) \/ SendStep(s) PROVE LaneInv'
    BY <2>1, StepFootprint, StepCourse, SendKeepsLane
  <2>2. CASE UNCHANGED vars
    <3>1. UNCHANGED <<pc, line, arrived, released, controllers>>
      BY <2>2 DEF vars, laneVars, batonVars
    <3> QED
      BY <3>1 DEF LaneInv, LineInv, HeldInv, BatonInv, InOrder
  <2> QED
    BY <2>1, <2>2, EnvironmentKeepsLane DEF Next
<1> QED
  BY <1>1, <1>2, SendInvariant, FenceInvariant, PTL DEF Spec

\* A controller and a place in the lane belong to a running send, on every exit
\* path: the refusals before the lane, the aborted wait, the lost claim and
\* the finally arms (execution-lane.ts, transfer-executor.ts).
THEOREM LaneNoLeak == Spec => []NoLeak
<1>1. LaneInv => NoLeak
  BY DEF LaneInv, LineInv, HeldInv, NoLeak, Running, Holding, InTheLine
<1> QED
  BY <1>1, LaneInvariant, PTL

\* The dApp sends of a session hold the lane in the order their messages
\* arrived (the baton of wallet-sdk/background.ts and the FIFO lane).
THEOREM LaneInOrder == Spec => []InOrder
<1>1. LaneInv => InOrder
  BY DEF LaneInv
<1> QED
  BY <1>1, LaneInvariant, PTL

-----------------------------------------------------------------------------
(* The cards.                                                              *)

\* Where the row a send executes under has had its last word.
RowClosed == {"cleanup", "finish", "settling", "closing", "refused", "done"}

\* Where the row it was queued by may still be queued, where it may be queued
\* or pending, where it is the one it executes under or gone, and where it has
\* had its last word.
QueuedOnly == {"parked", "popup", "silent", "authorise", "forward", "claiming", "cleanup", "closing"}
Unclaimed == {"execute", "fence", "enqueue", "waiting", "claim", "refile"}
Slot == {"simulate", "build", "built", "prove", "authorisation", "commit", "send", "broadcast",
         "answer", "record", "succeed", "failing"}
Claimed == {"create", "createFresh"} \cup Slot
QueuedClosed == {"finish", "settling", "done"}

\* A row that is stored, or was cancelled under its send, is the row of some
\* send; and a cancelled one never runs again.
FiledInv ==
    /\ aborted \cup abortDue \subseteq Rows
    /\ \A r \in Rows : r \in aborted \cup abortDue \/ journal[r].stage # "absent"
                           => \E s \in Sends : r \in {queued[s], row[s]}
    /\ \A r \in aborted \cup abortDue : journal[r].stage \notin Active

\* The stage of the row a send executes under, and of the one it was queued by.
RowStage(s) == Stage(row[s])
QueuedStage(s) == Stage(queued[s])

\* What the two cards of a send may show where it is.
RowCard(s) == pc[s] \in RowClosed => RowStage(s) \notin Active
ClaimCard(s) == pc[s] \in Claimed \/ s \in sent => row[s] = queued[s] \/ QueuedStage(s) = "absent"
QueuedCard(s) ==
    /\ pc[s] \in QueuedOnly => QueuedStage(s) \notin Active \ {"queued"}
    /\ pc[s] \in Unclaimed => QueuedStage(s) \notin Active \ {"queued", "pending"}
    /\ pc[s] \in QueuedClosed => QueuedStage(s) \notin Active

\* The inductive invariant of the cards, when no call failed.
CardInv ==
    /\ \A s \in Sends : pc[s] \in {"record", "succeed"} => s \in sent
    /\ faults = 0 => \A s \in Sends : RowCard(s) /\ ClaimCard(s) /\ QueuedCard(s)

-----------------------------------------------------------------------------
(* The rows of one send.                                                   *)

\* A row stays as it is, or is finished, or goes.
Rests(r) ==
    /\ journal'[r].stage \in Active => journal'[r].stage = journal[r].stage
    /\ journal[r].stage = "absent" => journal'[r].stage = "absent"

\* The same for the cards of s.
CardsRest(s) ==
    /\ RowStage(s)' \in Active => RowStage(s) \in Active
    /\ QueuedStage(s)' \in Active => QueuedStage(s)' = QueuedStage(s)
    /\ QueuedStage(s) = "absent" => QueuedStage(s)' = "absent"
    /\ UNCHANGED <<row[s], queued[s]>>

\* The cards of a send rest when its rows do and it keeps its ids.
LEMMA RestingCards ==
    ASSUME SendInv, NEW s \in Sends, UNCHANGED <<row[s], queued[s]>>,
           \A x \in Rows : x \in {queued[s], row[s]} => Rests(x)
    PROVE  CardsRest(s)
<1>1. row[s] \in Rows \cup {NoRow} /\ queued[s] \in Rows \cup {NoRow}
  BY DEF SendInv, Shape
<1>2. RowStage(s)' \in Active => RowStage(s) \in Active
  BY <1>1 DEF RowStage, Stage, Rests, Active
<1>3. QueuedStage(s)' \in Active => QueuedStage(s)' = QueuedStage(s)
  BY <1>1 DEF QueuedStage, Stage, Rests, Active
<1>4. QueuedStage(s) = "absent" => QueuedStage(s)' = "absent"
  BY <1>1 DEF QueuedStage, Stage, Rests
<1> QED
  BY <1>2, <1>3, <1>4 DEF CardsRest

\* A send that rests keeps what its cards may show.
LEMMA CardsStay ==
    ASSUME NEW s \in Sends, CardsRest(s), RowCard(s), ClaimCard(s), QueuedCard(s),
           pc'[s] \in {pc[s], "killed"}, s \in sent' => s \in sent
    PROVE  RowCard(s)' /\ ClaimCard(s)' /\ QueuedCard(s)'
<1>1. RowCard(s)' /\ QueuedCard(s)'
  BY DEF CardsRest, RowCard, QueuedCard, RowClosed, QueuedOnly, Unclaimed, QueuedClosed
<1>2. ClaimCard(s)'
  BY DEF CardsRest, ClaimCard, Claimed, Slot
<1> QED
  BY <1>1, <1>2

\* A step of s leaves the rows of the others alone, whatever it files.
LEMMA OthersRest ==
    ASSUME SendInv, NEW s \in Sends, Footprint(s), NEW t \in Sends \ {s}
    PROVE  CardsRest(t)
<1>1. UNCHANGED <<row[t], queued[t]>>
  BY DEF Footprint, IdPart
<1>2. CASE Carries(s)
  <2>1. \A x \in Rows : x \in {queued[t], row[t]} => x \notin {queued[s], row[s]}
    BY RowIds DEF SendInv, OwnRows
  <2>2. \A x \in Rows : x \in {queued[t], row[t]} => Rests(x)
    BY <1>2, <2>1 DEF Carries, Rests
  <2> QED
    BY <1>1, <2>2, RestingCards
<1>3. ASSUME NEW r \in {QueuedRow(s), FreshRow(s)}, Filed(r) PROVE CardsRest(t)
  <2>1. r \notin {queued[t], row[t]}
    BY <1>3, RowIds DEF SendInv, OwnRows, Filed
  <2>2. \A x \in Rows \ {r} : journal'[x] = journal[x]
    BY <1>3, FiledRow DEF SendInv, Shape
  <2>3. \A x \in Rows : x \in {queued[t], row[t]} => Rests(x)
    BY <2>1, <2>2 DEF Rests
  <2> QED
    BY <1>1, <2>3, RestingCards
<1> QED
  BY <1>2, <1>3 DEF Footprint, JournalPart

\* A row about to be filed belongs to nobody yet.
LEMMA UnfiledOwner ==
    ASSUME SendInv, FenceInv, NEW s \in Sends
    PROVE  /\ pc[s] = "filing" => \A t \in Sends : QueuedRow(s) \notin {queued[t], row[t]}
           /\ pc[s] \in {"create", "createFresh"} => \A t \in Sends : FreshRow(s) \notin {queued[t], row[t]}
<1>1. CASE pc[s] = "filing"
  <2>1. QueuedRow(s) \in Rows /\ queued[s] = NoRow /\ row[s] = NoRow
    BY <1>1, RowIds, Zenon DEF SendInv, OwnRows, FenceInv, FilesOnce, BeforeRow
  <2> QED
    BY <1>1, <2>1, RowIds DEF SendInv, OwnRows
<1>2. CASE pc[s] \in {"create", "createFresh"}
  <2>1. FreshRow(s) \in Rows /\ row[s] = NoRow
    BY <1>2, RowIds DEF FenceInv, FilesOnce, BeforeRow
  <2> QED
    BY <1>2, <2>1, RowIds DEF SendInv, OwnRows
<1> QED
  BY <1>1, <1>2

\* A step of a send files its own rows only, and none that was cancelled.
LEMMA SendKeepsFiled ==
    ASSUME SendInv, FenceInv, FiledInv, NEW s \in Sends, Footprint(s), UNCHANGED aborted
    PROVE  FiledInv'
<1>0. UNCHANGED <<aborted, abortDue>> /\ journal \in [Rows -> Row]
  BY DEF Footprint, SendInv, Shape
<1>1. ASSUME NEW t \in Sends PROVE queued[t] \in {queued'[t], NoRow} /\ row[t] \in {row'[t],
             NoRow}
  BY DEF Footprint, IdPart, FenceInv, FilesOnce
<1>2. ASSUME NEW r \in Rows, NEW t \in Sends, r \in {queued[t], row[t]} PROVE r \in {queued'[t],
             row'[t]}
  BY <1>1, <1>2, RowsAssumption
<1>3. CASE Carries(s)
  <2>1. \A r \in Rows : r \in aborted' \cup abortDue' \/ journal'[r].stage # "absent"
            => \E t \in Sends : r \in {queued'[t], row'[t]}
    BY <1>0, <1>2, <1>3, Zenon DEF FiledInv, Carries, Carried, Kept
  <2>2. \A r \in aborted' \cup abortDue' : journal'[r].stage \notin Active
    BY <1>0, <1>3 DEF FiledInv, Carries, Carried, Kept
  <2> QED
    BY <1>0, <2>1, <2>2, Zenon DEF FiledInv
<1>4. ASSUME NEW f \in Rows, Filed(f), f \in {queued'[s], row'[s]},
             \A t \in Sends : f \notin {queued[t], row[t]}
      PROVE  FiledInv'
  <2>1. f \notin aborted \cup abortDue /\ \A x \in Rows \ {f} : journal'[x] = journal[x]
    BY <1>0, <1>4, FiledRow DEF FiledInv
  <2>2. \A r \in Rows : r \in aborted' \cup abortDue' \/ journal'[r].stage # "absent"
            => \E t \in Sends : r \in {queued'[t], row'[t]}
    BY <1>0, <1>2, <1>4, <2>1 DEF FiledInv
  <2>3. \A r \in aborted' \cup abortDue' : journal'[r].stage \notin Active
    BY <1>0, <2>1 DEF FiledInv
  <2> QED
    BY <1>0, <2>2, <2>3 DEF FiledInv
<1> QED
  BY <1>3, <1>4, UnfiledOwner, Zenon DEF Footprint, JournalPart, Filed

\* The stage a step leaves a row in.
StageAfter(r) == IF r = NoRow THEN "absent" ELSE journal'[r].stage

\* A mark takes effect, or leaves the row where it was.
LEMMA MarkAfter ==
    ASSUME journal \in [Rows -> Row], NEW r, r \in Rows \cup {NoRow},
           NEW to \in {"pending", "succeeded", "failed"}, Mark(r, to)
    PROVE  StageAfter(r) = IF Legal(r, to) THEN to ELSE Stage(r)
<1>1. CASE Legal(r, to)
  <2>1. r \in Rows /\ journal'[r].stage = to
    BY <1>1, WriteKeeps DEF Mark
  <2> QED
    BY <1>1, <2>1, RowsAssumption DEF StageAfter
<1>2. CASE ~Legal(r, to)
  BY <1>2 DEF Mark, StageAfter, Stage
<1> QED
  BY <1>1, <1>2

\* Every unfinished stage may fail: what refuses it is finished or gone.
LEMMA FailedAfter ==
    ASSUME journal \in [Rows -> Row], NEW r, r \in Rows \cup {NoRow}, Mark(r, "failed")
    PROVE  StageAfter(r) \notin Active
<1>1. CASE Legal(r, "failed")
  BY <1>1, MarkAfter DEF Active
<1>2. CASE ~Legal(r, "failed")
  <2>1. Stage(r) \notin Active
    BY <1>2 DEF Legal, Present, CanTransition, Active
  <2> QED
    BY <1>2, <2>1, MarkAfter
<1> QED
  BY <1>1, <1>2

\* What CardInv asks of a step of s about its own rows.
CardPart(s) ==
    /\ pc'[s] \in {"record", "succeed"} => s \in sent'
    /\ faults' = 0 => RowCard(s)' /\ ClaimCard(s)' /\ QueuedCard(s)'

\* What a step of s finds in its rows and does to them: the queued one, the one
\* it executes under, and both.
QueuedFacts(s) ==
    /\ pc[s] \notin {"filing", "create", "createFresh"} =>
           /\ queued'[s] = queued[s]
           /\ QueuedStage(s)' \in Active => QueuedStage(s) \in Active
           /\ QueuedStage(s) = "absent" => QueuedStage(s)' = "absent"
    /\ UNCHANGED <<journal, queued>> => QueuedStage(s)' = QueuedStage(s)
    /\ queued'[s] = queued[s] => QueuedStage(s)' = StageAfter(queued[s])
    /\ queued[s] = NoRow => QueuedStage(s) = "absent"
    /\ queued'[s] = NoRow => QueuedStage(s)' = "absent"
    /\ queued[s] \in aborted => QueuedStage(s) \notin Active
    /\ s \in Transfers \/ pc[s] \in {"idle", "filing"} => queued[s] = NoRow
RowFacts(s) ==
    /\ pc[s] \notin BeforeRow => row'[s] = row[s] /\ (RowStage(s)' \in Active => RowStage(s) \in Active)
    /\ pc[s] \in BeforeRow => s \notin sent /\ row[s] = NoRow
    /\ pc[s] \in BeforeRow /\ row'[s] = row[s] => RowStage(s)' \notin Active
    /\ Cancelled(s) => RowStage(s) \notin Active
    /\ row[s] = queued[s] => RowStage(s) = QueuedStage(s)
    /\ row'[s] = queued'[s] => RowStage(s)' = QueuedStage(s)'
    /\ row'[s] = row[s] => RowStage(s)' = StageAfter(row[s])
CardFacts(s) ==
    /\ QueuedFacts(s) /\ RowFacts(s)
    /\ faults' = 0 => faults = 0 /\ RowCard(s) /\ ClaimCard(s) /\ QueuedCard(s)
    /\ Fault => faults' # 0

\* All of this holds of every step.
LEMMA StepCards ==
    ASSUME SendInv, FenceInv, FiledInv, CardInv, NEW s \in Sends, Footprint(s), Request(s) \/ SendStep(s)
    PROVE  CardFacts(s)
<1>1. pc[s] \notin {"filing", "create", "createFresh"} => \A x \in Rows : Kept(x)
  BY Zenon DEF Footprint, JournalPart, Carries, Carried
<1>2. (pc[s] # "filing" => queued'[s] = queued[s]) /\ (pc[s] \notin BeforeRow => row'[s] = row[s])
  BY Zenon DEF Footprint, IdPart
<1>3. queued[s] \in Rows \cup {NoRow} /\ row[s] \in Rows \cup {NoRow}
  BY DEF SendInv, Shape
<1>4. QueuedFacts(s)
  <2>1. pc[s] \notin {"filing", "create", "createFresh"} =>
            /\ queued'[s] = queued[s]
            /\ QueuedStage(s)' \in Active => QueuedStage(s) \in Active
            /\ QueuedStage(s) = "absent" => QueuedStage(s)' = "absent"
    BY <1>1, <1>2, <1>3, Zenon DEF QueuedStage, Stage, Kept, Active
  <2>2. queued[s] \in aborted => QueuedStage(s) \notin Active
    BY RowsAssumption DEF FiledInv, QueuedStage, Stage
  <2>3. s \in Transfers \/ pc[s] \in {"idle", "filing"} => queued[s] = NoRow
    BY SendAssumption DEF SendInv, Shape, OwnRows, QueuedRow, FreshRow, FenceInv, FilesOnce
  <2>4. /\ UNCHANGED <<journal, queued>> => QueuedStage(s)' = QueuedStage(s)
        /\ queued'[s] = queued[s] => QueuedStage(s)' = StageAfter(queued[s])
    BY DEF QueuedStage, Stage, StageAfter
  <2>5. /\ queued[s] = NoRow => QueuedStage(s) = "absent"
        /\ queued'[s] = NoRow => QueuedStage(s)' = "absent"
    BY DEF QueuedStage, Stage
  <2> QED
    BY <2>1, <2>2, <2>3, <2>4, <2>5, Zenon DEF QueuedFacts
<1>5. RowFacts(s)
  <2>1. pc[s] \notin BeforeRow => row'[s] = row[s] /\ (RowStage(s)' \in Active => RowStage(s) \in Active)
    BY <1>1, <1>2, <1>3 DEF RowStage, Stage, Kept, Active, BeforeRow
  <2>2. pc[s] \in BeforeRow => s \notin sent /\ row[s] = NoRow
    BY DEF FenceInv, FilesOnce, SendInv, BeforeRow, Broadcasted
  <2>3. Cancelled(s) => RowStage(s) \notin Active
    BY RowsAssumption DEF Cancelled, FiledInv, RowStage, Stage
  <2>4. row[s] = NoRow /\ row'[s] = row[s] => RowStage(s)' \notin Active
    BY DEF RowStage, Stage, Active
  <2>5. /\ row[s] = queued[s] => RowStage(s) = QueuedStage(s)
        /\ row'[s] = queued'[s] => RowStage(s)' = QueuedStage(s)'
    BY DEF RowStage, QueuedStage
  <2>6. row'[s] = row[s] => RowStage(s)' = StageAfter(row[s])
    BY DEF RowStage, Stage, StageAfter
  <2> QED
    BY <2>1, <2>2, <2>3, <2>4, <2>5, <2>6, Zenon DEF RowFacts
<1>6. (faults' = 0 => faults = 0) /\ (Fault => faults' # 0)
  BY StepFaults DEF FenceInv, SweepCovers, Fault
<1> QED
  BY <1>4, <1>5, <1>6 DEF CardFacts, CardInv

\* A step before the claim that writes no row: what the queued card shows
\* fits the place the send goes to.
LEMMA StillCards ==
    ASSUME NEW s \in Sends, CardFacts(s), pc[s] \in BeforeRow, UNCHANGED <<journal, queued, row, sent>>,
           pc'[s] \notin {"record", "succeed"},
           faults' = 0 => \/ pc[s] \in QueuedOnly /\ pc'[s] \in QueuedOnly \cup Unclaimed
                          \/ pc[s] \in Unclaimed /\ pc'[s] \in Unclaimed \cup {"refused"}
                          \/ QueuedStage(s) \notin Active \ {"queued"} /\ pc'[s] \in QueuedOnly
                          \/ QueuedStage(s) = "absent"
    PROVE  CardPart(s)
<1>1. s \notin sent' /\ RowStage(s)' \notin Active /\ QueuedStage(s)' = QueuedStage(s)
  BY Zenon DEF CardFacts, RowFacts, QueuedFacts
<1>2. ASSUME faults' = 0 PROVE QueuedCard(s)' /\ ClaimCard(s)'
  <2>1. QueuedCard(s)
    BY <1>2 DEF CardFacts
  <2> QED
    BY <1>1, <1>2, <2>1 DEF QueuedCard, ClaimCard, QueuedOnly, Unclaimed, Claimed, Slot,
       QueuedClosed,
       Active
<1> QED
  BY <1>1, <1>2 DEF CardPart, RowCard

\* A step before the claim that writes the queued row.
LEMMA EarlyCards ==
    ASSUME NEW s \in Sends, CardFacts(s), pc[s] \in BeforeRow, UNCHANGED <<row, sent>>,
           pc'[s] \in QueuedOnly \cup Unclaimed, faults' = 0 => QueuedCard(s)'
    PROVE  CardPart(s)
<1>1. s \notin sent' /\ RowStage(s)' \notin Active
  BY DEF CardFacts, RowFacts
<1> QED
  BY <1>1 DEF CardPart, RowCard, ClaimCard, QueuedOnly, Unclaimed, Claimed, Slot

\* The step that files or adopts the row the send executes under.
LEMMA StartCards ==
    ASSUME NEW s \in Sends, pc'[s] \in {"simulate", "failing"},
           faults' = 0 => row'[s] = queued'[s] \/ QueuedStage(s)' = "absent"
    PROVE  CardPart(s)
BY DEF CardPart, RowCard, ClaimCard, QueuedCard, RowClosed, QueuedOnly, Unclaimed, QueuedClosed

\* A step in the slot goes on, or leaves it with the row at its last word.
LEMMA SlotCards ==
    ASSUME NEW s \in Sends, CardFacts(s), pc[s] \in Slot,
           pc'[s] \in Slot \/ (pc'[s] \in {"cleanup", "finish"} /\ (faults' = 0 => RowStage(s)' \notin Active)),
           pc'[s] \in {"record", "succeed"} => s \in sent'
    PROVE  CardPart(s)
<1>1. pc[s] \notin BeforeRow /\ pc[s] \notin {"filing", "create", "createFresh"}
  BY DEF Slot, BeforeRow
<1>2. UNCHANGED <<row[s], queued[s]>> /\ (QueuedStage(s) = "absent" => QueuedStage(s)' = "absent")
  BY <1>1, Zenon DEF CardFacts, RowFacts, QueuedFacts
<1>3. faults' = 0 => row[s] = queued[s] \/ QueuedStage(s) = "absent"
  BY Zenon DEF CardFacts, ClaimCard, Claimed
<1>4. faults' = 0 => ClaimCard(s)'
  BY <1>2, <1>3, Zenon DEF ClaimCard
<1>5. faults' = 0 => RowCard(s)'
  BY DEF RowCard, RowClosed, Slot
<1>6. faults' = 0 => QueuedCard(s)'
  <2>1. row'[s] = queued'[s] => RowStage(s)' = QueuedStage(s)'
    BY DEF CardFacts, RowFacts
  <2> QED
    BY <1>2, <1>3, <2>1 DEF QueuedCard, QueuedOnly, Unclaimed, QueuedClosed, Slot, Active
<1> QED
  BY <1>4, <1>5, <1>6 DEF CardPart

\* A step on the way out.
LEMMA LateCards ==
    ASSUME NEW s \in Sends, CardFacts(s), pc[s] \in RowClosed, pc'[s] \in RowClosed, UNCHANGED sent,
           faults' = 0 => QueuedCard(s)'
    PROVE  CardPart(s)
<1>1. pc[s] \notin BeforeRow /\ pc[s] \notin {"filing", "create", "createFresh"}
  BY DEF RowClosed, BeforeRow
<1>2. UNCHANGED <<row[s], queued[s]>> /\ (QueuedStage(s) = "absent" => QueuedStage(s)' = "absent")
  BY <1>1, Zenon DEF CardFacts, RowFacts, QueuedFacts
<1>3. faults' = 0 => ClaimCard(s)'
  BY <1>2, Zenon DEF CardFacts, ClaimCard, RowClosed, Claimed, Slot
<1>4. faults' = 0 => RowCard(s)'
  BY <1>1, Zenon DEF CardFacts, RowFacts, RowCard
<1> QED
  BY <1>3, <1>4 DEF CardPart, RowClosed

\* A request and the steps up to the lane.
LEMMA BeforeLaneCards ==
    ASSUME SendInv, NEW s \in Sends, CardFacts(s), Request(s) \/ BeforeLane(s)
    PROVE  CardPart(s)
<1> USE DEF Goto, sendVars
<1>p. pc = [t \in Sends |-> pc[t]]
  BY DEF SendInv, Shape
<1>t. journal \in [Rows -> Row] /\ queued \in [Sends -> Rows \cup {NoRow}]
  BY DEF SendInv, Shape
<1>q. /\ s \in Transfers \/ pc[s] \in {"idle", "filing"} => queued[s] = NoRow
      /\ queued[s] = NoRow => QueuedStage(s) = "absent"
      /\ queued'[s] = NoRow => QueuedStage(s)' = "absent"
      /\ queued'[s] = queued[s] => QueuedStage(s)' = StageAfter(queued[s])
  BY DEF CardFacts, QueuedFacts
<1>1. CASE RequestTransfer(s)
  BY <1>1, <1>p, <1>q, StillCards DEF RequestTransfer, BeforeRow
<1>2. CASE Arrive(s)
  BY <1>2, <1>p, <1>q, StillCards DEF Arrive, BeforeRow
<1>3. CASE CreateTransfer(s)
  BY <1>3, <1>p, <1>q, StartCards DEF CreateTransfer
<1>4. CASE CreateRefused(s)
  <2>1. pc[s] \in BeforeRow /\ pc[s] \in Claimed
    BY <1>4 DEF CreateRefused, BeforeRow, Claimed
  <2>2. faults' = 0 => QueuedStage(s) = "absent"
    BY <1>q, <2>1, Zenon DEF CardFacts, RowFacts, ClaimCard
  <2> QED
    BY <1>4, <1>p, <2>1, <2>2, StillCards DEF CreateRefused
<1>5. CASE FileQueued(s)
  <2>1. QueuedStage(s)' \in {"queued", "absent"}
    <3>1. CASE UNCHANGED queued
      BY <1>5, <1>q, <3>1 DEF FileQueued
    <3>2. CASE Create(QueuedRow(s), "queued", fence[s].epoch) /\ queued' = [queued EXCEPT ![s] = QueuedRow(s)]
      <4>1. QueuedRow(s) \in Rows
        BY <1>5, RowIds, Zenon DEF FileQueued, SendInv, OwnRows
      <4>2. queued'[s] = QueuedRow(s) /\ journal'[QueuedRow(s)].stage = "queued"
        BY <1>t, <3>2, <4>1 DEF Create
      <4> QED
        BY <4>2 DEF QueuedStage, Stage
    <3> QED
      BY <1>5, <3>1, <3>2 DEF FileQueued
  <2>2. pc'[s] = "parked" /\ QueuedCard(s)'
    BY <1>5, <1>p, <2>1 DEF FileQueued, QueuedCard, QueuedOnly, Unclaimed, QueuedClosed, Active
  <2> QED
    BY <1>5, <2>2, EarlyCards DEF FileQueued, BeforeRow, QueuedOnly
<1>6. CASE Dispatch(s)
  BY <1>6, <1>p, StillCards DEF Dispatch, BeforeRow, QueuedOnly
<1>7. CASE Approve(s)
  BY <1>7, <1>p, StillCards DEF Approve, BeforeRow, QueuedOnly
<1>8. CASE ClosePopup(s)
  BY <1>8, <1>p, StillCards DEF ClosePopup, BeforeRow, QueuedOnly
<1>9. CASE Authorise(s)
  BY <1>9, <1>p, StillCards DEF Authorise, BeforeRow, QueuedOnly, Unclaimed
<1>10. CASE AuthoriseSilently(s)
  BY <1>10, <1>p, StillCards DEF AuthoriseSilently, BeforeRow, QueuedOnly
<1>11. CASE FastForward(s)
  <2>1. pc[s] = "forward" /\ pc'[s] = "execute" /\ UNCHANGED <<queued, row, sent>>
    BY <1>11, <1>p DEF FastForward
  <2>2. ASSUME faults' = 0 PROVE QueuedStage(s)' \notin Active \ {"queued", "pending"}
    <3>1. Mark(queued[s], "pending") /\ QueuedStage(s) \notin Active \ {"queued"}
      BY <1>11, <2>1, <2>2 DEF FastForward, MarkOrLose, CardFacts, QueuedCard, QueuedOnly
    <3>2. StageAfter(queued[s]) \in {"pending", QueuedStage(s)}
      BY <1>t, <3>1, MarkAfter DEF QueuedStage
    <3> QED
      BY <1>q, <2>1, <3>1, <3>2
  <2>3. faults' = 0 => QueuedCard(s)'
    BY <2>1, <2>2 DEF QueuedCard, QueuedOnly, QueuedClosed
  <2> QED
    BY <2>1, <2>3, EarlyCards DEF BeforeRow, Unclaimed
<1>12. CASE RefuseTerms(s)
  <2>1. pc[s] = "execute" /\ pc'[s] = "closing" /\ UNCHANGED <<queued, row, sent>>
    BY <1>12, <1>p DEF RefuseTerms
  <2>2. ASSUME faults' = 0 PROVE QueuedStage(s)' \notin Active \ {"queued"}
    <3>1. /\ TransitionIfStage(queued[s], {"pending"}, "failed")
          /\ QueuedStage(s) \notin Active \ {"queued", "pending"}
      BY <1>12, <2>1, <2>2 DEF RefuseTerms, TransitionOrLose, CardFacts, QueuedCard, Unclaimed
    <3>2. CASE QueuedStage(s) = "pending"
      <4>1. Mark(queued[s], "failed")
        BY <3>1, <3>2 DEF TransitionIfStage, QueuedStage
      <4> QED
        BY <1>t, <1>q, <2>1, <4>1, FailedAfter, Zenon
    <3>3. CASE QueuedStage(s) # "pending"
      BY <2>1, <3>1, <3>3 DEF TransitionIfStage, QueuedStage, CardFacts, QueuedFacts
    <3> QED
      BY <3>2, <3>3
  <2>3. faults' = 0 => QueuedCard(s)'
    BY <2>1, <2>2 DEF QueuedCard, Unclaimed, QueuedClosed
  <2> QED
    BY <2>1, <2>3, EarlyCards DEF BeforeRow, QueuedOnly
<1> QED
  BY <1>1, <1>2, <1>3, <1>4, <1>5, <1>6, <1>7, <1>8, <1>9, <1>10, <1>11, <1>12 DEF Request,
     BeforeLane

\* The lane and the claim.
LEMMA InLaneCards ==
    ASSUME SendInv, NEW s \in Sends, CardFacts(s), InLane(s)
    PROVE  CardPart(s)
<1> USE DEF Goto, sendVars
<1>p. pc = [t \in Sends |-> pc[t]]
  BY DEF SendInv, Shape
<1>t. /\ journal \in [Rows -> Row] /\ queued \in [Sends -> Rows \cup {NoRow}]
      /\ row \in [Sends -> Rows \cup {NoRow}]
  BY DEF SendInv, Shape
<1>f. Fault => faults' # 0
  BY DEF CardFacts
<1>q. /\ queued[s] \in aborted => QueuedStage(s) \notin Active
      /\ queued'[s] = queued[s] => QueuedStage(s)' = StageAfter(queued[s])
  BY Zenon DEF CardFacts, QueuedFacts
<1>a. ASSUME Adopt(s), UNCHANGED queued PROVE CardPart(s)
  BY <1>a, <1>p, <1>t, StartCards DEF Adopt
<1>1. CASE EnterLane(s)
  BY <1>1, <1>p, StillCards DEF EnterLane, BeforeRow, Unclaimed
<1>2. CASE AssertFence(s)
  BY <1>2, <1>p, <1>f, StillCards DEF AssertFence, BeforeRow, Unclaimed
<1>3. CASE Refused(s)
  <2>1. pc[s] = "refused" /\ pc'[s] = "closing" /\ UNCHANGED <<queued, sent>>
    BY <1>3, <1>p DEF Refused
  <2>2. ASSUME faults' = 0 PROVE QueuedStage(s)' \notin Active
    <3>1. Mark(queued[s], "failed")
      BY <1>3, <1>f, <2>2 DEF Refused, MarkOrLose
    <3> QED
      BY <1>t, <1>q, <2>1, <3>1, FailedAfter
  <2>3. faults' = 0 => QueuedCard(s)'
    BY <2>1, <2>2 DEF QueuedCard, Unclaimed
  <2> QED
    BY <2>1, <2>3, LateCards DEF RowClosed
<1>4. CASE Enqueue(s)
  BY <1>4, <1>p, <1>q, StillCards DEF Enqueue, BeforeRow, Unclaimed, QueuedOnly
<1>5. CASE Granted(s)
  BY <1>5, <1>p, StillCards DEF Granted, BeforeRow, Unclaimed
<1>6. CASE AbortWait(s)
  BY <1>6, <1>p, <1>q, StillCards DEF AbortWait, BeforeRow, QueuedOnly
<1>7. CASE ClaimMissing(s)
  BY <1>7, <1>p, <1>f, StillCards DEF ClaimMissing, BeforeRow, QueuedStage, Present
<1>8. CASE ClaimLost(s)
  <2>1. faults' = 0 => QueuedStage(s) \notin Active
    BY <1>8 DEF ClaimLost, CardFacts, QueuedCard, QueuedStage, Unclaimed
  <2> QED
    BY <1>8, <1>p, <2>1, StillCards DEF ClaimLost, BeforeRow, QueuedOnly
<1>9. CASE ClaimMoved(s)
  BY <1>9, <1>p, <1>f, <1>q, StillCards DEF ClaimMoved, BeforeRow, Unclaimed, QueuedOnly
<1>10. CASE ClaimQueued(s)
  BY <1>10, <1>p, StillCards DEF ClaimQueued, BeforeRow, QueuedStage, QueuedOnly
<1>11. CASE ClaimPending(s)
  BY <1>11, <1>a DEF ClaimPending
<1>12. CASE RefileMissing(s)
  BY <1>12, <1>p, StillCards DEF RefileMissing, BeforeRow, QueuedStage, Present
<1>13. CASE ClaimTransition(s)
  <2>1. CASE Goto(s, "cleanup") /\ UNCHANGED <<journal, row>>
    BY <1>13, <1>p, <2>1, StillCards DEF ClaimTransition, BeforeRow, QueuedOnly
  <2>2. CASE Adopt(s)
    BY <1>13, <1>a, <2>2 DEF ClaimTransition
  <2> QED
    BY <1>13, <2>1, <2>2 DEF ClaimTransition
<1>14. CASE CreateFresh(s)
  <2>1. pc'[s] \in {"simulate", "failing"} /\ UNCHANGED queued
    BY <1>14, <1>p DEF CreateFresh
  <2>2. QueuedStage(s)' = QueuedStage(s)
    <3>1. queued[s] # FreshRow(s)
      BY RowIds DEF SendInv, Shape, OwnRows
    <3> QED
      BY <1>14, <1>t, <2>1, <3>1 DEF CreateFresh, Create, QueuedStage, Stage
  <2>3. pc[s] \in BeforeRow /\ pc[s] \in Claimed
    BY <1>14 DEF CreateFresh, BeforeRow, Claimed
  <2>4. faults' = 0 => QueuedStage(s) = "absent"
    BY <2>3, Zenon DEF CardFacts, RowFacts, QueuedFacts, ClaimCard
  <2> QED
    BY <2>1, <2>2, <2>4, StartCards
<1> QED
  BY <1>1, <1>2, <1>3, <1>4, <1>5, <1>6, <1>7, <1>8, <1>9, <1>10, <1>11, <1>12, <1>13, <1>14,
     Zenon DEF InLane

\* Build, prove and send, and the way out.
LEMMA InSlotCards ==
    ASSUME SendInv, CardInv, NEW s \in Sends, CardFacts(s), InSlot(s)
    PROVE  CardPart(s)
<1> USE DEF Goto, sendVars
<1>p. pc = [t \in Sends |-> pc[t]]
  BY DEF SendInv, Shape
<1>t. /\ journal \in [Rows -> Row] /\ queued \in [Sends -> Rows \cup {NoRow}]
      /\ row \in [Sends -> Rows \cup {NoRow}]
  BY DEF SendInv, Shape
<1>f. Fault => faults' # 0
  BY DEF CardFacts
<1>r. /\ row'[s] = row[s] => RowStage(s)' = StageAfter(row[s])
      /\ pc[s] \notin BeforeRow /\ Cancelled(s) => RowStage(s)' \notin Active
  BY Zenon DEF CardFacts, RowFacts
<1>1. CASE Simulate(s)
  BY <1>1, <1>p, <1>r, SlotCards DEF Simulate, Slot, BeforeRow
<1>2. CASE Build(s)
  BY <1>2, <1>p, <1>r, SlotCards DEF Build, Slot, BeforeRow
<1>3. CASE EnterProve(s)
  BY <1>3, <1>p, <1>r, SlotCards DEF EnterProve, Slot, BeforeRow
<1>4. CASE Prove(s)
  BY <1>4, <1>p, <1>r, SlotCards DEF Prove, Slot, BeforeRow
<1>5. CASE AssertAuthorization(s)
  BY <1>5, <1>p, SlotCards DEF AssertAuthorization, Slot
<1>6. CASE CommitSubmitting(s)
  BY <1>6, <1>p, <1>r, SlotCards DEF CommitSubmitting, Slot, BeforeRow
<1>7. CASE AdmitSend(s)
  BY <1>7, <1>p, <1>r, SlotCards DEF AdmitSend, Slot, BeforeRow
<1>8. CASE Broadcast(s)
  BY <1>8, <1>p, SlotCards DEF Broadcast, Slot
<1>9. CASE Answer(s)
  BY <1>9, <1>p, SlotCards DEF Answer, Slot
<1>10. CASE RecordTransaction(s)
  BY <1>10, <1>p, SlotCards DEF RecordTransaction, Slot, CardInv
<1>11. CASE Succeed(s)
  <2>1. row[s] \in Rows /\ journal[row[s]].stage \in {"absent", "submitting", "succeeded", "failed"}
    BY <1>11 DEF Succeed, CardInv, SendInv, SoundRow
  <2>2. Legal(row[s], "succeeded") \/ Stage(row[s]) \notin Active
    BY <2>1, RowsAssumption DEF Legal, Present, Stage, CanTransition, Active
  <2>3. Mark(row[s], "succeeded") => StageAfter(row[s]) \notin Active
    BY <1>t, <2>2, MarkAfter DEF Active
  <2>4. UNCHANGED row /\ (faults' = 0 => Mark(row[s], "succeeded"))
    BY <1>11, <1>f DEF Succeed, MarkOrLose
  <2> QED
    BY <1>11, <1>p, <1>r, <2>3, <2>4, SlotCards DEF Succeed, Slot
<1>12. CASE Failing(s)
  <2>1. UNCHANGED row /\ (faults' = 0 => Mark(row[s], "failed"))
    BY <1>12, <1>f DEF Failing, MarkOrLose
  <2>2. faults' = 0 => RowStage(s)' \notin Active
    BY <1>t, <1>r, <2>1, FailedAfter
  <2> QED
    BY <1>12, <1>p, <2>2, SlotCards DEF Failing, Slot
<1>13. CASE Cleanup(s)
  <2>1. /\ pc[s] \in RowClosed /\ pc'[s] \in RowClosed /\ UNCHANGED sent
        /\ pc'[s] \in {"settling", "closing"} \/ s \in Transfers
    BY <1>13, <1>p DEF Cleanup, AfterCleanup, RowClosed
  <2>2. /\ QueuedStage(s)' = QueuedStage(s)
        /\ s \in Transfers => QueuedStage(s) = "absent"
    BY <1>13, Zenon DEF Cleanup, CardFacts, QueuedFacts
  <2>3. \/ pc[s] = "cleanup" /\ pc'[s] = "closing"
        \/ pc[s] = "finish"
        \/ QueuedStage(s) = "absent"
    BY <1>13, <1>p, <2>2 DEF Cleanup, AfterCleanup
  <2>4. faults' = 0 => QueuedCard(s)'
    BY <2>2, <2>3, Zenon DEF CardFacts, QueuedCard, QueuedOnly, Unclaimed, QueuedClosed, Active
  <2> QED
    BY <2>1, <2>4, LateCards
<1>14. CASE Settle(s)
  <2>1. pc[s] \in {"closing", "settling"} /\ pc'[s] = "done" /\ UNCHANGED <<queued, sent>>
    BY <1>14, <1>p DEF Settle
  <2>2. ASSUME faults' = 0 PROVE QueuedStage(s)' \notin Active
    <3>1. CASE pc[s] = "closing"
      <4>1. TransitionIfStage(queued[s], {"queued"}, "failed") /\ QueuedStage(s) \notin Active \ {"queued"}
        BY <1>14, <1>f, <2>2, <3>1 DEF Settle, TransitionOrLose, CardFacts, QueuedCard, QueuedOnly
      <4>2. queued'[s] = queued[s] => QueuedStage(s)' = StageAfter(queued[s])
        BY Zenon DEF CardFacts, QueuedFacts
      <4>3. CASE QueuedStage(s) = "queued"
        <5>1. Mark(queued[s], "failed")
          BY <4>1, <4>3 DEF TransitionIfStage, QueuedStage
        <5> QED
          BY <1>t, <2>1, <4>2, <5>1, FailedAfter, Zenon
      <4>4. CASE QueuedStage(s) # "queued"
        BY <2>1, <4>1, <4>4, Zenon DEF TransitionIfStage, QueuedStage, CardFacts, QueuedFacts
      <4> QED
        BY <4>3, <4>4
    <3>2. CASE pc[s] = "settling"
      BY <1>14, <2>1, <2>2, <3>2, Zenon DEF Settle, CardFacts, QueuedFacts, QueuedCard, QueuedClosed
    <3> QED
      BY <2>1, <3>1, <3>2
  <2>3. faults' = 0 => QueuedCard(s)'
    BY <2>1, <2>2, Zenon DEF QueuedCard, QueuedOnly, Unclaimed
  <2> QED
    BY <2>1, <2>3, LateCards DEF RowClosed
<1> QED
  BY <1>1, <1>2, <1>3, <1>4, <1>5, <1>6, <1>7, <1>8, <1>9, <1>10, <1>11, <1>12, <1>13,
     <1>14 DEF InSlot

\* What is sent stays sent.
LEMMA SentGrows ==
    ASSUME NEW s \in Sends, Request(s) \/ SendStep(s) PROVE sent \subseteq sent'
<1>1. CASE Request(s) \/ BeforeLane(s)
  BY <1>1 DEF Request, RequestTransfer, Arrive, BeforeLane, CreateTransfer, CreateRefused,
     FileQueued,
     Dispatch, Approve, ClosePopup, Authorise, AuthoriseSilently, FastForward, RefuseTerms
<1>2. CASE InLane(s)
  BY <1>2, Zenon DEF InLane, EnterLane, AssertFence, Refused, Enqueue, Granted, AbortWait,
     ClaimMissing,
     ClaimLost, ClaimMoved, ClaimQueued, ClaimPending, RefileMissing, ClaimTransition, CreateFresh
<1>3. CASE InSlot(s)
  BY <1>3, Zenon DEF InSlot, Simulate, Build, EnterProve, Prove, AssertAuthorization,
     CommitSubmitting, AdmitSend, Broadcast, Answer, RecordTransaction, Succeed, Failing, Cleanup,
     Settle
<1> QED
  BY <1>1, <1>2, <1>3 DEF SendStep

\* A step of a send keeps both.
LEMMA SendKeepsCards ==
    ASSUME SendInv, FenceInv, FiledInv, CardInv, NEW s \in Sends, Request(s) \/ SendStep(s)
    PROVE  FiledInv' /\ CardInv'
<1>1. Footprint(s) /\ UNCHANGED aborted
  BY StepFootprint, StepCourse DEF Course
<1>2. FiledInv' /\ CardFacts(s)
  BY <1>1, SendKeepsFiled, StepCards
<1>3. CardPart(s)
  BY <1>2, BeforeLaneCards, InLaneCards, InSlotCards DEF SendStep
<1>4. ASSUME NEW t \in Sends \ {s} PROVE pc'[t] = pc[t] /\ CardsRest(t)
  BY <1>1, OthersRest, Zenon DEF Footprint, PcPart
<1>a. AuthorityPart(s)
  BY StepAuthority
<1>5. sent \subseteq sent' /\ \A t \in sent' \ sent : t = s
  BY <1>a, SentGrows DEF AuthorityPart
<1>6. \A t \in Sends : pc'[t] \in {"record", "succeed"} => t \in sent'
  BY <1>3, <1>4, <1>5 DEF CardInv, CardPart
<1>7. ASSUME faults' = 0, NEW t \in Sends PROVE RowCard(t)' /\ ClaimCard(t)' /\ QueuedCard(t)'
  <2>1. CASE t = s
    BY <1>3, <1>7, <2>1 DEF CardPart
  <2>2. CASE t # s
    <3>1. /\ RowCard(t) /\ ClaimCard(t) /\ QueuedCard(t) /\ CardsRest(t)
          /\ pc'[t] = pc[t] /\ (t \in sent' => t \in sent)
      BY <1>2, <1>4, <1>5, <1>7, <2>2, Zenon DEF CardInv, CardFacts
    <3> QED
      BY <3>1, CardsStay
  <2> QED
    BY <2>1, <2>2
<1> QED
  BY <1>2, <1>6, <1>7, Zenon DEF CardInv

\* So do cancels, sweeps, reapers, sessions, deletions and deaths.
LEMMA EnvironmentKeepsCards ==
    ASSUME SendInv, FenceInv, FiledInv, CardInv,
           \/ \E r \in Rows : CancelAsked(r) \/ CancelStep(r) \/ BootReap(r) \/ Reap(r)
           \/ Unlock \/ LockWallet \/ BeginDeletion \/ DeletionStep \/ Kill
    PROVE  FiledInv' /\ CardInv'
<1> USE DEF sendVars, laneVars, cancelVars
<1>j. journal \in [Rows -> Row]
  BY DEF SendInv, Shape
<1>k. UNCHANGED journal => \A x \in Rows : Kept(x) /\ Rests(x)
  BY DEF Kept, Rests
<1>w. ASSUME NEW r \in Rows, NEW to \in {"failed", "cancelled"}, Legal(r, to), Write(r, to)
      PROVE  \A x \in Rows : Kept(x) /\ Rests(x)
  <2>1. Kept(r) /\ journal'[r].stage = to /\ \A x \in Rows \ {r} : journal'[x] = journal[x]
    BY <1>w, <1>j, WriteKeeps, Zenon
  <2> QED
    BY <2>1, Zenon DEF Kept, Rests, Active
<1>a. ASSUME \A x \in Rows : Rests(x), UNCHANGED <<queued, row, sent>>,
             \A s \in Sends : pc'[s] \in {pc[s], "killed"}, faults' = 0 => faults = 0
      PROVE  CardInv'
  <2>1. ASSUME NEW s \in Sends, faults' = 0 PROVE RowCard(s)' /\ ClaimCard(s)' /\ QueuedCard(s)'
    <3>1. CardsRest(s)
      BY <1>a, RestingCards, Zenon
    <3>2. RowCard(s) /\ ClaimCard(s) /\ QueuedCard(s)
      BY <1>a, <2>1 DEF CardInv
    <3> QED
      BY <1>a, <3>1, <3>2, CardsStay, Zenon
  <2>2. \A s \in Sends : pc'[s] \in {"record", "succeed"} => s \in sent'
    BY <1>a DEF CardInv
  <2> QED
    BY <2>1, <2>2, Zenon DEF CardInv
<1>b. ASSUME \A x \in Rows : Kept(x), UNCHANGED <<queued, row>>,
             aborted' \cup abortDue' \subseteq aborted \cup abortDue
      PROVE  FiledInv'
  BY <1>b DEF FiledInv, Kept
<1>c. ASSUME NEW r \in Rows, Legal(r, "cancelled"), Write(r, "cancelled"),
             abortDue' = abortDue \cup {r},
             UNCHANGED <<aborted, pc, queued, row, sent, faults>>
      PROVE  FiledInv' /\ CardInv'
  <2>1. \A x \in Rows : Kept(x) /\ Rests(x)
    BY <1>c, <1>w
  <2>2. journal'[r].stage = "cancelled" /\ journal[r].stage # "absent"
    BY <1>c, <1>j, WriteKeeps, RowsAssumption, Zenon DEF Legal, Present, Stage
  <2>3. CardInv' /\ aborted' \cup abortDue' = (aborted \cup abortDue) \cup {r}
    BY <1>a, <1>c, <2>1
  <2>4. FiledInv'
    BY <1>c, <2>1, <2>2, <2>3, Zenon DEF FiledInv, Kept, Active
  <2> QED
    BY <2>3, <2>4
<1>1. CASE \E r \in Rows : CancelAsked(r)
  BY <1>1, <1>a, <1>b, <1>k DEF CancelAsked
<1>2. ASSUME NEW r \in Rows, CancelApplied(r) PROVE FiledInv' /\ CardInv'
  <2>1. CASE Legal(r, "cancelled")
    BY <1>2, <2>1, <1>c DEF CancelApplied, Mark
  <2>2. CASE ~Legal(r, "cancelled")
    BY <1>2, <2>2, <1>a, <1>b, <1>k DEF CancelApplied, Mark
  <2> QED
    BY <2>1, <2>2
<1>3. ASSUME NEW r \in Rows, SweepRow(r) PROVE FiledInv' /\ CardInv'
  <2>0. UNCHANGED <<aborted, pc, queued, row, sent>> /\ faults' \in {faults, faults + 1}
    BY <1>3 DEF SweepRow, Fault
  <2>f. faults \in Nat
    BY Zenon DEF FenceInv, SweepCovers
  <2>1. UNCHANGED <<aborted, pc, queued, row, sent>> /\ (faults' = 0 => faults = 0)
    BY <2>0, <2>f
  <2>2. CASE UNCHANGED <<journal, abortDue>>
    BY <2>1, <2>2, <1>a, <1>b, <1>k
  <2>3. CASE /\ Stage(r) \in PreSubmit /\ TransitionIfStage(r, PreSubmit, "cancelled")
             /\ abortDue' = abortDue \cup {r} /\ UNCHANGED faults
    <3>1. Legal(r, "cancelled")
      BY <2>3 DEF Legal, Present, CanTransition, PreSubmit
    <3> QED
      BY <2>1, <2>3, <3>1, <1>c DEF TransitionIfStage, Mark
  <2> QED
    BY <1>3, <2>2, <2>3 DEF SweepRow, TransitionIfStage
<1>4. ASSUME NEW r \in Rows, AbortCancelled(r) PROVE FiledInv' /\ CardInv'
  BY <1>4, <1>a, <1>b, <1>k DEF AbortCancelled
<1>5. ASSUME NEW r \in Rows, BootReap(r) \/ Reap(r) PROVE FiledInv' /\ CardInv'
  <2>1. \A x \in Rows : Kept(x) /\ Rests(x)
    BY <1>5, <1>k, <1>w DEF BootReap, Reap, Mark
  <2> QED
    BY <1>5, <2>1, <1>a, <1>b DEF BootReap, Reap
<1>6. CASE Unlock \/ LockWallet \/ BeginDeletion \/ CloseDeleted \/ ReleaseProfile
  <2>1. UNCHANGED <<journal, aborted, abortDue, pc, queued, row, sent, faults>>
    BY <1>6, Zenon DEF Unlock, LockWallet, BeginDeletion, CloseDeleted, ReleaseProfile
  <2> QED
    BY <2>1, <1>a, <1>b, <1>k
<1>7. CASE PurgeProfile
  <2>1. UNCHANGED <<aborted, abortDue, pc, queued, row, sent, faults>>
    BY <1>7 DEF PurgeProfile
  <2>2. \A r \in Rows : journal'[r].stage = "absent"
    BY <1>7 DEF PurgeProfile, PurgeRows, AbsentRow
  <2>3. CardInv'
    BY <2>1, <2>2, <1>a, Zenon DEF Rests, Active
  <2> QED
    BY <2>1, <2>2, <2>3, Zenon DEF FiledInv, Active
<1>8. CASE Kill
  <2>1. aborted' = {} /\ abortDue' = {} /\ UNCHANGED <<journal, queued, row, sent, faults>>
    BY <1>8 DEF Kill
  <2>2. \A s \in Sends : pc'[s] \in {pc[s], "killed"}
    BY <1>8 DEF Kill
  <2> QED
    BY <2>1, <2>2, <1>a, <1>b, <1>k, Zenon
<1> QED
  BY <1>1, <1>2, <1>3, <1>4, <1>5, <1>6, <1>7, <1>8 DEF CancelStep, DeletionStep

\* FiledInv and CardInv hold in every state of every run of the pipeline.
THEOREM CardInvariant == Spec => [](FiledInv /\ CardInv)
<1>1. Init => FiledInv /\ CardInv
  <2>1. Init => /\ aborted = {} /\ abortDue = {} /\ sent = {}
                /\ \A s \in Sends : pc[s] = "idle"
                /\ \A r \in Rows : journal[r].stage = "absent"
    BY DEF Init, AbsentRow
  <2>2. Init => FiledInv
    BY <2>1 DEF FiledInv
  <2>3. Init => CardInv
    BY <2>1 DEF CardInv, RowCard, ClaimCard, QueuedCard, RowClosed, QueuedOnly, Unclaimed,
       Claimed,
       Slot, QueuedClosed
  <2> QED
    BY <2>2, <2>3
<1>2. SendInv /\ FenceInv /\ FiledInv /\ CardInv /\ [Next]_vars => (FiledInv /\ CardInv)'
  <2> SUFFICES ASSUME SendInv, FenceInv, FiledInv, CardInv, [Next]_vars PROVE FiledInv' /\ CardInv'
    OBVIOUS
  <2>1. CASE UNCHANGED vars
    <3>1. UNCHANGED <<journal, aborted, abortDue, pc, queued, row, sent, faults>>
      BY <2>1 DEF vars, laneVars, cancelVars, sendVars
    <3> QED
      BY <3>1, Zenon DEF FiledInv, CardInv, RowCard, ClaimCard, QueuedCard, RowStage,
         QueuedStage, Stage
  <2> QED
    BY <2>1, SendKeepsCards, EnvironmentKeepsCards DEF Next
<1> QED
  BY <1>1, <1>2, SendInvariant, FenceInvariant, PTL DEF Spec

\* When no call failed, a send that has settled leaves no card that still says
\* queued or running, neither the row filed when its message arrived nor the
\* one it executed under, through every refusal, cancel, reap, purge and death
\* (the catch and finally arms of the two executors and the lane's refusals).
THEOREM CardNoStuckCard == Spec => []NoStuckCard
<1>1. CardInv => NoStuckCard
  BY DEF CardInv, RowCard, QueuedCard, NoStuckCard, RowStage, QueuedStage, RowClosed, QueuedClosed
<1> QED
  BY <1>1, CardInvariant, PTL

\* A transaction that reached the network is not cancelled in the journal: the
\* row it was committed under never is, and the row its message was queued by
\* is that row or gone, when no call failed (the claim, proveAndSend's commit
\* and the journal's stage machine arbitrate).
THEOREM CardCancelledNeverSent == Spec => []CancelledNeverSent
<1>1. SendInv /\ CardInv => CancelledNeverSent
  <2> SUFFICES ASSUME SendInv, CardInv, NEW s \in sent
               PROVE  /\ Stage(row[s]) # "cancelled"
                      /\ faults = 0 => Stage(queued[s]) # "cancelled"
    BY DEF CancelledNeverSent
  <2>1. s \in Sends /\ Stage(row[s]) # "cancelled"
    BY RowsAssumption DEF SendInv, Shape, SoundRow, Stage
  <2>2. faults = 0 => row[s] = queued[s] \/ Stage(queued[s]) = "absent"
    BY <2>1 DEF CardInv, ClaimCard, QueuedStage
  <2> QED
    BY <2>1, <2>2
<1> QED
  BY <1>1, SendInvariant, CardInvariant, PTL
=============================================================================
