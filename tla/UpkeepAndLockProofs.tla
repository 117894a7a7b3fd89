------------------------- MODULE UpkeepAndLockProofs ------------------------
(***************************************************************************)
(* Two components, each proved on its own: the upkeep of the journal       *)
(* (JournalUpkeep), for any number of operations and any periods, and the  *)
(* lock (Lock), for any set of calls, finite or not.                       *)
(*                                                                         *)
(* JournalUpkeep: every grace is longer than two heartbeats, because a send *)
(* that passes from the queue to the lane in the middle of a heartbeat is  *)
(* touched by neither of its two loops.                                    *)
(*                                                                         *)
(* Lock: MutualExclusion needs to know that the call dispatch() grants was *)
(* waiting, WatchdogOfCurrent that leave() clears the timeout of the ticket *)
(* it gives back.                                                          *)
(***************************************************************************)
EXTENDS JournalUpkeep, Lock, TLAPS

(* JournalUpkeep.                                                          *)

RowType == [stage : Active \cup {"none", "failed", "succeeded"}, created : Nat, touched : Nat]
Time == Nat \cup {Never}

\* The state is well-formed.
TypeOK ==
    /\ now \in Nat /\ reapAt \in Nat /\ cutoff \in Nat
    /\ row \in [Ops -> RowType] /\ snap \in [Ops -> RowType]
    /\ job \in [Ops -> {"none", "waiting", "lane", "slot", "gone"}]
    /\ queuedAt \in [Ops -> Time] /\ beatAt \in Time
    /\ lane \subseteq Ops /\ todo \subseteq Ops /\ lapsed \subseteq Ops
    /\ beat \in {"idle", "lane", "queued"}
    /\ reap \in {"idle", "boot", "all", "stale"}

\* A waiting job is vouched for until its lease is over, a job in the lane as
\* long as it is there, and a row is as old as the vouching.
JobOf(o) ==
    /\ queuedAt[o] # Never => job[o] = "waiting" /\ o \notin lapsed
    /\ job[o] = "waiting" => queuedAt[o] # Never \/ o \in lapsed
    /\ o \in lane <=> job[o] = "lane"
    /\ o \in lapsed => job[o] \in {"waiting", "lane"}
    /\ IsActive(row[o]) => job[o] # "none" /\ row[o].touched <= now
    /\ (IsActive(row[o]) /\ queuedAt[o] # Never) => row[o].created = queuedAt[o]

\* The timer runs while anybody waits; it is never overdue, and a heartbeat
\* in progress has just been set off.
TimerInv ==
    /\ \A o \in Ops : queuedAt[o] # Never \/ o \in lane => beatAt # Never
    /\ beatAt # Never => now <= beatAt /\ beatAt <= now + Beat
    /\ beat # "idle" /\ beatAt # Never => beatAt = now + Beat
    /\ beat = "idle" => todo = {}

\* How old the row of a waiter may be: one heartbeat in the queue, and two in
\* the lane, for the one that missed it on the way.
FreshOf(o) ==
    IsActive(row[o]) /\ o \notin lapsed =>
        /\ queuedAt[o] # Never =>
             /\ beat = "idle" => beatAt <= row[o].touched + Beat
             /\ beat # "idle" => now <= row[o].touched + Beat
             /\ beat = "queued" /\ o \notin todo => now <= row[o].touched
        /\ o \in lane =>
             /\ beat = "idle" => beatAt <= row[o].touched + 2 * Beat
             /\ beat # "idle" => now <= row[o].touched + 2 * Beat
             /\ beat = "queued" \/ (beat = "lane" /\ o \notin todo) => now <= row[o].touched + Beat

\* Nobody touches a queued row past its lease.
LeaseOf(o) ==
    /\ beat = "lane" /\ o \in todo => job[o] \in {"lane", "slot", "gone"}
    /\ (IsActive(row[o]) /\ job[o] = "waiting") =>
         /\ row[o].stage = "queued" => row[o].touched <= row[o].created + Lease
         /\ beat = "queued" /\ o \in todo => now <= row[o].created + Lease

\* The alarm is never overdue.
AlarmInv ==
    /\ now <= reapAt /\ reapAt <= now + ReapPeriod
    /\ reap # "idle" => reapAt = now + ReapPeriod
    /\ reap = "boot" => cutoff = now

\* What a sweep read is stale, or its job is gone; whoever wrote a row since,
\* wrote it just now; and no waiting row outlives the alarm after its grace.
SweepOf(o) ==
    /\ reap = "stale" /\ IsActive(snap[o]) =>
         /\ snap[o].touched + Grace[snap[o].stage] <= now
         /\ IsActive(row[o]) => \/ row[o].touched = now
                                \/ row[o].touched = snap[o].touched /\ row[o].stage = snap[o].stage
    /\ reap = "all" /\ IsActive(snap[o]) => job[o] = "gone"
    /\ (reap = "boot" /\ IsActive(row[o]) /\ job[o] # "gone") => cutoff <= row[o].created
    /\ (IsActive(row[o]) /\ job[o] = "waiting") =>
         /\ reap = "idle" => reapAt < row[o].touched + Grace[row[o].stage] + ReapPeriod
         /\ reap = "stale" => now < row[o].touched + Grace[row[o].stage] + ReapPeriod
         /\ reap = "stale" /\ ~IsActive(snap[o]) => now < row[o].touched + Grace[row[o].stage]
         /\ reap \in {"boot", "all"} => row[o].touched = now

\* The inductive invariant.
UpkeepInv ==
    /\ TypeOK /\ TimerInv /\ AlarmInv
    /\ \A o \in Ops : JobOf(o) /\ FreshOf(o) /\ LeaseOf(o) /\ SweepOf(o)

\* A step that keeps UpkeepInv.
Keeps(A) == UpkeepInv /\ A => UpkeepInv'

-----------------------------------------------------------------------------
\* A new send starts vouched for, with a fresh row (beginQueuedWait).
LEMMA EnqueuePreserves == \A o \in Ops : Keeps(Enqueue(o))
<1> SUFFICES ASSUME NEW o \in Ops, TypeOK, TimerInv, AlarmInv, Enqueue(o),
                    \A p \in Ops : JobOf(p) /\ FreshOf(p) /\ LeaseOf(p) /\ SweepOf(p)
             PROVE  UpkeepInv'
  BY DEF Keeps, UpkeepInv
<1>1. TypeOK'
  <2>1. now \in Nat /\ Fresh("queued") \in RowType
    BY UpkeepAssumption, Zenon
       DEF TypeOK, RowType, Active, Enqueue, Fresh, NoRow, EnsureTimer, rows, vouching, reaping
  <2>2. row' \in [Ops -> RowType]
    BY <2>1, UpkeepAssumption
       DEF TypeOK, Enqueue, Fresh, NoRow, EnsureTimer, rows, vouching, reaping
  <2> QED
    BY <2>2, UpkeepAssumption DEF TypeOK, Time, Enqueue, EnsureTimer, reaping
<1>2. TimerInv' /\ AlarmInv'
  BY UpkeepAssumption
     DEF TypeOK, Never, TimerInv, AlarmInv, Enqueue, Fresh, EnsureTimer, reaping
<1>4. ASSUME NEW p \in Ops PROVE JobOf(p)'
  BY DEF TypeOK, Never, JobOf, Enqueue, Fresh
<1>5. ASSUME NEW p \in Ops PROVE FreshOf(p)'
  BY UpkeepAssumption
     DEF TypeOK, Never, JobOf, FreshOf, TimerInv, IsActive, Enqueue, Fresh, EnsureTimer
<1>6. ASSUME NEW p \in Ops PROVE LeaseOf(p)'
  BY UpkeepAssumption DEF TypeOK, Never, LeaseOf, Enqueue, Fresh
<1>7. ASSUME NEW p \in Ops PROVE SweepOf(p)'
  BY UpkeepAssumption DEF TypeOK, SweepOf, AlarmInv, Active, Enqueue, Fresh, reaping
<1> QED
  BY <1>1, <1>2, <1>4, <1>5, <1>6, <1>7 DEF UpkeepInv

\* Going on to pending from the queue writes the row now (_transitionLocked).
LEMMA FastForwardPreserves == \A o \in Ops : Keeps(FastForward(o))
<1> SUFFICES ASSUME NEW o \in Ops, TypeOK, TimerInv, AlarmInv, FastForward(o),
                    \A p \in Ops : JobOf(p) /\ FreshOf(p) /\ LeaseOf(p) /\ SweepOf(p)
             PROVE  UpkeepInv'
  BY DEF Keeps, UpkeepInv
<1>1. TypeOK'
  BY ZenonT(30) DEF TypeOK, RowType, Never, Active, FastForward, Moved, vouching, reaping
<1>2. TimerInv' /\ AlarmInv'
  BY UpkeepAssumption
     DEF TypeOK, Time, Never, TimerInv, JobOf, AlarmInv, FastForward, Moved, rows, vouching,
         reaping
<1>4. ASSUME NEW p \in Ops PROVE JobOf(p)'
  BY DEF TypeOK, Never, JobOf, IsActive, Active, FastForward, Moved, vouching
<1>5. ASSUME NEW p \in Ops PROVE FreshOf(p)'
  BY DEF TypeOK, Never, JobOf, FreshOf, TimerInv, IsActive, FastForward, Moved, vouching
<1>6. ASSUME NEW p \in Ops PROVE LeaseOf(p)'
  BY DEF Never, LeaseOf, IsActive, Active, FastForward, Moved, vouching
<1>7. ASSUME NEW p \in Ops PROVE SweepOf(p)'
  BY UpkeepAssumption
     DEF TypeOK, SweepOf, AlarmInv, IsActive, Active, FastForward, Moved, reaping
<1> QED
  BY <1>1, <1>2, <1>4, <1>5, <1>6, <1>7 DEF UpkeepInv

\* The lane takes over a row at most one heartbeat old (beginExecutionWait).
LEMMA EnterLanePreserves == \A o \in Ops : Keeps(EnterLane(o))
<1> SUFFICES ASSUME NEW o \in Ops, TypeOK, TimerInv, AlarmInv, EnterLane(o),
                    \A p \in Ops : JobOf(p) /\ FreshOf(p) /\ LeaseOf(p) /\ SweepOf(p)
             PROVE  UpkeepInv'
  BY DEF Keeps, UpkeepInv
<1>1. TypeOK' /\ TimerInv' /\ AlarmInv'
  BY UpkeepAssumption
     DEF TypeOK, Time, Never, IsActive, TimerInv, AlarmInv, EnterLane, EnsureTimer, reaping
<1>4. ASSUME NEW p \in Ops PROVE JobOf(p)'
  BY DEF TypeOK, Never, JobOf, EnterLane
<1>5. ASSUME NEW p \in Ops PROVE FreshOf(p)'
  BY UpkeepAssumption
     DEF TypeOK, RowType, Time, Never, JobOf, FreshOf, TimerInv, EnterLane, EnsureTimer, rows
<1>6. ASSUME NEW p \in Ops PROVE LeaseOf(p)'
  BY DEF Never, LeaseOf, EnterLane
<1>7. ASSUME NEW p \in Ops PROVE SweepOf(p)'
  BY DEF Never, SweepOf, EnterLane, reaping
<1> QED
  BY <1>1, <1>4, <1>5, <1>6, <1>7 DEF UpkeepInv

\* A granted slot ends the vouching (endExecutionWait).
LEMMA GrantedPreserves == \A o \in Ops : Keeps(Granted(o))
<1> SUFFICES ASSUME NEW o \in Ops, TypeOK, TimerInv, AlarmInv, Granted(o),
                    \A p \in Ops : JobOf(p) /\ FreshOf(p) /\ LeaseOf(p) /\ SweepOf(p)
             PROVE  UpkeepInv'
  BY DEF Keeps, UpkeepInv
<1>1. TypeOK' /\ TimerInv' /\ AlarmInv'
  BY DEF TypeOK, Time, TimerInv, AlarmInv, Granted, Timer, reaping
<1>4. ASSUME NEW p \in Ops PROVE JobOf(p)'
  BY DEF TypeOK, Never, JobOf, Granted, Timer
<1>5. ASSUME NEW p \in Ops PROVE FreshOf(p)'
  BY DEF Never, JobOf, FreshOf, Granted, Timer
<1>6. ASSUME NEW p \in Ops PROVE LeaseOf(p)'
  BY DEF LeaseOf, Granted, Timer
<1>7. ASSUME NEW p \in Ops PROVE SweepOf(p)'
  BY DEF TypeOK, RowType, Time, Never, SweepOf, Granted, vouching, reaping
<1> QED
  BY <1>1, <1>4, <1>5, <1>6, <1>7 DEF UpkeepInv

\* A job that moves its row on writes it now (_transitionLocked).
LEMMA AdvancePreserves == \A o \in Ops : Keeps(Advance(o))
<1> SUFFICES ASSUME NEW o \in Ops, TypeOK, TimerInv, AlarmInv, Advance(o),
                    \A p \in Ops : JobOf(p) /\ FreshOf(p) /\ LeaseOf(p) /\ SweepOf(p)
             PROVE  UpkeepInv'
  BY DEF Keeps, UpkeepInv
<1>1. PICK r \in RowType :
        /\ row' = [row EXCEPT ![o] = r]
        /\ \/ IsActive(r) /\ r.created = row[o].created /\ r.touched = now /\ job' = job
           \/ ~IsActive(r) /\ job' = [job EXCEPT ![o] = "gone"]
  <2>1. CASE row' = [row EXCEPT ![o] = Moved(@, After[@.stage])] /\ job' = job
    <3>1. After[row[o].stage] \in Active
      BY DEF Advance, After, IsActive, Active
    <3>2. /\ Moved(row[o], After[row[o].stage]) \in RowType
          /\ Moved(row[o], After[row[o].stage]).stage \in Active
          /\ Moved(row[o], After[row[o].stage]).created = row[o].created
          /\ Moved(row[o], After[row[o].stage]).touched = now
      BY <3>1, Zenon DEF Moved, TypeOK, RowType
    <3> QED
      BY <2>1, <3>2, UpkeepAssumption, Zenon DEF IsActive, rows, vouching, reaping
  <2>2. CASE row' = [row EXCEPT ![o] = Done] /\ job' = [job EXCEPT ![o] = "gone"]
    <3>1. Done \in RowType /\ ~IsActive(Done)
      BY UpkeepAssumption, Zenon
         DEF Done, NoRow, TypeOK, RowType, IsActive, Active, rows, vouching, reaping
    <3> QED
      BY <2>2, <3>1, UpkeepAssumption, Zenon DEF rows, vouching, reaping
  <2> QED
    BY <2>1, <2>2 DEF Advance
<1>2. /\ row' \in [Ops -> RowType] /\ row'[o] = r
      /\ \A p \in Ops \ {o} : row'[p] = row[p] /\ job'[p] = job[p]
  BY <1>1, UpkeepAssumption DEF TypeOK, rows, vouching, reaping
<1>3. job[o] = "slot" /\ job'[o] \in {"slot", "gone"} /\ IsActive(row[o])
  BY DEF Advance, TypeOK
<1>4. UNCHANGED <<now, queuedAt, lane, beatAt, beat, todo, lapsed, reapAt, reap, snap, cutoff>>
  BY UpkeepAssumption DEF Advance, rows, vouching, reaping
<1>5. TypeOK' /\ TimerInv' /\ AlarmInv'
  BY <1>1, <1>4 DEF TypeOK, TimerInv, AlarmInv
<1>7. ASSUME NEW p \in Ops, p # o PROVE JobOf(p)' /\ FreshOf(p)' /\ LeaseOf(p)' /\ SweepOf(p)'
  BY <1>2, <1>4, <1>7 DEF JobOf, FreshOf, LeaseOf, SweepOf, vouching, reaping
<1>8. JobOf(o)' /\ FreshOf(o)' /\ LeaseOf(o)'
  BY <1>1, <1>3, <1>4 DEF TypeOK, JobOf, FreshOf, LeaseOf
<1>9. SweepOf(o)'
  BY <1>1, <1>2, <1>3, <1>4 DEF SweepOf
<1> QED
  BY <1>5, <1>7, <1>8, <1>9, UpkeepAssumption DEF UpkeepInv, rows, vouching, reaping

\* A job that ends leaves no active row and no waiter (endExecutionWait, endQueuedWait).
LEMMA EndJobPreserves == \A o \in Ops : Keeps(EndJob(o))
<1> SUFFICES ASSUME NEW o \in Ops, TypeOK, TimerInv, AlarmInv, EndJob(o),
                    \A p \in Ops : JobOf(p) /\ FreshOf(p) /\ LeaseOf(p) /\ SweepOf(p)
             PROVE  UpkeepInv'
  BY DEF Keeps, UpkeepInv
<1>1. TypeOK'
  BY UpkeepAssumption, Zenon
     DEF TypeOK, RowType, Time, Never, Active, IsActive, EndJob, Failed, NoRow, Timer, rows,
         vouching, reaping
<1>2. TimerInv' /\ AlarmInv'
  BY DEF TimerInv, AlarmInv, EndJob, Failed, Timer, reaping
<1>4. ASSUME NEW p \in Ops PROVE JobOf(p)'
  BY DEF TypeOK, Never, JobOf, EndJob, Failed, NoRow, Timer
<1>5. ASSUME NEW p \in Ops PROVE FreshOf(p)'
  BY DEF TypeOK, Never, FreshOf, EndJob, Failed, Timer
<1>6. ASSUME NEW p \in Ops PROVE LeaseOf(p)'
  BY DEF Never, LeaseOf, IsActive, Active, EndJob, Failed, Timer
<1>7. ASSUME NEW p \in Ops PROVE SweepOf(p)'
  BY DEF TypeOK, Never, SweepOf, IsActive, Active, EndJob, Failed, Timer, rows, reaping
<1> QED
  BY <1>1, <1>2, <1>4, <1>5, <1>6, <1>7 DEF UpkeepInv

\* A touch only makes rows younger, and none past its lease (touchOperation).
LEMMA BeatTouchPreserves == \A o \in Ops : Keeps(BeatTouch(o))
<1> SUFFICES ASSUME NEW o \in Ops, TypeOK, TimerInv, AlarmInv, BeatTouch(o),
                    \A p \in Ops : JobOf(p) /\ FreshOf(p) /\ LeaseOf(p) /\ SweepOf(p)
             PROVE  UpkeepInv'
  BY DEF Keeps, UpkeepInv
<1>1. TypeOK' /\ TimerInv'
  BY UpkeepAssumption
     DEF TypeOK, RowType, Active, IsActive, TimerInv, JobOf, BeatTouch, Touch, reaping
<1>3. AlarmInv'
  BY UpkeepAssumption DEF TypeOK, AlarmInv, BeatTouch, Touch, rows, vouching, reaping
<1>4. ASSUME NEW p \in Ops PROVE JobOf(p)'
  BY DEF TypeOK, JobOf, BeatTouch, Touch
<1>5. ASSUME NEW p \in Ops PROVE FreshOf(p)'
  BY UpkeepAssumption DEF TypeOK, Time, Never, FreshOf, BeatTouch, Touch, rows, vouching
<1>6. ASSUME NEW p \in Ops PROVE LeaseOf(p)'
  BY DEF TypeOK, LeaseOf, BeatTouch, Touch
<1>7. ASSUME NEW p \in Ops PROVE SweepOf(p)'
  BY UpkeepAssumption
     DEF TypeOK, Never, SweepOf, AlarmInv, IsActive, BeatTouch, Touch, rows, reaping
<1> QED
  BY <1>1, <1>3, <1>4, <1>5, <1>6, <1>7 DEF UpkeepInv

\* The reaper fails a row it may fail, or stands down (transitionIfStage).
LEMMA ReapOnePreserves == \A o \in Ops : Keeps(ReapOne(o))
<1> SUFFICES ASSUME NEW o \in Ops, TypeOK, TimerInv, AlarmInv, ReapOne(o),
                    \A p \in Ops : JobOf(p) /\ FreshOf(p) /\ LeaseOf(p) /\ SweepOf(p)
             PROVE  UpkeepInv'
  BY DEF Keeps, UpkeepInv
<1>1. TypeOK'
  BY UpkeepAssumption
     DEF TypeOK, RowType, Time, Active, IsActive, ReapOne, StandsDown, Failed, NoRow, vouching,
         reaping
<1>2. TimerInv' /\ AlarmInv'
  BY DEF TimerInv, AlarmInv, ReapOne, Failed, vouching
<1>4. ASSUME NEW p \in Ops PROVE JobOf(p)'
  <2>1. row'[p] = row[p] \/ ~IsActive(row'[p])
    BY DEF TypeOK, IsActive, Active, ReapOne, Failed, NoRow, rows
  <2> QED
    BY <2>1 DEF JobOf, ReapOne, Failed, vouching
<1>5. ASSUME NEW p \in Ops PROVE FreshOf(p)'
  BY DEF TypeOK, Never, FreshOf, IsActive, Active, ReapOne, Failed, NoRow, vouching
<1>6. ASSUME NEW p \in Ops PROVE LeaseOf(p)'
  BY DEF TypeOK, LeaseOf, IsActive, Active, ReapOne, Failed, NoRow, vouching
<1>7. ASSUME NEW p \in Ops PROVE SweepOf(p)'
  BY UpkeepAssumption
     DEF TypeOK, SweepOf, IsActive, Active, ReapOne, StandsDown, Failed, NoRow, rows
<1> QED
  BY <1>1, <1>2, <1>4, <1>5, <1>6, <1>7 DEF UpkeepInv

\* The eviction of an old row concerns no job that is running (sweep of gc.ts).
LEMMA EvictPreserves == \A o \in Ops : Keeps(Evict(o))
<1> SUFFICES ASSUME NEW o \in Ops, TypeOK, TimerInv, AlarmInv, Evict(o),
                    \A p \in Ops : JobOf(p) /\ FreshOf(p) /\ LeaseOf(p) /\ SweepOf(p)
             PROVE  UpkeepInv'
  BY DEF Keeps, UpkeepInv
<1>1. TypeOK' /\ TimerInv' /\ AlarmInv'
  BY DEF TypeOK, RowType, TimerInv, AlarmInv, Evict, NoRow, vouching, reaping
<1>4. ASSUME NEW p \in Ops PROVE JobOf(p)'
  BY DEF Never, JobOf, IsActive, Active, Evict, NoRow, rows, vouching
<1>5. ASSUME NEW p \in Ops PROVE FreshOf(p)'
  BY DEF TypeOK, Time, Never, FreshOf, IsActive, Active, Evict, NoRow, rows, vouching
<1>6. ASSUME NEW p \in Ops PROVE LeaseOf(p)'
  BY DEF TypeOK, Time, Never, LeaseOf, IsActive, Active, Evict, NoRow, vouching
<1>7. ASSUME NEW p \in Ops PROVE SweepOf(p)'
  BY DEF TypeOK, RowType, Time, Never, SweepOf, IsActive, Active, Evict, NoRow, reaping
<1> QED
  BY <1>1, <1>4, <1>5, <1>6, <1>7 DEF UpkeepInv

\* A heartbeat that starts takes the waiters of the lane (heartbeatExecutionWaiters).
LEMMA BeatStartPreserves == Keeps(BeatStart)
<1> SUFFICES ASSUME TypeOK, TimerInv, AlarmInv, BeatStart,
                    \A p \in Ops : JobOf(p) /\ FreshOf(p) /\ LeaseOf(p) /\ SweepOf(p)
             PROVE  UpkeepInv'
  BY DEF Keeps, UpkeepInv
<1>1. TypeOK' /\ TimerInv' /\ AlarmInv'
  BY DEF TypeOK, Time, Never, TimerInv, AlarmInv, BeatStart, rows, reaping
<1>4. ASSUME NEW p \in Ops PROVE JobOf(p)'
  BY DEF JobOf, Active, BeatStart, rows
<1>5. ASSUME NEW p \in Ops PROVE FreshOf(p)'
  BY UpkeepAssumption
     DEF TypeOK, RowType, Time, Never, FreshOf, TimerInv, Active, BeatStart, rows
<1>6. ASSUME NEW p \in Ops PROVE LeaseOf(p)'
  BY DEF JobOf, LeaseOf, BeatStart, rows
<1>7. ASSUME NEW p \in Ops PROVE SweepOf(p)'
  BY DEF TypeOK, Time, Never, SweepOf, BeatStart, rows, vouching, reaping
<1> QED
  BY <1>1, <1>4, <1>5, <1>6, <1>7 DEF UpkeepInv

\* The second loop leaves out the waiters whose lease is over (heartbeatExecutionWaiters).
LEMMA BeatQueuedPreserves == Keeps(BeatQueued)
<1> SUFFICES ASSUME TypeOK, TimerInv, AlarmInv, BeatQueued,
                    \A p \in Ops : JobOf(p) /\ FreshOf(p) /\ LeaseOf(p) /\ SweepOf(p)
             PROVE  UpkeepInv'
  BY DEF Keeps, UpkeepInv
<1>1. TypeOK' /\ TimerInv' /\ AlarmInv'
  BY DEF TypeOK, Time, Never, TimerInv, AlarmInv, BeatQueued, rows, vouching, reaping
<1>4. ASSUME NEW p \in Ops PROVE JobOf(p)'
  BY DEF Never, JobOf, BeatQueued, rows
<1>5. ASSUME NEW p \in Ops PROVE FreshOf(p)'
  BY DEF Never, FreshOf, BeatQueued, rows
<1>6. ASSUME NEW p \in Ops PROVE LeaseOf(p)'
  BY UpkeepAssumption DEF TypeOK, Time, Never, JobOf, LeaseOf, BeatQueued, rows, vouching
<1>7. ASSUME NEW p \in Ops PROVE SweepOf(p)'
  BY DEF TypeOK, Never, SweepOf, BeatQueued, rows, reaping
<1> QED
  BY <1>1, <1>4, <1>5, <1>6, <1>7 DEF UpkeepInv

\* After a heartbeat every queued waiter has just been touched (heartbeatExecutionWaiters).
LEMMA BeatEndPreserves == Keeps(BeatEnd)
<1> SUFFICES ASSUME TypeOK, TimerInv, AlarmInv, BeatEnd,
                    \A p \in Ops : JobOf(p) /\ FreshOf(p) /\ LeaseOf(p) /\ SweepOf(p)
             PROVE  UpkeepInv'
  BY DEF Keeps, UpkeepInv
<1>1. TypeOK' /\ TimerInv' /\ AlarmInv'
  BY DEF TypeOK, Time, TimerInv, AlarmInv, BeatEnd, Timer, rows, reaping
<1>4. ASSUME NEW p \in Ops PROVE JobOf(p)'
  BY DEF JobOf, BeatEnd, rows
<1>5. ASSUME NEW p \in Ops PROVE FreshOf(p)'
  BY UpkeepAssumption
     DEF TypeOK, RowType, Time, Never, FreshOf, TimerInv, Active, BeatEnd, Timer, rows
<1>6. ASSUME NEW p \in Ops PROVE LeaseOf(p)'
  BY DEF LeaseOf, BeatEnd, rows
<1>7. ASSUME NEW p \in Ops PROVE SweepOf(p)'
  BY DEF TypeOK, RowType, Never, SweepOf, BeatEnd, rows, reaping
<1> QED
  BY <1>1, <1>4, <1>5, <1>6, <1>7 DEF UpkeepInv

\* A sweep reads rows that are stale, or of dead jobs (reap, shouldSkipRecord).
LEMMA ReapStartPreserves == Keeps(ReapStart)
<1> SUFFICES ASSUME TypeOK, TimerInv, AlarmInv, ReapStart,
                    \A p \in Ops : JobOf(p) /\ FreshOf(p) /\ LeaseOf(p) /\ SweepOf(p)
             PROVE  UpkeepInv'
  BY DEF Keeps, UpkeepInv
<1>1. TypeOK'
  <2>1. NoRow \in RowType /\ reapAt' \in Nat /\ reap' \in {"all", "stale"}
    BY UpkeepAssumption DEF RowType, TypeOK, ReapStart, NoRow
  <2>2. snap' \in [Ops -> RowType]
    BY <2>1 DEF TypeOK, ReapStart
  <2> QED
    BY <2>1 DEF TypeOK, ReapStart, rows, vouching
<1>2. TimerInv'
  BY DEF TimerInv, ReapStart, vouching, reaping
<1>3. AlarmInv'
  BY UpkeepAssumption DEF TypeOK, AlarmInv, ReapStart
<1>4. ASSUME NEW p \in Ops PROVE JobOf(p)'
  BY DEF RowType, JobOf, ReapStart, rows, vouching
<1>5. ASSUME NEW p \in Ops PROVE FreshOf(p)'
  BY DEF RowType, FreshOf, ReapStart, rows, vouching
<1>6. ASSUME NEW p \in Ops PROVE LeaseOf(p)'
  BY DEF LeaseOf, ReapStart, rows, vouching
<1>7. ASSUME NEW p \in Ops PROVE SweepOf(p)'
  <2>1. /\ now \in Nat /\ reapAt \in Nat /\ ReapPeriod \in Nat \ {0} /\ row[p] \in RowType
        /\ row' = row /\ job' = job /\ now' = now /\ ~IsActive(NoRow)
    BY UpkeepAssumption DEF TypeOK, IsActive, Active, ReapStart, NoRow, rows
  <2>2. IsActive(row[p]) => /\ row[p].touched \in Nat /\ row[p].created \in Nat
                            /\ Grace[row[p].stage] \in Nat /\ row[p].touched <= now
    BY <2>1, UpkeepAssumption DEF RowType, IsActive, JobOf
  <2>3. CASE reap = "boot"
    <3>1. reap' = "all" /\ snap'[p] = (IF Skipped("all", row[p]) THEN NoRow ELSE row[p])
      BY <2>3 DEF ReapStart
    <3>2. IsActive(snap'[p]) => job[p] = "gone"
      BY <2>1, <2>3, <3>1 DEF SweepOf, Skipped
    <3> QED
      BY <2>1, <2>3 DEF SweepOf, ReapStart, Skipped
  <2>4. CASE reap = "idle"
    <3>1. /\ reap' = "stale" /\ reapAt = now /\ reapAt' = now + ReapPeriod
          /\ snap'[p] = IF Skipped("stale", row[p]) THEN NoRow ELSE row[p]
      BY <2>1, <2>4 DEF AlarmInv, ReapStart
    <3>2. IsActive(snap'[p]) => snap'[p] = row[p] /\ row[p].touched + Grace[row[p].stage] <= now
      BY <2>1, <2>2, <3>1 DEF Skipped
    <3>3. ~IsActive(snap'[p]) /\ IsActive(row[p]) => now < row[p].touched + Grace[row[p].stage]
      BY <2>1, <2>2, <3>1 DEF Skipped
    <3>4. IsActive(row[p]) /\ job[p] = "waiting" => now < row[p].touched + Grace[row[p].stage] + ReapPeriod
      BY <2>4, <3>1 DEF SweepOf
    <3> QED
      BY <2>1, <3>1, <3>2, <3>3, <3>4, Zenon DEF SweepOf
  <2> QED
    BY <2>3, <2>4 DEF ReapStart
<1> QED
  BY <1>1, <1>2, <1>3, <1>4, <1>5, <1>6, <1>7, Zenon DEF UpkeepInv

\* After a sweep no row is left that was due (reap).
LEMMA ReapEndPreserves == Keeps(ReapEnd)
<1> SUFFICES ASSUME TypeOK, TimerInv, AlarmInv, ReapEnd,
                    \A p \in Ops : JobOf(p) /\ FreshOf(p) /\ LeaseOf(p) /\ SweepOf(p)
             PROVE  UpkeepInv'
  BY DEF Keeps, UpkeepInv
<1>1. TypeOK' /\ TimerInv' /\ AlarmInv'
  BY DEF TypeOK, Never, TimerInv, AlarmInv, ReapEnd, rows, vouching
<1>4. ASSUME NEW p \in Ops PROVE JobOf(p)'
  BY DEF JobOf, ReapEnd, rows, vouching
<1>5. ASSUME NEW p \in Ops PROVE FreshOf(p)'
  BY DEF Never, FreshOf, ReapEnd, rows, vouching
<1>6. ASSUME NEW p \in Ops PROVE LeaseOf(p)'
  BY DEF LeaseOf, ReapEnd, rows, vouching
<1>7. ASSUME NEW p \in Ops PROVE SweepOf(p)'
  <2>1. reap' = "idle" /\ row' = row /\ job' = job /\ snap' = snap /\ reapAt' = reapAt
    BY UpkeepAssumption DEF ReapEnd, rows, vouching, reaping
  <2>2. /\ now \in Nat /\ ReapPeriod \in Nat \ {0} /\ reapAt = now + ReapPeriod
        /\ ~IsActive(snap[p]) /\ reap \in {"all", "stale"}
    BY UpkeepAssumption DEF TypeOK, AlarmInv, ReapEnd, rows, vouching, reaping
  <2>3. ASSUME IsActive(row[p]), job[p] = "waiting"
        PROVE  reapAt < row[p].touched + Grace[row[p].stage] + ReapPeriod
    <3>1. row[p].touched \in Nat /\ Grace[row[p].stage] \in Nat /\ Grace[row[p].stage] > 0
      BY <2>3, UpkeepAssumption DEF TypeOK, RowType, IsActive
    <3>2. now < row[p].touched + Grace[row[p].stage]
      BY <2>3, <3>1 DEF SweepOf, ReapEnd
    <3> QED
      BY <2>2, <3>1, <3>2
  <2> QED
    BY <2>1, <2>3 DEF SweepOf
<1> QED
  BY <1>1, <1>4, <1>5, <1>6, <1>7 DEF UpkeepInv

\* The purge of a network leaves nothing to vouch for or to reap (clearChainState).
LEMMA PurgePreserves == Keeps(Purge)
<1> SUFFICES ASSUME TypeOK, TimerInv, AlarmInv, Purge,
                    \A p \in Ops : JobOf(p) /\ FreshOf(p) /\ LeaseOf(p) /\ SweepOf(p)
             PROVE  UpkeepInv'
  BY DEF Keeps, UpkeepInv
<1>1. TypeOK' /\ TimerInv' /\ AlarmInv'
  BY DEF TypeOK, RowType, Time, Never, IsActive, TimerInv, AlarmInv, Purge, NoRow, vouching,
         reaping
<1>4. ASSUME NEW p \in Ops PROVE JobOf(p)'
  BY DEF Never, JobOf, IsActive, Active, Purge, NoRow, rows, vouching
<1>5. ASSUME NEW p \in Ops PROVE FreshOf(p)'
  BY DEF Time, Never, FreshOf, IsActive, Active, Purge, NoRow, rows
<1>6. ASSUME NEW p \in Ops PROVE LeaseOf(p)'
  BY DEF Never, LeaseOf, IsActive, Active, Purge, NoRow, vouching
<1>7. ASSUME NEW p \in Ops PROVE SweepOf(p)'
  BY DEF TypeOK, Never, SweepOf, IsActive, Active, Purge, NoRow, reaping
<1> QED
  BY <1>1, <1>4, <1>5, <1>6, <1>7 DEF UpkeepInv

\* A new worker finds rows that are all older than its cutoff (armPostStartWork).
LEMMA KillPreserves == Keeps(Kill)
<1> SUFFICES ASSUME TypeOK, TimerInv, AlarmInv, Kill,
                    \A p \in Ops : JobOf(p) /\ FreshOf(p) /\ LeaseOf(p) /\ SweepOf(p)
             PROVE  UpkeepInv'
  BY DEF Keeps, UpkeepInv
<1>1. TypeOK' /\ TimerInv'
  BY UpkeepAssumption DEF TypeOK, RowType, Time, Never, TimerInv, Kill, NoRow, rows
<1>3. AlarmInv'
  BY DEF TypeOK, AlarmInv, Kill
<1>4. ASSUME NEW p \in Ops PROVE JobOf(p)'
  BY DEF Never, JobOf, Kill
<1>5. ASSUME NEW p \in Ops PROVE FreshOf(p)'
  BY DEF Never, FreshOf, Kill
<1>6. ASSUME NEW p \in Ops PROVE LeaseOf(p)'
  BY DEF Never, LeaseOf, Kill
<1>7. ASSUME NEW p \in Ops PROVE SweepOf(p)'
  BY Zenon DEF TypeOK, Time, Never, JobOf, SweepOf, Kill
<1> QED
  BY <1>1, <1>3, <1>4, <1>5, <1>6, <1>7 DEF UpkeepInv

\* Time passes only when no timer and no alarm is due (setInterval, the alarms).
LEMMA TickPreserves == Keeps(Tick)
<1> SUFFICES ASSUME TypeOK, TimerInv, AlarmInv, Tick,
                    \A p \in Ops : JobOf(p) /\ FreshOf(p) /\ LeaseOf(p) /\ SweepOf(p)
             PROVE  UpkeepInv'
  BY DEF Keeps, UpkeepInv
<1>1. TypeOK' /\ TimerInv' /\ AlarmInv'
  BY UpkeepAssumption DEF TypeOK, Time, TimerInv, AlarmInv, Tick, rows, vouching, reaping
<1>4. ASSUME NEW p \in Ops PROVE JobOf(p)'
  BY DEF TypeOK, RowType, JobOf, Tick, rows, vouching
<1>5. ASSUME NEW p \in Ops PROVE FreshOf(p)'
  BY DEF Never, FreshOf, Tick, rows, vouching
<1>6. ASSUME NEW p \in Ops PROVE LeaseOf(p)'
  BY DEF Never, LeaseOf, Tick, rows, vouching
<1>7. ASSUME NEW p \in Ops PROVE SweepOf(p)'
  BY DEF TypeOK, Time, Never, SweepOf, Tick, rows, reaping
<1> QED
  BY <1>1, <1>4, <1>5, <1>6, <1>7 DEF UpkeepInv

-----------------------------------------------------------------------------
\* Nothing is vouched for or swept before the first operation (runtime.ts).
LEMMA InitInv == Init => UpkeepInv
<1> SUFFICES ASSUME Init PROVE UpkeepInv
  OBVIOUS
<1>1. TypeOK /\ TimerInv /\ AlarmInv
  BY UpkeepAssumption DEF TypeOK, RowType, Time, Never, TimerInv, AlarmInv, Init, NoRow
<1>3. \A o \in Ops : JobOf(o) /\ FreshOf(o) /\ LeaseOf(o) /\ SweepOf(o)
  BY DEF JobOf, FreshOf, LeaseOf, SweepOf, IsActive, Active, Init, NoRow
<1> QED
  BY <1>1, <1>3, UpkeepAssumption DEF UpkeepInv, Init, NoRow

\* UpkeepInv holds of every reachable state.
THEOREM UpkeepInvariant == Spec => []UpkeepInv
<1>1. UpkeepInv /\ [Next]_vars => UpkeepInv'
  <2> SUFFICES ASSUME UpkeepInv, [Next]_vars PROVE UpkeepInv'
    OBVIOUS
  <2>1. ASSUME NEW o \in Ops, Step(o) PROVE UpkeepInv'
    BY <2>1, EnqueuePreserves, FastForwardPreserves, EnterLanePreserves, GrantedPreserves,
       AdvancePreserves, EndJobPreserves, BeatTouchPreserves, ReapOnePreserves, EvictPreserves
    DEF Step, Keeps
  <2>2. CASE UNCHANGED vars
    <3>1. TypeOK' /\ TimerInv' /\ AlarmInv'
      BY <2>2 DEF TypeOK, TimerInv, AlarmInv, vars, rows, vouching, reaping, UpkeepInv
    <3>3. ASSUME NEW o \in Ops PROVE JobOf(o)' /\ FreshOf(o)' /\ LeaseOf(o)' /\ SweepOf(o)'
      <4>1. JobOf(o)' /\ FreshOf(o)'
        BY <2>2, Zenon DEF JobOf, FreshOf, vars, rows, vouching, reaping, UpkeepInv
      <4>2. LeaseOf(o)' /\ SweepOf(o)'
        BY <2>2, Zenon DEF LeaseOf, SweepOf, vars, rows, vouching, reaping, UpkeepInv
      <4> QED
        BY <4>1, <4>2, <2>2 DEF vars, rows, vouching, reaping, UpkeepInv
    <3> QED
      BY <3>1, <3>3, <2>2 DEF vars, rows, vouching, reaping, UpkeepInv
  <2> QED
    BY <2>1, <2>2, BeatStartPreserves, BeatQueuedPreserves, BeatEndPreserves, ReapStartPreserves,
       ReapEndPreserves, PurgePreserves, KillPreserves, TickPreserves
    DEF Next, Keeps
<1> QED
  BY <1>1, InitInv, PTL DEF Spec

\* A row that somebody vouches for is never old enough to be reaped, for every
\* heartbeat and every grace longer than two of them (execution-lane.ts
\* heartbeatExecutionWaiters, beginExecutionWait).
THEOREM UpkeepVouchedStaysFresh == Spec => []VouchedStaysFresh
<1>1. UpkeepInv => VouchedStaysFresh
  <2> SUFFICES ASSUME UpkeepInv, NEW o \in Ops, IsActive(row[o]), o \notin lapsed,
                      queuedAt[o] # Never \/ o \in lane
               PROVE  now - row[o].touched < Grace[row[o].stage]
    BY DEF VouchedStaysFresh
  <2>1. /\ now \in Nat /\ row[o].touched \in Nat /\ row[o].stage \in Active
        /\ Grace[row[o].stage] \in Nat /\ Grace[row[o].stage] > 2 * Beat /\ Beat \in Nat
    BY UpkeepAssumption DEF UpkeepInv, TypeOK, RowType, IsActive
  <2>2. now <= row[o].touched + 2 * Beat
    <3>1. beatAt \in Int /\ now <= beatAt
      BY DEF UpkeepInv, TypeOK, TimerInv, Time, Never
    <3>2. CASE queuedAt[o] # Never
      <4>1. /\ beat = "idle" => beatAt <= row[o].touched + Beat
            /\ beat # "idle" => now <= row[o].touched + Beat
        BY <3>2 DEF UpkeepInv, FreshOf
      <4>2. \A t \in Nat : now <= t + Beat => now <= t + 2 * Beat
        BY <2>1
      <4>3. now <= row[o].touched + Beat
        BY <2>1, <3>1, <4>1
      <4> QED
        BY <2>1, <4>2, <4>3
    <3>3. CASE o \in lane
      <4>1. /\ beat = "idle" => beatAt <= row[o].touched + 2 * Beat
            /\ beat # "idle" => now <= row[o].touched + 2 * Beat
        BY <3>3 DEF UpkeepInv, FreshOf
      <4> QED
        BY <2>1, <3>1, <4>1
    <3> QED
      BY <3>2, <3>3
  <2> QED
    BY <2>1, <2>2
<1> QED
  BY <1>1, UpkeepInvariant, PTL

\* A send that never leaves the queue is failed within the lease, its grace
\* and a period of the alarm, for all values of the three (reaper.ts reap,
\* execution-lane.ts heartbeatExecutionWaiters).
THEOREM UpkeepHungQueueResolved == Spec => []HungQueueResolved
<1>1. UpkeepInv => HungQueueResolved
  <2> SUFFICES ASSUME UpkeepInv, NEW o \in Ops, row[o].stage = "queued", job[o] = "waiting"
               PROVE  now - row[o].created < Lease + Grace["queued"] + ReapPeriod
    BY DEF HungQueueResolved
  <2>1. /\ now \in Nat /\ row[o].touched \in Nat /\ row[o].created \in Nat /\ reapAt \in Nat
        /\ Grace["queued"] \in Nat /\ Lease \in Nat /\ ReapPeriod \in Nat \ {0}
        /\ Grace["queued"] > 0
    BY UpkeepAssumption DEF UpkeepInv, TypeOK, RowType, Active
  <2>2. row[o].touched <= row[o].created + Lease
    BY DEF UpkeepInv, LeaseOf, IsActive, Active
  <2>3. now < row[o].touched + Grace["queued"] + ReapPeriod
    BY <2>1 DEF UpkeepInv, TypeOK, AlarmInv, SweepOf, IsActive, Active
  <2> QED
    BY <2>1, <2>2, <2>3
<1> QED
  BY <1>1, UpkeepInvariant, PTL

\* A sweep fails only rows that were left alone for their whole grace, or whose
\* job died with its worker (reaper.ts reap, transitionIfStage).
THEOREM UpkeepReapsOnlyStale == Spec => ReapsOnlyStale
<1> DEFINE Reaped(o) == IsActive(row[o]) /\ row'[o].stage = "failed" /\ snap'[o] # snap[o]
           Stale(o) == \/ now - row[o].touched >= Grace[row[o].stage]
                       \/ reap = "all" /\ job[o] = "gone"
<1>1. ASSUME UpkeepInv, Next, NEW o \in Ops, Reaped(o) PROVE Stale(o)
  <2>1. row[o].stage # "failed" /\ row'[o] # row[o]
    BY <1>1 DEF IsActive, Active
  <2>2. PICK p \in Ops : ReapOne(p)
    BY <1>1, <2>1, Zenon
       DEF Next, Step, Enqueue, FastForward, EnterLane, Granted, Advance, EndJob, BeatTouch,
           Evict, BeatStart, BeatQueued, BeatEnd, ReapStart, ReapEnd, Purge, Kill, Tick, rows,
           reaping
  <2>3. p = o
    BY <1>1, <2>2 DEF ReapOne
  <2>4. IsActive(snap[o]) /\ ~StandsDown(o) /\ reap \in {"all", "stale"}
    BY <2>1, <2>2, <2>3 DEF ReapOne
  <2>5. CASE reap = "all"
    BY <1>1, <2>4, <2>5 DEF UpkeepInv, SweepOf
  <2>6. CASE reap = "stale"
    <3>1. snap[o].touched + Grace[snap[o].stage] <= now
      BY <1>1, <2>4, <2>6 DEF UpkeepInv, SweepOf
    <3>2. row[o].touched = snap[o].touched /\ row[o].stage = snap[o].stage
      BY <2>4, <2>6 DEF StandsDown
    <3>3. now \in Nat /\ row[o].touched \in Nat /\ Grace[row[o].stage] \in Nat
      BY <1>1, UpkeepAssumption DEF UpkeepInv, TypeOK, RowType, IsActive
    <3> QED
      BY <3>1, <3>2, <3>3
  <2> QED
    BY <2>4, <2>5, <2>6, Zenon
<1>2. UpkeepInv /\ [Next]_vars => [\A o \in Ops : Reaped(o) => Stale(o)]_vars
  BY <1>1, Zenon
<1> QED
  BY <1>2, UpkeepInvariant, PTL DEF Spec, ReapsOnlyStale

-----------------------------------------------------------------------------
(* Lock.                                                                   *)

\* The queue holds each waiting call once, and a lock without a watchdog has
\* no timeout.
QueueInv ==
    /\ \A i \in 1 .. Len(queue) : pc[queue[i]] = "waiting"
    /\ \A i, j \in 1 .. Len(queue) : queue[i] = queue[j] => i = j
    /\ ~Watchdog => forceReleaseTimer = NoTicket

\* The inductive invariant.  MutualExclusion needs to know that the call that
\* dispatch() grants was waiting, WatchdogOfCurrent that leave() clears the
\* timeout of the ticket it gives back.
LockInv == LockTypes /\ QueueInv /\ NoLostWakeup /\ MutualExclusion /\ WatchdogOfCurrent

-----------------------------------------------------------------------------
\* The conjuncts of LockInv over the values that a step hands to dispatch(): the
\* lock as it is between the assignments of enter(), leave() or the watchdog's
\* callback and the call of dispatch().
Ready(q, isLocked, current, field, pending, where) ==
    /\ q \in Seq(Calls)
    /\ isLocked \in BOOLEAN
    /\ current \in Calls \cup {NoTicket}
    /\ field \in Calls \cup {NoTicket}
    /\ where \in [Calls -> {"idle", "waiting", "inside", "displaced", "left"}]
    /\ \A i \in 1 .. Len(q) : where[q[i]] = "waiting"
    /\ \A i, j \in 1 .. Len(q) : q[i] = q[j] => i = j
    /\ isLocked <=> current # NoTicket
    /\ \A c \in Calls : where[c] = "inside" <=> c = current
    /\ ~Watchdog => \A c \in Calls : where[c] # "displaced"
    /\ pending = IF field = NoTicket THEN {} ELSE {field}
    /\ field # NoTicket => field = current
    /\ ~Watchdog => field = NoTicket

\* dispatch() re-establishes the invariant from any state in which it is called
\* (lock.ts dispatch, with the watchdog armed or not).
LEMMA DispatchPreserves ==
    ASSUME NEW q, NEW isLocked, NEW current, NEW field, NEW pending, NEW where,
           Ready(q, isLocked, current, field, pending, where),
           Dispatch(q, isLocked, current, field, pending, where)
    PROVE  LockInv'
<1> USE LockAssumption DEF Ready
<1>1. CASE ~isLocked /\ q # <<>>
  <2>1. /\ q \in Seq(Calls) /\ q # <<>>
        /\ Head(q) = q[1] /\ Head(q) \in Calls /\ 1 \in 1 .. Len(q)
        /\ Tail(q) \in Seq(Calls) /\ Len(Tail(q)) = Len(q) - 1
        /\ \A i \in 1 .. Len(Tail(q)) : Tail(q)[i] = q[i + 1] /\ i + 1 \in 1 .. Len(q)
    BY <1>1
  <2>2. /\ locked' = TRUE /\ currentTicket' = Head(q) /\ queue' = Tail(q)
        /\ pc' = [where EXCEPT ![Head(q)] = "inside"]
        /\ Arm(Head(q), field, pending)
    BY <1>1 DEF Dispatch
  <2>3. field = NoTicket /\ pending = {} /\ MutualExclusion'
    BY <1>1, <2>1, <2>2 DEF MutualExclusion
  <2>4. /\ forceReleaseTimer' \in {Head(q), NoTicket}
        /\ timers' = IF forceReleaseTimer' = NoTicket THEN {} ELSE {forceReleaseTimer'}
        /\ ~Watchdog => forceReleaseTimer' = NoTicket
    BY <2>1, <2>2, <2>3 DEF Arm
  <2>5. \A i \in 1 .. Len(Tail(q)) : Tail(q)[i] # Head(q)
    BY <2>1
  <2>6. LockTypes' /\ QueueInv'
    BY <2>1, <2>2, <2>4, <2>5 DEF LockTypes, QueueInv
  <2> QED
    BY <2>1, <2>2, <2>4, <2>6, <2>3 DEF LockInv, NoLostWakeup, WatchdogOfCurrent
<1>2. CASE ~(~isLocked /\ q # <<>>)
  <2>1. /\ locked' = isLocked /\ currentTicket' = current /\ queue' = q /\ pc' = where
        /\ forceReleaseTimer' = field /\ timers' = pending
    BY <1>2 DEF Dispatch
  <2> QED
    BY <1>2, <2>1
    DEF LockInv, LockTypes, QueueInv, NoLostWakeup, MutualExclusion, WatchdogOfCurrent
<1> QED
  BY <1>1, <1>2

\* enter() queues a resolver and dispatches: it preserves the invariant.
LEMMA EnterPreserves == ASSUME LockInv, NEW c \in Calls, Enter(c) PROVE LockInv'
<1> DEFINE q == Append(queue, c)
           where == [pc EXCEPT ![c] = "waiting"]
<1> USE DEF LockInv, LockTypes
<1>1. /\ q \in Seq(Calls) /\ Len(q) = Len(queue) + 1
      /\ \A i \in 1 .. Len(q) : q[i] = IF i <= Len(queue) THEN queue[i] ELSE c
  OBVIOUS
<1>2. \A i \in 1 .. Len(queue) : queue[i] # c
  BY DEF Enter, QueueInv
<1>3. \A i \in 1 .. Len(q) : where[q[i]] = "waiting"
  BY <1>1 DEF QueueInv
<1>4. \A i, j \in 1 .. Len(q) : q[i] = q[j] => i = j
  BY <1>1, <1>2 DEF QueueInv
<1>5. Ready(q, locked, currentTicket, forceReleaseTimer, timers, where)
  BY <1>1, <1>3, <1>4 DEF Ready, Enter, QueueInv, NoLostWakeup, MutualExclusion, WatchdogOfCurrent
<1> QED
  BY <1>5, DispatchPreserves DEF Enter

\* leave() ignores a displaced holder's ticket and otherwise hands over: it
\* preserves the invariant.
LEMMA LeavePreserves == ASSUME LockInv, NEW c \in Calls, Leave(c) PROVE LockInv'
<1> DEFINE where == [pc EXCEPT ![c] = "left"]
<1> USE LockAssumption DEF LockInv, LockTypes
<1>1. \A i \in 1 .. Len(queue) : queue[i] \in Calls /\ where[queue[i]] = "waiting"
  BY DEF Leave, QueueInv
<1>2. CASE currentTicket # c
  BY <1>1, <1>2 DEF Leave, QueueInv, NoLostWakeup, MutualExclusion, WatchdogOfCurrent
<1>3. CASE currentTicket = c
  <2>1. Ready(queue, FALSE, NoTicket, NoTicket, timers \ {forceReleaseTimer}, where)
    BY <1>1, <1>3 DEF Ready, Leave, QueueInv, NoLostWakeup, MutualExclusion, WatchdogOfCurrent
  <2> QED
    BY <2>1, <1>3, DispatchPreserves, Zenon DEF Leave
<1> QED
  BY <1>2, <1>3

\* The watchdog of the current holder fires and the next waiter is admitted:
\* it preserves the invariant.
LEMMA ForceReleasePreserves ==
    ASSUME LockInv, NEW c \in Calls, ForceRelease(c) PROVE LockInv'
<1> DEFINE where == [pc EXCEPT ![c] = "displaced"]
<1> USE LockAssumption DEF LockInv, LockTypes
<1>1. currentTicket = c /\ forceReleaseTimer = c /\ Watchdog
  BY DEF ForceRelease, QueueInv, WatchdogOfCurrent
<1>2. Ready(queue, FALSE, NoTicket, NoTicket, timers \ {c}, where)
  BY <1>1 DEF Ready, ForceRelease, QueueInv, NoLostWakeup, MutualExclusion, WatchdogOfCurrent
<1> QED
  BY <1>1, <1>2, DispatchPreserves, Zenon DEF ForceRelease

\* LockInv holds of every reachable state, whatever the number of calls.
THEOREM LockInvariant == LockSpec => []LockInv
<1>1. LockInit => LockInv
  <2> SUFFICES ASSUME LockInit PROVE LockInv
    OBVIOUS
  <2>1. queue \in Seq(Calls) /\ Len(queue) = 0
    BY DEF LockInit
  <2>2. LockTypes
    BY <2>1, Zenon DEF LockInit, LockTypes
  <2>3. QueueInv
    BY <2>1 DEF LockInit, QueueInv
  <2>4. NoLostWakeup /\ MutualExclusion /\ WatchdogOfCurrent
    BY LockAssumption DEF LockInit, NoLostWakeup, MutualExclusion, WatchdogOfCurrent
  <2> QED
    BY <2>2, <2>3, <2>4 DEF LockInv
<1>2. LockInv /\ [LockNext]_lockVars => LockInv'
  <2> SUFFICES ASSUME LockInv, [LockNext]_lockVars PROVE LockInv'
    OBVIOUS
  <2>1. CASE LockNext
    BY <2>1, EnterPreserves, LeavePreserves, ForceReleasePreserves DEF LockNext
  <2>2. CASE UNCHANGED lockVars
    BY <2>2 DEF lockVars, LockInv, LockTypes, QueueInv, NoLostWakeup, MutualExclusion,
       WatchdogOfCurrent
  <2> QED
    BY <2>1, <2>2
<1> QED
  BY <1>1, <1>2, PTL DEF LockSpec

\* Two critical sections overlap only when the watchdog displaced all but one.
THEOREM LockMutualExclusion == LockSpec => []MutualExclusion
BY LockInvariant, PTL DEF LockInv

\* No waiter is left behind on a free lock.
THEOREM LockNoLostWakeup == LockSpec => []NoLostWakeup
BY LockInvariant, PTL DEF LockInv

\* The pending timeout is always the current holder's own.
THEOREM LockWatchdogOfCurrent == LockSpec => []WatchdogOfCurrent
BY LockInvariant, PTL DEF LockInv

-----------------------------------------------------------------------------
\* A holder that gives the lock back, or that the watchdog displaces, makes a
\* release of the abstract mutex: the first waiter gets it, or nobody.
LEMMA HandOverIsRelease ==
    ASSUME LockInv, NEW c \in Calls, currentTicket = c, NEW pending, NEW where,
           Dispatch(queue, FALSE, NoTicket, NoTicket, pending, where)
    PROVE  Fifo!FifoNext
<1>1. currentTicket # NoTicket
  BY LockAssumption
<1>2. \/ currentTicket' = NoTicket /\ queue' = queue
      \/ queue # <<>> /\ currentTicket' = Head(queue) /\ queue' = Tail(queue)
  BY DEF Dispatch
<1>3. Fifo!Release
  BY <1>1, <1>2 DEF Fifo!Release
<1> QED
  BY <1>3 DEF Fifo!FifoNext

\* enter() is a request of the abstract mutex, granted at once when the lock
\* is free, for then nobody waits.
LEMMA EnterIsRequest == ASSUME LockInv, NEW c \in Calls, Enter(c) PROVE Fifo!FifoNext
<1> USE LockAssumption DEF LockInv, LockTypes
<1>1. ~Fifo!InLine(c) /\ currentTicket # c
  BY DEF Enter, QueueInv, Fifo!InLine, MutualExclusion
<1>3. CASE locked
  <2>1. queue' = Append(queue, c) /\ currentTicket' = currentTicket
    BY <1>3 DEF Enter, Dispatch
  <2> QED
    BY <1>1, <2>1 DEF Fifo!FifoNext, Fifo!Request
<1>4. CASE ~locked
  <2>1. queue = <<>> /\ currentTicket = NoTicket
    BY <1>4 DEF NoLostWakeup
  <2>2. Append(queue, c) = <<c>> /\ Head(<<c>>) = c /\ Tail(<<c>>) = <<>> /\ <<c>> # <<>>
    BY <2>1
  <2>3. queue' = queue /\ currentTicket' = c
    BY <1>4, <2>1, <2>2 DEF Enter, Dispatch
  <2> QED
    BY <1>1, <2>1, <2>3 DEF Fifo!FifoNext, Fifo!Request
<1> QED
  BY <1>3, <1>4

\* For any set of calls the lock implements the first-come first-served mutex,
\* with the watchdog's displacements as releases (lock.ts withLock, dispatch).
THEOREM LockImplementsFifoMutex == LockSpec => ImplementsFifoMutex
<1>1. LockInit => Fifo!FifoInit
  BY DEF LockInit, Fifo!FifoInit
<1>2. LockInv /\ [LockNext]_lockVars => [Fifo!FifoNext]_(Fifo!fifoVars)
  <2> SUFFICES ASSUME LockInv, [LockNext]_lockVars PROVE [Fifo!FifoNext]_(Fifo!fifoVars)
    OBVIOUS
  <2>1. ASSUME NEW c \in Calls, Enter(c) PROVE Fifo!FifoNext
    BY <2>1, EnterIsRequest
  <2>2. ASSUME NEW c \in Calls, Leave(c) PROVE Fifo!FifoNext \/ UNCHANGED Fifo!fifoVars
    BY <2>2, HandOverIsRelease, Zenon DEF Leave, Fifo!fifoVars
  <2>3. ASSUME NEW c \in Calls, ForceRelease(c) PROVE Fifo!FifoNext \/ UNCHANGED Fifo!fifoVars
    BY <2>3, HandOverIsRelease, Zenon DEF ForceRelease, Fifo!fifoVars
  <2>4. CASE UNCHANGED lockVars
    BY <2>4 DEF lockVars, Fifo!fifoVars
  <2> QED
    BY <2>1, <2>2, <2>3, <2>4 DEF LockNext
<1> QED
  BY <1>1, <1>2, LockInvariant, PTL DEF LockSpec, ImplementsFifoMutex, Fifo!FifoSafety

=============================================================================
