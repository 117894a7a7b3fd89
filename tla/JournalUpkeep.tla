---------------------------- MODULE JournalUpkeep ----------------------------
(***************************************************************************)
(* What looks after the rows of the operation journal while their jobs     *)
(* run: the heartbeat that vouches for waiting sends (execution-lane.ts,   *)
(* queued-wait-vouching.ts), the reaper of rows nobody touches (reaper.ts) *)
(* and the eviction of old rows (gc.ts).                                   *)
(*                                                                         *)
(* Time is counted in ticks; timers and alarms that are due run before the *)
(* next tick.  A write of the journal is one step, taken under its         *)
(* transition lock (module Lock).  What a job does beside its row is the   *)
(* subject of SendPipeline; here a job may stop making progress for ever.  *)
(***************************************************************************)
EXTENDS Integers, FiniteSets

CONSTANTS
    Ops,         \* operations, each created at most once
    Grace,       \* STAGE_GRACE_MS: for each active stage
    Beat,        \* EXECUTION_WAIT_HEARTBEAT_MS
    Lease,       \* MAX_QUEUED_WAIT_HEARTBEAT_MS
    ReapPeriod,  \* REAP_PERIOD_MINUTES
    Cap,         \* DEFAULT_TERMINAL_CAP_PER_SCOPE
    MaxTime,     \* bound: the clock
    MaxKills     \* bound: deaths of the worker

\* "working" stands for simulating, proving and submitting.
Active == {"queued", "pending", "working"}
Never == -1
NoRow == [stage |-> "none", created |-> 0, touched |-> 0]

ASSUME UpkeepAssumption ==
    /\ Grace \in [Active -> Nat]
    /\ \A s \in Active : Grace[s] > 2 * Beat    \* two minutes at least, against thirty seconds
    /\ {Beat, ReapPeriod} \subseteq Nat \ {0}
    /\ {Lease, Cap, MaxTime, MaxKills} \subseteq Nat

VARIABLES
    now,
    row,        \* the stored record of each operation: stage, createdAt, updatedAt
    job,        \* where its job is: waiting for its turn, in the lane, in the slot
    queuedAt,   \* queuedWaiters: since when each is vouched for
    lane,       \* executionWaiters
    beatAt,     \* when the heartbeat interval fires next, Never when cleared
    beat, todo, \* the heartbeat in progress and the waiters it still has to touch
    reapAt,     \* when the reaper's alarm is due
    reap, snap, \* the sweep in progress and the rows it read
    cutoff,     \* bootCutoff
    kills,
    lapsed      \* history: waiters whose lease ran out

rows == <<row, job>>
vouching == <<queuedAt, lane, beatAt, beat, todo, lapsed>>
reaping == <<reapAt, reap, snap, cutoff>>
vars == <<now, rows, vouching, reaping, kills>>

Init ==
    /\ now = 0
    /\ row = [o \in Ops |-> NoRow]
    /\ job = [o \in Ops |-> "none"]
    /\ queuedAt = [o \in Ops |-> Never]
    /\ lane = {} /\ beatAt = Never /\ beat = "idle" /\ todo = {}
    /\ reapAt = ReapPeriod /\ reap = "idle" /\ snap = [o \in Ops |-> NoRow] /\ cutoff = 0
    /\ kills = 0 /\ lapsed = {}

IsActive(r) == r.stage \in Active

-----------------------------------------------------------------------------
(* Rows.                                                                   *)

Moved(r, to) == [r EXCEPT !.stage = to, !.touched = now]

\* "failed" stands for cancelled too: nobody here looks at the times of such a row.
Failed == [NoRow EXCEPT !.stage = "failed"]

\* Its terminalAt orders the succeeded rows.
Done == [NoRow EXCEPT !.stage = "succeeded", !.touched = now]

\* touchOperation leaves a missing or a terminal row alone.
Touch(o) ==
    row' = IF IsActive(row[o]) THEN [row EXCEPT ![o].touched = now] ELSE row

-----------------------------------------------------------------------------
(* Jobs, and who vouches for them.                                         *)

EnsureTimer == beatAt' = IF beatAt = Never THEN now + Beat ELSE beatAt

\* Mutant: the timer stops as soon as nobody waits in the lane.
TimerForLane(waiters, inLane, at) == IF inLane = {} THEN Never ELSE at

\* maybeStopHeartbeatTimer.
Timer(waiters, inLane, at) ==
    IF inLane = {} /\ \A o \in Ops : waiters[o] = Never THEN Never ELSE at

Fresh(stage) ==
    [NoRow EXCEPT !.stage = stage, !.created = now, !.touched = now]

\* A dApp send: the queued row, vouched for before it waits for its turn.
Enqueue(o) ==
    /\ job[o] = "none"
    /\ row' = [row EXCEPT ![o] = Fresh("queued")]
    /\ job' = [job EXCEPT ![o] = "waiting"]
    /\ queuedAt' = [queuedAt EXCEPT ![o] = now]
    /\ EnsureTimer
    /\ UNCHANGED <<now, lane, beat, todo, lapsed, reaping, kills>>

\* A send approved without a popup goes on to pending before it has the lane.
FastForward(o) ==
    /\ job[o] = "waiting" /\ row[o].stage = "queued"
    /\ row' = [row EXCEPT ![o] = Moved(@, "pending")]
    /\ UNCHANGED <<now, job, vouching, reaping, kills>>

\* acquireSlot: the lane takes over the vouching.
EnterLane(o) ==
    /\ job[o] = "waiting"
    /\ job' = [job EXCEPT ![o] = "lane"]
    /\ queuedAt' = [queuedAt EXCEPT ![o] = Never]
    /\ lane' = lane \cup {o}
    /\ EnsureTimer
    /\ UNCHANGED <<now, row, beat, todo, lapsed, reaping, kills>>

Granted(o) ==
    /\ job[o] = "lane"
    /\ job' = [job EXCEPT ![o] = "slot"]
    /\ lane' = lane \ {o}
    /\ beatAt' = Timer(queuedAt, lane', beatAt)
    /\ lapsed' = lapsed \ {o}
    /\ UNCHANGED <<now, row, queuedAt, beat, todo, reaping, kills>>

After == [queued |-> "pending", pending |-> "working", working |-> "working"]

\* The job claims its row and moves it on, until it has succeeded.
Advance(o) ==
    /\ job[o] = "slot" /\ IsActive(row[o])
    /\ \/ row' = [row EXCEPT ![o] = Moved(@, After[@.stage])] /\ UNCHANGED job
       \/ /\ row[o].stage = "working"
          /\ row' = [row EXCEPT ![o] = Done]
          /\ job' = [job EXCEPT ![o] = "gone"]
    /\ UNCHANGED <<now, vouching, reaping, kills>>

\* The job ends: it fails, is cancelled, or finds its row settled already.
\* endExecutionWait and endQueuedWait stop the vouching.
EndJob(o) ==
    /\ job[o] \in {"waiting", "lane", "slot"}
    /\ row' = IF IsActive(row[o]) THEN [row EXCEPT ![o] = Failed] ELSE row
    /\ job' = [job EXCEPT ![o] = "gone"]
    /\ queuedAt' = [queuedAt EXCEPT ![o] = Never]
    /\ lane' = lane \ {o}
    /\ beatAt' = Timer(queuedAt', lane', beatAt)
    /\ lapsed' = lapsed \ {o}
    /\ UNCHANGED <<now, beat, todo, reaping, kills>>

-----------------------------------------------------------------------------
(* heartbeatExecutionWaiters.                                              *)

BeatStart ==
    /\ beat = "idle" /\ beatAt # Never /\ beatAt <= now
    /\ beat' = "lane" /\ todo' = lane
    /\ beatAt' = beatAt + Beat
    /\ UNCHANGED <<now, rows, queuedAt, lane, lapsed, reaping, kills>>

BeatTouch(o) ==
    /\ beat # "idle" /\ o \in todo
    /\ Touch(o)
    /\ todo' = todo \ {o}
    /\ UNCHANGED <<now, job, queuedAt, lane, beatAt, beat, lapsed, reaping, kills>>

\* Mutant: a queued waiter is vouched for without a ceiling.
BeatQueuedForever ==
    /\ beat = "lane" /\ todo = {}
    /\ beat' = "queued"
    /\ todo' = {o \in Ops : queuedAt[o] # Never}
    /\ UNCHANGED <<now, rows, queuedAt, lane, beatAt, lapsed, reaping, kills>>

\* The second snapshot: a queued waiter past the lease is not vouched for any more.
BeatQueued ==
    /\ beat = "lane" /\ todo = {}
    /\ beat' = "queued"
    /\ LET expired == {o \in Ops : queuedAt[o] # Never /\ now - queuedAt[o] > Lease} IN
         /\ todo' = {o \in Ops \ expired : queuedAt[o] # Never}
         /\ queuedAt' = [o \in Ops |-> IF o \in expired THEN Never ELSE queuedAt[o]]
         /\ lapsed' = lapsed \cup expired
    /\ UNCHANGED <<now, rows, lane, beatAt, reaping, kills>>

BeatEnd ==
    /\ beat = "queued" /\ todo = {}
    /\ beat' = "idle"
    /\ beatAt' = Timer(queuedAt, lane, beatAt)
    /\ UNCHANGED <<now, rows, queuedAt, lane, todo, lapsed, reaping, kills>>

-----------------------------------------------------------------------------
(* The reaper: the sweep of a new worker and the one of the alarm.         *)

\* shouldSkipRecord, of the rows as the sweep read them.
Skipped(sweep, r) ==
    \/ ~IsActive(r)
    \/ IF sweep = "all" THEN r.created >= cutoff ELSE now - r.touched < Grace[r.stage]

ReapStart ==
    /\ \/ reap = "boot" /\ reap' = "all" /\ UNCHANGED reapAt
       \/ reap = "idle" /\ reapAt <= now /\ reap' = "stale" /\ reapAt' = now + ReapPeriod
    /\ snap' = [o \in Ops |-> IF Skipped(reap', row[o]) THEN NoRow ELSE row[o]]
    /\ cutoff' = 0
    /\ UNCHANGED <<now, rows, vouching, kills>>

\* Mutant: the sweep of the alarm pins the stage only.
StageMoved(o) == row[o].stage # snap[o].stage

\* transitionIfStage with ifUpdatedAtIs, for the sweep of the alarm.
StandsDown(o) ==
    \/ row[o].stage # snap[o].stage
    \/ reap = "stale" /\ row[o].touched # snap[o].touched

ReapOne(o) ==
    /\ reap \in {"all", "stale"} /\ IsActive(snap[o])
    /\ snap' = [snap EXCEPT ![o] = NoRow]
    /\ IF StandsDown(o)
       THEN UNCHANGED row
       ELSE row' = [row EXCEPT ![o] = Failed]
    /\ UNCHANGED <<now, job, vouching, reapAt, reap, cutoff, kills>>

ReapEnd ==
    /\ reap \in {"all", "stale"} /\ \A o \in Ops : ~IsActive(snap[o])
    /\ reap' = "idle"
    /\ UNCHANGED <<now, rows, vouching, reapAt, snap, cutoff, kills>>

-----------------------------------------------------------------------------
(* Rows that go: the eviction of old ones and the purge of a network.      *)

Succeeded == {o \in Ops : row[o].stage = "succeeded"}

\* sweep() of the GC: beyond the cap, the oldest succeeded row.  It reads and
\* deletes in one step: rows that succeed in between are newer than its victims.
Evict(o) ==
    /\ o \in Succeeded /\ Cardinality(Succeeded) > Cap
    /\ \A p \in Succeeded : row[o].touched <= row[p].touched
    /\ row' = [row EXCEPT ![o] = NoRow]
    /\ UNCHANGED <<now, job, vouching, reaping, kills>>

\* clearChainState: every row of the network, in one hold of the lock.
Purge ==
    /\ \E o \in Ops : row[o] # NoRow
    /\ row' = [o \in Ops |-> NoRow]
    /\ UNCHANGED <<now, job, vouching, reaping, kills>>

-----------------------------------------------------------------------------
(* The worker and the clock.                                               *)

\* The worker dies with its jobs and timers; the next one starts the boot sweep.
Kill ==
    /\ kills < MaxKills
    /\ kills' = kills + 1
    /\ job' = [o \in Ops |-> IF job[o] \in {"none", "gone"} THEN job[o] ELSE "gone"]
    /\ queuedAt' = [o \in Ops |-> Never]
    /\ lane' = {} /\ beatAt' = Never /\ beat' = "idle" /\ todo' = {}
    /\ reap' = "boot" /\ cutoff' = now /\ reapAt' = now + ReapPeriod
    /\ snap' = [o \in Ops |-> NoRow]
    /\ lapsed' = {}
    /\ UNCHANGED <<now, row>>

\* Bound: what is due runs before the clock moves on.
Tick ==
    /\ now < MaxTime
    /\ beat = "idle" /\ (beatAt = Never \/ beatAt > now)
    /\ reap = "idle" /\ reapAt > now
    /\ now' = now + 1
    /\ UNCHANGED <<rows, vouching, reaping, kills>>

Step(o) ==
    \/ Enqueue(o) \/ FastForward(o) \/ EnterLane(o) \/ Granted(o) \/ Advance(o) \/ EndJob(o)
    \/ BeatTouch(o) \/ ReapOne(o) \/ Evict(o)

Next ==
    \/ \E o \in Ops : Step(o)
    \/ BeatStart \/ BeatQueued \/ BeatEnd \/ ReapStart \/ ReapEnd \/ Purge \/ Kill \/ Tick

Spec == Init /\ [][Next]_vars

-----------------------------------------------------------------------------
(* Properties.                                                             *)

\* The reaper fails a row only when nobody wrote it for its whole grace, or
\* when its job died with an earlier worker: a row touched or moved on since
\* the sweep read it survives (reap, transitionIfStage).
ReapsOnlyStale ==
    [][\A o \in Ops :
         (IsActive(row[o]) /\ row'[o].stage = "failed" /\ snap'[o] # snap[o])
         => \/ now - row[o].touched >= Grace[row[o].stage]
            \/ reap = "all" /\ job[o] = "gone"]_vars

\* A waiting send that somebody vouches for never reaches the age at which
\* the reaper fails it, the hand-over from the queue to the lane in the
\* middle of a heartbeat included (heartbeatExecutionWaiters,
\* beginExecutionWait, maybeStopHeartbeatTimer).  A send whose lease ended in
\* the queue is left out, also when it joins the lane after all: its row may be
\* stale before the next heartbeat touches it.
VouchedStaysFresh ==
    \A o \in Ops :
        (IsActive(row[o]) /\ o \notin lapsed /\ (queuedAt[o] # Never \/ o \in lane))
        => now - row[o].touched < Grace[row[o].stage]

\* A send that never leaves the queue is resolved all the same: the lease ends
\* the vouching and the reaper takes the row (MAX_QUEUED_WAIT_HEARTBEAT_MS).
HungQueueResolved ==
    \A o \in Ops :
        (row[o].stage = "queued" /\ job[o] = "waiting")
        => now - row[o].created < Lease + Grace["queued"] + ReapPeriod

=============================================================================
