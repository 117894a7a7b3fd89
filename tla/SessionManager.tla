--------------------------- MODULE SessionManager ---------------------------
(***************************************************************************)
(* The unlocked session (profile/session-manager.ts) and the facade calls  *)
(* of ProfileService that reach it: unlock, lock, refresh, the reads that  *)
(* notice an expiry, the auto-lock alarm, the two settings it follows, and *)
(* the silent restore of a restarted worker.                               *)
(*                                                                         *)
(* A session is kept twice: in memory, and as a row of session storage     *)
(* with a browser alarm beside it (its artifacts).  Writers of the         *)
(* artifacts exclude each other by the artifact lock; callers of the       *)
(* facade queue for the facade lock (the FIFO lock of module Lock); a read *)
(* that notices an expiry may hold neither.  A step is the code between    *)
(* two awaits; the artifact lock admits its waiters in any order, which    *)
(* includes the order of module Lock.                                      *)
(***************************************************************************)
EXTENDS Integers, Sequences, FiniteSets

CONSTANTS
    Calls,        \* calls, each made at most once
    Profiles,
    Passkeys,     \* the profiles unlocked by a passkey: no bearer, no restore
    Ttls,         \* values of the setting sessionTtl; 0 disables expiry
    Step,         \* EXPIRY_DEFERRAL_STEP_MS
    Deferral,     \* MAX_EXPIRY_DEFERRAL_MS
    MaxTime,      \* bound: the clock
    MaxSessions,  \* bound: sessions opened
    MaxFaults,    \* bound: storage and alarm calls that fail
    MaxKills,     \* bound: deaths of the worker
    Boot,         \* the restoring init of the service
    Free          \* a lock nobody holds

Sessions == 1 .. MaxSessions
Procs == Calls \cup Sessions \cup {Boot}   \* session s stands for its expiry decision
Never == -1                                \* no deadline, no alarm
NoRow == [name |-> 0, profile |-> 0, since |-> 0, lockedAt |-> Never, bearer |-> FALSE]

ASSUME SessionAssumption ==
    /\ Passkeys \subseteq Profiles
    /\ Ttls \subseteq Nat /\ {Step, Deferral, MaxTime, MaxSessions, MaxFaults, MaxKills} \subseteq Nat
    /\ Free \notin Procs

VARIABLES
    now, ttl, strict,
    rev,         \* configRev
    active,      \* activeSession, 0 when locked
    obj,         \* the in-memory object of each session
    budgetEnd,   \* its deferBudgetEnd
    opened,      \* sessions opened so far: lastSerial, over all lifetimes of the worker
    generation,  \* sessionGeneration
    row,         \* the row of session storage
    alarm,       \* when the auto-lock alarm is set for
    facade,      \* the calls queued for the facade lock; its head holds it
    artifact,    \* who holds the artifact lock
    pc, op,
    seen,        \* the session a process looked at
    gen,         \* the generation a close captured
    draft,       \* a row a process has built or read and not yet written
    plan,        \* what a commit will write, and what it expects to find
    ready,       \* ensureInitialized resolves
    faults, kills,
    granted,     \* history: the last deadline each session was given by the user
    anchor,      \* history: the deadline each session first outlived
    lockedOut,   \* history: sessions an explicit lock has ended and reported ended
    raced        \* history: a setting changed while a worker was restoring, or its change died with one

settings == <<ttl, strict, rev>>
memory == <<active, obj, budgetEnd, opened, generation>>
artifacts == <<row, alarm>>
locals == <<op, seen, gen, draft, plan>>
bounds == <<faults, kills>>
history == <<granted, anchor, lockedOut, raced>>
vars == <<now, settings, memory, artifacts, facade, artifact, pc, locals, ready, bounds, history>>

NoPlan == [set |-> "none", at |-> Never, budget |-> Never, expects |-> FALSE, lockedAt |-> Never, rev |-> 0]

Init ==
    /\ now = 0 /\ ttl \in Ttls /\ strict = FALSE /\ rev = 0
    /\ active = 0 /\ opened = 0 /\ generation = 0
    /\ obj = [s \in Sessions |-> NoRow]
    /\ budgetEnd = [s \in Sessions |-> Never]
    /\ row = NoRow /\ alarm = Never
    /\ facade = <<>> /\ artifact = Free
    /\ pc = [p \in Procs |-> "idle"]
    /\ op = [p \in Procs |-> "none"]
    /\ seen = [p \in Procs |-> 0]
    /\ gen = [p \in Procs |-> 0]
    /\ draft = [p \in Procs |-> NoRow]
    /\ plan = [p \in Procs |-> NoPlan]
    /\ ready = TRUE
    /\ faults = 0 /\ kills = 0
    /\ granted = [s \in Sessions |-> Never]
    /\ anchor = [s \in Sessions |-> Never]
    /\ lockedOut = {} /\ raced = FALSE

Goto(p, label) == pc' = [pc EXCEPT ![p] = label]
MinOf(a, b) == IF a < b THEN a ELSE b
Persisted == row.name # 0

\* deriveLockedAt and isExpired; a deadline means nothing while the TTL is 0.
DeadlineOf(r) == IF r.lockedAt # Never THEN r.lockedAt ELSE r.since + ttl
IsExpired(r) == ttl # 0 /\ DeadlineOf(r) <= now

LockedAt(since, t) == IF t = 0 THEN Never ELSE since + t

\* A storage or alarm call may fail as long as the bound allows.
Ok == faults' = faults
Fails == faults < MaxFaults /\ faults' = faults + 1

\* scheduleLockAlarm: nothing is set without a TTL or for a deadline that has
\* passed, and what was set before stays.
Schedulable(at) == ttl # 0 /\ at # Never /\ at > now

-----------------------------------------------------------------------------
(* Calls and the facade lock.                                              *)

Queue(c) == facade' = Append(facade, c) /\ Goto(c, "facade")

\* An RPC: unlockProfile, lockActiveProfile, refreshSession, a read under the
\* facade lock (captureExecutionFence and its like), a read outside it (getSecret).
Request(c) ==
    /\ pc[c] = "idle" /\ c \in Calls /\ ready
    /\ \E kind \in {"unlock", "lock", "refresh", "read", "secret"} :
         /\ op' = [op EXCEPT ![c] = kind]
         /\ IF kind = "secret" THEN Goto(c, "get") /\ UNCHANGED facade ELSE Queue(c)
    /\ UNCHANGED <<now, settings, memory, artifacts, artifact, seen, gen, draft, plan, ready, bounds, history>>

\* onConfigUpdated with another TTL: the value and the revision change at
\* once, applyTtlChange queues for the facade lock.
ChangeTtl(c) ==
    /\ pc[c] = "idle" /\ c \in Calls
    /\ \E t \in Ttls \ {ttl} :
         /\ ttl' = t
         /\ plan' = [plan EXCEPT ![c] = [NoPlan EXCEPT !.set = "ttl", !.at = t]]
    /\ rev' = rev + 1
    /\ raced' = (raced \/ ~ready)
    /\ op' = [op EXCEPT ![c] = "ttl"]
    /\ Queue(c)
    /\ UNCHANGED <<now, strict, memory, artifacts, artifact, seen, gen, draft, ready, bounds, granted, anchor, lockedOut>>

\* onConfigUpdated with strict mode on: clearBearer queues for the facade lock.
StrictOn(c) ==
    /\ pc[c] = "idle" /\ c \in Calls /\ ~strict
    /\ strict' = TRUE
    /\ raced' = (raced \/ ~ready)
    /\ op' = [op EXCEPT ![c] = "strict"]
    /\ Queue(c)
    /\ UNCHANGED <<now, ttl, rev, memory, artifacts, artifact, seen, gen, draft, plan, ready, bounds, granted, anchor, lockedOut>>

\* The alarm is due: it is delivered once, with the time it was set for.
AlarmFires(c) ==
    /\ pc[c] = "idle" /\ c \in Calls
    /\ alarm # Never /\ alarm <= now
    /\ alarm' = Never
    /\ plan' = [plan EXCEPT ![c] = [NoPlan EXCEPT !.at = alarm]]
    /\ op' = [op EXCEPT ![c] = "alarm"]
    /\ Queue(c)
    /\ UNCHANGED <<now, settings, memory, row, artifact, seen, gen, draft, ready, bounds, history>>

Body == [unlock |-> "seal", lock |-> "close", refresh |-> "get", read |-> "get",
         ttl |-> "apply", strict |-> "scrub", alarm |-> "fire"]

EnterFacade(c) ==
    /\ pc[c] = "facade" /\ Head(facade) = c
    /\ Goto(c, Body[op[c]])
    /\ UNCHANGED <<now, settings, memory, artifacts, facade, artifact, locals, ready, bounds, history>>

\* What follows close() and commitSession() in the procedure that called them.
After(p) ==
    CASE p \in Sessions -> "settle"
      [] op[p] = "lock" -> "check"
      [] OTHER -> "leave"

Forget(p) ==
    /\ op' = [op EXCEPT ![p] = "none"]
    /\ seen' = [seen EXCEPT ![p] = 0]
    /\ gen' = [gen EXCEPT ![p] = 0]
    /\ draft' = [draft EXCEPT ![p] = NoRow]
    /\ plan' = [plan EXCEPT ![p] = NoPlan]

\* The call settles, its locals with it; a facade call leaves the lock.
LeaveFacade(c) ==
    /\ pc[c] = "leave"
    /\ facade' = SelectSeq(facade, LAMBDA d : d # c)
    /\ Goto(c, "done")
    /\ Forget(c)
    /\ UNCHANGED <<now, settings, memory, artifacts, artifact, ready, bounds, history>>

-----------------------------------------------------------------------------
(* open().                                                                 *)

\* The bearer is decided before the secret is sealed into it: a password unlock
\* outside strict mode (one that lost the imported keys' key is like a strict one).
Seal(c) ==
    /\ pc[c] = "seal" /\ opened < MaxSessions
    /\ \E p \in Profiles :
         draft' = [draft EXCEPT ![c] = [name |-> 0, profile |-> p, since |-> now, lockedAt |-> Never,
                                        bearer |-> ~strict /\ p \notin Passkeys]]
    /\ Goto(c, "build")
    /\ UNCHANGED <<now, settings, memory, artifacts, facade, artifact, op, seen, gen, plan, ready, bounds, history>>

\* The row is built once the secret is sealed, before the artifact lock is asked for.
Build(c) ==
    /\ pc[c] = "build"
    /\ draft' = [draft EXCEPT ![c].lockedAt = LockedAt(draft[c].since, ttl)]
    /\ Goto(c, "open")
    /\ UNCHANGED <<now, settings, memory, artifacts, facade, artifact, op, seen, gen, plan, ready, bounds, history>>

\* A refused unlock, or a seal that throws: no session.
SealFails(c) ==
    /\ pc[c] = "seal"
    /\ Goto(c, "leave")
    /\ UNCHANGED <<now, settings, memory, artifacts, facade, artifact, locals, ready, bounds, history>>

\* The artifact section begins by publishing the session in memory.
Publish(c) ==
    /\ pc[c] = "open" /\ artifact = Free
    /\ LET s == opened + 1
       IN /\ obj' = [obj EXCEPT ![s] = [draft[c] EXCEPT !.name = s]]
          /\ active' = s /\ opened' = s
          /\ seen' = [seen EXCEPT ![c] = s]
          /\ granted' = [granted EXCEPT ![s] = draft[c].lockedAt]
    /\ artifact' = c
    /\ Goto(c, "persist")
    /\ UNCHANGED <<now, settings, budgetEnd, generation, artifacts, facade, op, gen, draft, plan, ready, bounds, anchor, lockedOut, raced>>

\* A write that reports failure may have landed.
Persist(c) ==
    /\ pc[c] = "persist"
    /\ \/ Ok /\ row' = obj[seen[c]] /\ Goto(c, "arm")
       \/ Fails /\ row' \in {row, obj[seen[c]]} /\ Goto(c, "undo")
    /\ UNCHANGED <<now, settings, memory, alarm, facade, artifact, locals, ready, kills, history>>

\* The row is deleted and read back: a session whose predecessor may still be
\* stored is withdrawn.
Undo(c) ==
    /\ pc[c] = "undo"
    /\ \/ /\ Ok /\ row' = NoRow
          /\ Goto(c, "arm") /\ UNCHANGED <<active, artifact>>
       \/ /\ Fails /\ ~Persisted /\ UNCHANGED row
          /\ Goto(c, "arm") /\ UNCHANGED <<active, artifact>>
       \/ /\ Fails /\ row' \in {row, NoRow}
          /\ active' = 0 /\ artifact' = Free
          /\ Goto(c, "leave")
    /\ UNCHANGED <<now, settings, obj, budgetEnd, opened, generation, alarm, facade, locals, ready, kills, history>>

\* Mutant: the generation is not advanced.
ArmSilently(c) ==
    /\ pc[c] = "arm"
    /\ LET at == obj[seen[c]].lockedAt IN
         IF Schedulable(at)
         THEN \/ Ok /\ alarm' = at
              \/ Fails /\ UNCHANGED alarm
         ELSE Ok /\ UNCHANGED alarm
    /\ artifact' = Free
    /\ Goto(c, "leave")
    /\ UNCHANGED <<now, settings, memory, row, facade, locals, ready, kills, history>>

\* The alarm is set and the session committed: the generation moves last.
Arm(c) ==
    /\ pc[c] = "arm"
    /\ LET at == obj[seen[c]].lockedAt IN
         IF Schedulable(at)
         THEN \/ Ok /\ alarm' = at
              \/ Fails /\ UNCHANGED alarm
         ELSE Ok /\ UNCHANGED alarm
    /\ generation' = generation + 1
    /\ artifact' = Free
    /\ Goto(c, "leave")
    /\ UNCHANGED <<now, settings, active, obj, budgetEnd, opened, row, facade, locals, ready, kills, history>>

-----------------------------------------------------------------------------
(* close(): by a lock, of whatever is active; by an expiry or a shorter    *)
(* TTL, of the session it looked at.                                       *)

CloseHead(p) ==
    /\ pc[p] = "close"
    /\ IF op[p] # "lock" /\ active # seen[p]
       THEN Goto(p, After(p)) /\ UNCHANGED <<active, gen>>
       ELSE /\ active' = 0
            /\ gen' = [gen EXCEPT ![p] = generation]
            /\ Goto(p, "erase")
    /\ UNCHANGED <<now, settings, obj, budgetEnd, opened, generation, artifacts, facade, artifact, op, seen, draft, plan, ready, bounds, history>>

StandDown(p) ==
    /\ pc[p] = "erase" /\ artifact = Free /\ generation # gen[p]
    /\ Goto(p, After(p))
    /\ UNCHANGED <<now, settings, memory, artifacts, facade, artifact, locals, ready, bounds, history>>

EraseStart(p) ==
    /\ pc[p] = "erase" /\ artifact = Free /\ generation = gen[p]
    /\ artifact' = p
    /\ Goto(p, "erasing")
    /\ UNCHANGED <<now, settings, memory, artifacts, facade, locals, ready, bounds, history>>

\* Each of the two failures is logged and skipped.
Erase(p) ==
    /\ pc[p] = "erasing"
    /\ \/ Ok /\ row' = NoRow /\ alarm' = Never
       \/ Fails /\ UNCHANGED row /\ alarm' = Never
       \/ Fails /\ row' = NoRow /\ UNCHANGED alarm
    /\ artifact' = Free
    /\ Goto(p, After(p))
    /\ UNCHANGED <<now, settings, memory, facade, locals, ready, kills, history>>

\* Mutant: the lock is reported without reading the row back.
ReportUnread(c) ==
    /\ pc[c] = "check"
    /\ Ok /\ lockedOut' = 1 .. opened
    /\ Goto(c, "leave")
    /\ UNCHANGED <<now, settings, memory, artifacts, facade, artifact, locals, ready, kills, granted, anchor, raced>>

\* lockActiveProfile reads the row back; a read that fails reports it present.
ReadBack(c) ==
    /\ pc[c] = "check"
    /\ \/ Fails /\ UNCHANGED lockedOut
       \/ /\ Ok
          /\ lockedOut' = IF Persisted THEN lockedOut ELSE 1 .. opened
    /\ Goto(c, "leave")
    /\ UNCHANGED <<now, settings, memory, artifacts, facade, artifact, locals, ready, kills, granted, anchor, raced>>

-----------------------------------------------------------------------------
(* commitSession(): the only writer of a live session's row.               *)

\* What the caller's mutate makes of the session.
Mutated(p, s) ==
    CASE plan[p].set = "refresh" -> [obj[s] EXCEPT !.since = now, !.lockedAt = LockedAt(now, ttl)]
      [] plan[p].set = "ttl" -> [obj[s] EXCEPT !.lockedAt = LockedAt(obj[s].since, plan[p].at)]
      [] plan[p].set = "bearer" -> [obj[s] EXCEPT !.bearer = FALSE]
      [] plan[p].set = "defer" -> [obj[s] EXCEPT !.lockedAt = plan[p].at]

CommitStandsDown(p) ==
    \/ active # seen[p]
    \/ plan[p].expects /\ (obj[seen[p]].lockedAt # plan[p].lockedAt \/ rev # plan[p].rev)

CommitSkip(p) ==
    /\ pc[p] = "commit" /\ artifact = Free /\ CommitStandsDown(p)
    /\ Goto(p, After(p))
    /\ UNCHANGED <<now, settings, memory, artifacts, facade, artifact, locals, ready, bounds, history>>

\* Mutant: the end of the budget is not kept, so each deferral starts another.
CommitRefilling(p) ==
    /\ pc[p] = "commit" /\ artifact = Free /\ ~CommitStandsDown(p)
    /\ LET s == seen[p] IN
         /\ obj' = [obj EXCEPT ![s] = Mutated(p, s)]
         /\ granted' = [granted EXCEPT ![s] = IF plan[p].set \in {"refresh", "ttl"} THEN obj'[s].lockedAt ELSE @]
         /\ anchor' = [anchor EXCEPT ![s] =
                IF plan[p].set = "defer" /\ @ = Never THEN DeadlineOf(obj[s]) ELSE @]
         /\ draft' = [draft EXCEPT ![p] = obj[s]]
    /\ artifact' = p
    /\ Goto(p, "write")
    /\ UNCHANGED <<now, settings, active, budgetEnd, opened, generation, artifacts, facade, op, seen, gen, plan, ready, bounds, lockedOut, raced>>

\* deferBudgetEnd is set by the first deferral only.
Commit(p) ==
    /\ pc[p] = "commit" /\ artifact = Free /\ ~CommitStandsDown(p)
    /\ LET s == seen[p] IN
         /\ obj' = [obj EXCEPT ![s] = Mutated(p, s)]
         /\ budgetEnd' = [budgetEnd EXCEPT ![s] =
                IF plan[p].set = "defer" /\ @ = Never THEN plan[p].budget ELSE @]
         /\ granted' = [granted EXCEPT ![s] = IF plan[p].set \in {"refresh", "ttl"} THEN obj'[s].lockedAt ELSE @]
         /\ anchor' = [anchor EXCEPT ![s] =
                IF plan[p].set = "defer" /\ @ = Never THEN DeadlineOf(obj[s]) ELSE @]
         /\ draft' = [draft EXCEPT ![p] = obj[s]]
    /\ artifact' = p
    /\ Goto(p, "write")
    /\ UNCHANGED <<now, settings, active, opened, generation, artifacts, facade, op, seen, gen, plan, ready, bounds, lockedOut, raced>>

\* A failed write throws: a decision then closes the session, the others log.
Write(p) ==
    /\ pc[p] = "write"
    /\ \/ /\ Ok
          /\ row' = obj[seen[p]]
          /\ IF obj[seen[p]].lockedAt # draft[p].lockedAt
             THEN Goto(p, "rearm") /\ UNCHANGED artifact
             ELSE Goto(p, After(p)) /\ artifact' = Free
       \/ /\ Fails
          /\ row' \in {row, obj[seen[p]]}
          /\ Goto(p, IF p \in Sessions THEN "close" ELSE After(p))
          /\ artifact' = Free
    /\ UNCHANGED <<now, settings, memory, alarm, facade, locals, ready, kills, history>>

\* Mutant: the alarm is scheduled and then cleared.
RearmSwapped(p) ==
    /\ pc[p] = "rearm"
    /\ \/ Ok /\ alarm' = Never
       \/ Fails /\ alarm' \in {alarm, Never}
    /\ artifact' = Free
    /\ Goto(p, After(p))
    /\ UNCHANGED <<now, settings, memory, row, facade, locals, ready, kills, history>>

\* clearLockAlarm and scheduleLockAlarm.
Rearm(p) ==
    /\ pc[p] = "rearm"
    /\ LET at == obj[seen[p]].lockedAt IN
         \/ Ok /\ alarm' = IF Schedulable(at) THEN at ELSE Never
         \/ Fails /\ alarm' \in {alarm, Never}
    /\ artifact' = Free
    /\ Goto(p, After(p))
    /\ UNCHANGED <<now, settings, memory, row, facade, locals, ready, kills, history>>

-----------------------------------------------------------------------------
(* getActive() and the expiry decision it and the alarm join.              *)

\* expireOrDefer: the decision of session s is started unless it is pending.
\* It captures the deadline, the TTL's revision and the end of the budget.
JoinDecision(c, s) ==
    /\ seen' = [seen EXCEPT ![c] = s, ![s] = s]
    /\ IF pc[s] = "idle"
       THEN /\ plan' = [plan EXCEPT ![s] =
                 [NoPlan EXCEPT !.lockedAt = obj[s].lockedAt, !.rev = rev,
                    !.budget = IF budgetEnd[s] # Never THEN budgetEnd[s]
                               ELSE DeadlineOf(obj[s]) + MinOf(ttl, Deferral)]]
            /\ pc' = [pc EXCEPT ![c] = "join", ![s] = "ask"]
       ELSE Goto(c, "join") /\ UNCHANGED plan

GetActive(c) ==
    /\ pc[c] = "get"
    /\ \/ /\ active = 0
          /\ Goto(c, "leave") /\ UNCHANGED <<seen, plan>>
       \/ /\ active # 0 /\ pc[active] = "idle" /\ ~IsExpired(obj[active])
          /\ seen' = [seen EXCEPT ![c] = active]
          /\ IF op[c] = "refresh"
             THEN Goto(c, "commit") /\ plan' = [plan EXCEPT ![c] = [NoPlan EXCEPT !.set = "refresh"]]
             ELSE Goto(c, "leave") /\ UNCHANGED plan
       \/ /\ active # 0 /\ (pc[active] # "idle" \/ IsExpired(obj[active]))
          /\ JoinDecision(c, active)
    /\ UNCHANGED <<now, settings, memory, artifacts, facade, artifact, op, gen, draft, ready, bounds, history>>

\* onAlarmFired, under the facade lock: only the alarm of the present deadline counts.
Fire(c) ==
    /\ pc[c] = "fire"
    /\ IF active # 0 /\ plan[c].at = DeadlineOf(obj[active])
       THEN JoinDecision(c, active)
       ELSE Goto(c, "leave") /\ UNCHANGED <<seen, plan>>
    /\ UNCHANGED <<now, settings, memory, artifacts, facade, artifact, op, gen, draft, ready, bounds, history>>

\* The decision has settled: a read looks again at a session that is still active.
Joined(c) ==
    /\ pc[c] = "join" /\ pc[seen[c]] = "idle"
    /\ Goto(c, IF op[c] # "alarm" /\ active = seen[c] THEN "get" ELSE "leave")
    /\ UNCHANGED <<now, settings, memory, artifacts, facade, artifact, locals, ready, bounds, history>>

\* applyTtl of session s by process p: a TTL already spent closes it.
ApplyTtlTo(p, s, t) == Goto(p, IF t # 0 /\ obj[s].since + t <= now THEN "close" ELSE "commit")

\* decideExpiry once hasWorkToFinish has answered.
Decide(s, hasWork) ==
    /\ pc[s] = "ask" /\ s \in Sessions
    /\ \/ /\ obj[s].lockedAt # plan[s].lockedAt
          /\ Goto(s, "settle") /\ UNCHANGED plan
       \/ /\ obj[s].lockedAt = plan[s].lockedAt /\ rev # plan[s].rev
          /\ plan' = [plan EXCEPT ![s].set = "ttl", ![s].at = ttl, ![s].expects = TRUE, ![s].rev = rev]
          /\ ApplyTtlTo(s, s, ttl)
       \/ /\ obj[s].lockedAt = plan[s].lockedAt /\ rev = plan[s].rev
          /\ IF hasWork /\ now < plan[s].budget
             THEN /\ plan' = [plan EXCEPT ![s].set = "defer", ![s].expects = TRUE,
                                          ![s].at = MinOf(now + MinOf(Step, ttl), plan[s].budget)]
                  /\ Goto(s, "commit")
             ELSE Goto(s, "close") /\ UNCHANGED plan
    /\ UNCHANGED <<now, settings, memory, artifacts, facade, artifact, op, seen, gen, draft, ready, bounds, history>>

\* Mutant: the check asks for the active profile, which takes the facade lock.
AnswerUnderFacade(s) == facade = <<>> /\ \E hasWork \in BOOLEAN : Decide(s, hasWork)

\* hasApprovedSendsInFlight reads the journal in-process; a check that throws answers no.
Answer(s) == \E hasWork \in BOOLEAN : Decide(s, hasWork)

\* The decision is over: the next expiry starts another.
Settle(s) ==
    /\ pc[s] = "settle" /\ s \in Sessions
    /\ Goto(s, "idle")
    /\ Forget(s)
    /\ UNCHANGED <<now, settings, memory, artifacts, facade, artifact, ready, bounds, history>>

-----------------------------------------------------------------------------
(* The settings, once their call holds the facade lock.                    *)

\* applyTtlChange.
ApplyTtl(c) ==
    /\ pc[c] = "apply"
    /\ IF active = 0
       THEN Goto(c, "leave") /\ UNCHANGED seen
       ELSE seen' = [seen EXCEPT ![c] = active] /\ ApplyTtlTo(c, active, plan[c].at)
    /\ UNCHANGED <<now, settings, memory, artifacts, facade, artifact, op, gen, draft, plan, ready, bounds, history>>

\* Mutant: the row is scrubbed of a locked wallet only.
ClearBearerWhenLocked(c) ==
    /\ pc[c] = "scrub"
    /\ \/ active = 0 /\ row.bearer /\ draft' = [draft EXCEPT ![c] = row] /\ Goto(c, "rewrite")
       \/ (active # 0 \/ ~row.bearer) /\ Goto(c, "leave") /\ UNCHANGED draft
    /\ UNCHANGED <<now, settings, memory, artifacts, facade, artifact, op, seen, plan, gen, ready, bounds, history>>

\* clearBearer: of the live session through commitSession, of a locked
\* wallet's row by rewriting what it read.
ClearBearer(c) ==
    /\ pc[c] = "scrub"
    /\ \/ /\ active # 0 /\ obj[active].bearer
          /\ seen' = [seen EXCEPT ![c] = active]
          /\ plan' = [plan EXCEPT ![c] = [NoPlan EXCEPT !.set = "bearer"]]
          /\ Goto(c, "commit") /\ UNCHANGED draft
       \/ /\ active = 0 /\ row.bearer
          /\ draft' = [draft EXCEPT ![c] = row]
          /\ Goto(c, "rewrite") /\ UNCHANGED <<seen, plan>>
       \/ /\ ~(IF active # 0 THEN obj[active].bearer ELSE row.bearer)
          /\ Goto(c, "leave") /\ UNCHANGED <<seen, plan, draft>>
    /\ UNCHANGED <<now, settings, memory, artifacts, facade, artifact, op, gen, ready, bounds, history>>

Rewrite(c) ==
    /\ pc[c] = "rewrite"
    /\ LET scrubbed == [draft[c] EXCEPT !.bearer = FALSE] IN
         \/ Ok /\ row' = scrubbed
         \/ Fails /\ row' \in {row, scrubbed}
    /\ Goto(c, "leave")
    /\ UNCHANGED <<now, settings, memory, alarm, facade, artifact, locals, ready, kills, history>>

-----------------------------------------------------------------------------
(* The worker: its death, and the silent restore of the next one.          *)

Kill ==
    /\ kills < MaxKills
    /\ kills' = kills + 1
    /\ active' = 0 /\ generation' = 0 /\ rev' = 0
    /\ obj' = [s \in Sessions |-> NoRow]
    /\ budgetEnd' = [s \in Sessions |-> Never]
    /\ facade' = <<>> /\ artifact' = Free
    /\ pc' = [p \in Procs |-> IF p = Boot THEN "restore"
                              ELSE IF p \in Calls /\ pc[p] # "idle" THEN "done" ELSE "idle"]
    /\ op' = [p \in Procs |-> "none"]
    /\ seen' = [p \in Procs |-> 0]
    /\ gen' = [p \in Procs |-> 0]
    /\ draft' = [p \in Procs |-> NoRow]
    /\ plan' = [p \in Procs |-> NoPlan]
    /\ granted' = [s \in Sessions |-> Never]
    /\ anchor' = [s \in Sessions |-> Never]
    /\ raced' = (raced \/ \E c \in Calls : op[c] = "ttl")
    /\ ready' = FALSE
    /\ UNCHANGED <<now, ttl, strict, opened, artifacts, faults, lockedOut>>

\* restore(): an unreadable row restores nothing, an expired one is discarded.
Restore ==
    /\ pc[Boot] = "restore"
    /\ \/ Fails /\ Goto(Boot, "ready") /\ UNCHANGED draft
       \/ Ok /\ ~Persisted /\ Goto(Boot, "ready") /\ UNCHANGED draft
       \/ Ok /\ Persisted /\ IsExpired(row) /\ Goto(Boot, "discard") /\ UNCHANGED draft
       \/ Ok /\ Persisted /\ ~IsExpired(row) /\ Goto(Boot, "lookup") /\ draft' = [draft EXCEPT ![Boot] = row]
    /\ UNCHANGED <<now, settings, memory, artifacts, facade, artifact, op, seen, gen, plan, ready, kills, history>>

\* The profile may be gone, reserved by a deletion or torn; a passkey's row is
\* left to the lock screen; only a bearer outside strict mode goes on.
Lookup ==
    /\ pc[Boot] = "lookup"
    /\ \/ Goto(Boot, "discard")
       \/ draft[Boot].profile \in Passkeys /\ Goto(Boot, "ready")
       \/ draft[Boot].profile \notin Passkeys /\ draft[Boot].bearer /\ ~strict /\ Goto(Boot, "unwrap")
    /\ UNCHANGED <<now, settings, memory, artifacts, facade, artifact, locals, ready, bounds, history>>

\* The bearer opens; strict mode is asked again before the envelope is verified.
Unwrap ==
    /\ pc[Boot] = "unwrap"
    /\ Goto(Boot, "discard") \/ (~strict /\ Goto(Boot, "verify"))
    /\ UNCHANGED <<now, settings, memory, artifacts, facade, artifact, locals, ready, bounds, history>>

\* The envelope is intact: the session the row names is active again.
Rehydrate ==
    /\ pc[Boot] = "verify"
    /\ LET s == draft[Boot].name IN
         \/ /\ active' = s
            /\ obj' = [obj EXCEPT ![s] = draft[Boot]]
            /\ granted' = [granted EXCEPT ![s] = draft[Boot].lockedAt]
            /\ LET at == DeadlineOf(draft[Boot]) IN
                 \/ Ok /\ alarm' = IF Schedulable(at) THEN at ELSE alarm
                 \/ Fails /\ UNCHANGED alarm
            /\ Goto(Boot, "ready")
         \/ Goto(Boot, "discard") /\ Ok /\ UNCHANGED <<active, obj, granted, alarm>>
    /\ UNCHANGED <<now, settings, budgetEnd, opened, generation, row, facade, artifact, locals, ready, kills, anchor, lockedOut, raced>>

\* silentClose: a failed delete leaves the alarm too.
SilentClose ==
    /\ pc[Boot] = "discard"
    /\ \/ Ok /\ row' = NoRow /\ active' = 0 /\ alarm' = Never
       \/ Fails /\ UNCHANGED <<artifacts, active>>
    /\ Goto(Boot, "ready")
    /\ UNCHANGED <<now, settings, obj, budgetEnd, opened, generation, facade, artifact, locals, ready, kills, history>>

Ready ==
    /\ pc[Boot] = "ready"
    /\ ready' = TRUE
    /\ Goto(Boot, "idle")
    /\ UNCHANGED <<now, settings, memory, artifacts, facade, artifact, locals, bounds, history>>

StrictOff ==
    /\ strict
    /\ strict' = FALSE
    /\ UNCHANGED <<now, ttl, rev, memory, artifacts, facade, artifact, pc, locals, ready, bounds, history>>

Tick ==
    /\ now < MaxTime
    /\ now' = now + 1
    /\ UNCHANGED <<settings, memory, artifacts, facade, artifact, pc, locals, ready, bounds, history>>
-----------------------------------------------------------------------------
Call(c) == Request(c) \/ ChangeTtl(c) \/ StrictOn(c) \/ AlarmFires(c)

CallStep(c) ==
    \/ EnterFacade(c) \/ LeaveFacade(c)
    \/ Seal(c) \/ SealFails(c) \/ Build(c) \/ Publish(c) \/ Persist(c) \/ Undo(c) \/ Arm(c)
    \/ ReadBack(c) \/ GetActive(c) \/ Fire(c) \/ Joined(c)
    \/ ApplyTtl(c) \/ ClearBearer(c) \/ Rewrite(c)

\* The steps of close() and commitSession(), whoever called them.
SharedStep(p) ==
    \/ CloseHead(p) \/ StandDown(p) \/ EraseStart(p) \/ Erase(p)
    \/ CommitSkip(p) \/ Commit(p) \/ Write(p) \/ Rearm(p)

BootStep == Restore \/ Lookup \/ Unwrap \/ Rehydrate \/ SilentClose \/ Ready

Progress ==
    \/ \E c \in Calls : CallStep(c) \/ SharedStep(c)
    \/ \E s \in Sessions : Answer(s) \/ Settle(s) \/ SharedStep(s)
    \/ BootStep

Next == Progress \/ (\E c \in Calls : Call(c)) \/ Kill \/ StrictOff \/ Tick

Spec == Init /\ [][Next]_vars

-----------------------------------------------------------------------------
(* Properties.                                                             *)

\* A live session always has its own row, as it is in memory: no close,
\* restore or setting of another session removes or overwrites it (the
\* generation fence of close() and the identity guard of commitSession()).
\* Only a setting that changes during a restore can leave an older copy.
LiveHasRow ==
    (faults = 0 /\ active # 0 /\ artifact = Free) =>
        row.name = active /\ (~raced => row = obj[active])

\* The auto-lock is armed: the alarm is set for exactly the deadline of a live
\* session that has not reached it, unless a TTL change is still on its
\* way, died with its worker or found it still restoring.
AutoLockArmed ==
    (/\ faults = 0 /\ active # 0 /\ artifact = Free
     /\ ~raced /\ \A c \in Calls : op[c] # "ttl"
     /\ ttl # 0 /\ ~IsExpired(obj[active])) => alarm = DeadlineOf(obj[active])

\* A lock reported to the user is final: none of the sessions it ended is live
\* again or could be restored, whatever was in flight and whatever failed.
LockIsFinal ==
    \A s \in lockedOut : active # s /\ ~(row.name = s /\ row.bearer)

\* An expired session outlives its deadline by the deferral budget at most,
\* counted from the first deadline it outlived.
DeferralBounded ==
    \A s \in Sessions :
        obj[s].lockedAt # Never =>
            \/ obj[s].lockedAt = granted[s]
            \/ anchor[s] # Never /\ obj[s].lockedAt <= anchor[s] + Deferral

\* Nobody waits for ever: whenever a call, a decision or the restore is in
\* flight one of them can go on, so the facade lock, the artifact lock and the
\* decision that reads join never wait on each other in a circle.
NoCircularWait ==
    (\E p \in Procs : pc[p] \notin {"idle", "done"}) => ENABLED Progress

\* Strict mode erases the bearer: once everything has settled neither the row
\* nor the live session, whose next refresh would write it back, holds one
\* (clearBearer, restore).  Left out: storage that failed, and a setting that
\* changed in the middle of a restore, which has read it before its last await.
StrictErasesBearer ==
    (strict /\ faults = 0 /\ ~raced /\ \A p \in Procs : pc[p] \in {"idle", "done"}) =>
        ~row.bearer /\ (active # 0 => ~obj[active].bearer)
=============================================================================
