------------------------------ MODULE Migrator ------------------------------
(***************************************************************************)
(* The crash-safe storage migration engine of                              *)
(* packages/wallet-core/src/migration/migrator.ts and staging.ts.          *)
(*                                                                         *)
(* One call of run() after every start of the service worker.  Each await  *)
(* on the store is a step that may succeed or throw, and the worker may be *)
(* killed between any two steps.  A call that writes several keys lands    *)
(* one key at a time, in any order; a write of one key lands or does not.  *)
(*                                                                         *)
(* A row is represented by its shape: the version of the migration that    *)
(* wrote it, 0 for the shape before any migration, or Absent.              *)
(***************************************************************************)
EXTENDS Integers, FiniteSetsExt

CONSTANTS
    Keys,        \* user keys of chrome.storage.local
    Original,    \* [Keys -> {0, Absent}], the store before any migration
    Migrations,  \* the registered versions
    Baseline,    \* baselineVersion
    Sets,        \* [Migrations -> SUBSET Keys], the rows up() stages as set
    Removes,     \* [Migrations -> SUBSET Keys], the rows up() stages as removed
    Reads,       \* [Migrations -> SUBSET Keys], declared but not written
    Breaking,    \* the migrations with breaking: true
    MaxRetries,  \* maxRetries
    MaxFaults,   \* bound on throws
    MaxKills     \* bound on kills of the service worker

Absent == -1

ASSUME MigratorAssumption ==
    /\ Original \in [Keys -> {0, Absent}]
    /\ Migrations \subseteq Nat \ {0}
    /\ \A S \in SUBSET Migrations : S # {} =>        \* a finite list, sorted by version
          \E first, last \in S : \A n \in S : first <= n /\ n <= last
    /\ Baseline \in Nat
    /\ Sets \in [Migrations -> SUBSET Keys]
    /\ Removes \in [Migrations -> SUBSET Keys]
    /\ Reads \in [Migrations -> SUBSET Keys]
    /\ \A m \in Migrations : Sets[m] \cap Removes[m] = {}
    /\ Breaking \subseteq Migrations
    /\ MaxRetries \in Nat \ {0} /\ MaxFaults \in Nat /\ MaxKills \in Nat

VARIABLES
    data,      \* disk: the user's rows
    version,   \* disk: nulo:schema:version, None when missing
    legacy,    \* disk: the legacy marker is present
    running,   \* disk: nulo:schema:running is present
    backup,    \* disk: nulo:schema:backup, NoBackup when missing
    attempts,  \* disk: nulo:schema:attempts
    pc,        \* memory: where run() is
    m,         \* memory: the migration being applied
    cause,     \* memory: why the journal is being settled
    bumps,     \* memory: bumps of this run (attemptRecorded is bumps > 0)
    result,    \* memory: what run() returned
    faults,    \* history: throws so far
    kills,     \* history: kills so far
    incidents  \* history: for each migration, the failures that may be counted

disk == <<data, version, legacy, running, backup, attempts>>
memory == <<pc, m, cause, bumps, result>>
engineVars == <<disk, memory, faults, kills, incidents>>

None == -1
NoBackup == [version |-> None, entries |-> <<>>, counted |-> FALSE]
NoAttempts == [version |-> None, count |-> 0]
NoResult == [kind |-> "none", final |-> FALSE, spent |-> FALSE, breaking |-> FALSE]

MaxVersion == Max(Migrations \cup {Baseline})
Footprint(v) == Reads[v] \cup Sets[v] \cup Removes[v]
Later(v) == {n \in Migrations : n > v}

\* The store a wallet at version v must have: every migration up to v applied.
ShapeAt(v) ==
    [k \in Keys |->
        LET touching == {n \in Migrations : n <= v /\ k \in Sets[n] \cup Removes[n]}
        IN  IF touching = {} THEN Original[k]
            ELSE IF k \in Sets[Max(touching)] THEN Max(touching) ELSE Absent]

IsValidMarker(v) == v \in 0 .. MaxVersion

\* A first start finds a fresh store, a store of the forked app, a store of this
\* or an older build, or one a newer build left behind, perhaps mid-migration.
\* A fresh store has no rows: it has the shape of every version.
Init ==
    /\ \/ version = None /\ legacy \in BOOLEAN /\ data = ShapeAt(MaxVersion)
       \/ version \in 0 .. MaxVersion + 1 /\ legacy = FALSE /\ data = ShapeAt(version)
    /\ \/ running = FALSE /\ backup = NoBackup
       \/ /\ version >= MaxVersion
          /\ running = TRUE
          /\ backup = [version |-> MaxVersion + 1, entries |-> data, counted |-> FALSE]
    /\ attempts = NoAttempts
    /\ pc = "off" /\ m = None /\ cause = "none" /\ bumps = 0 /\ result = NoResult
    /\ faults = 0 /\ kills = 0 /\ incidents = [n \in Migrations |-> 0]

-----------------------------------------------------------------------------
Goto(where) == pc' = where /\ UNCHANGED <<m, cause, bumps, result>>

\* run() returns; nothing of this call is left.
Return(r) ==
    /\ pc' = "returned" /\ result' = r
    /\ m' = None /\ cause' = "none" /\ UNCHANGED bumps

Ok(kind) == [kind |-> kind, final |-> FALSE, spent |-> FALSE, breaking |-> FALSE]
NeedsRecovery(retryable) ==
    [kind |-> "needs-recovery", final |-> ~retryable, spent |-> TRUE, breaking |-> FALSE]

Fault == faults < MaxFaults /\ faults' = faults + 1 /\ UNCHANGED kills
NoFault == UNCHANGED <<faults, kills>>

Start ==
    /\ pc = "off"
    /\ pc' = "resume" /\ bumps' = 0 /\ result' = NoResult
    /\ NoFault /\ UNCHANGED <<disk, m, cause, incidents>>

\* Mutant: a barrier without a journal is taken for nothing to resume.
ResumeKeepsDebris ==
    /\ pc = "resume" /\ NoFault
    /\ UNCHANGED <<data, version, legacy, running, backup, attempts, incidents>>
    /\ \/ ~(running /\ backup # NoBackup) /\ Goto("marker")
       \/ /\ running /\ backup # NoBackup
          /\ ~(IsValidMarker(version) /\ backup.version \in 1 .. MaxVersion)
          /\ Return(NeedsRecovery(FALSE))
       \/ /\ running /\ backup # NoBackup
          /\ IsValidMarker(version) /\ backup.version \in 1 .. MaxVersion
          /\ cause' = IF version >= backup.version THEN "committed" ELSE "interrupted"
          /\ pc' = IF version >= backup.version THEN "clear" ELSE "restore"
          /\ UNCHANGED <<m, bumps, result>>

\* resumeIfInterrupted() up to the restore.  Debris (a backup without running, or
\* running without a backup) is removed; a journal this build cannot judge is kept.
Resume ==
    /\ pc = "resume" /\ NoFault
    /\ UNCHANGED <<data, version, legacy, attempts, incidents>>
    /\ \/ /\ ~(running /\ backup # NoBackup)
          /\ running' = FALSE /\ backup' = NoBackup
          /\ Goto("marker")
       \/ /\ running /\ backup # NoBackup
          /\ ~(IsValidMarker(version) /\ backup.version \in 1 .. MaxVersion)
          /\ UNCHANGED <<running, backup>>
          /\ Return(NeedsRecovery(FALSE))
       \/ /\ running /\ backup # NoBackup
          /\ IsValidMarker(version) /\ backup.version \in 1 .. MaxVersion
          /\ cause' = IF version >= backup.version THEN "committed" ELSE "interrupted"
          /\ pc' = IF version >= backup.version THEN "clear" ELSE "restore"
          /\ UNCHANGED <<m, bumps, result, running, backup>>

\* restore(): put the footprint back to the snapshot, one key at a time.
RestoreKey ==
    /\ pc = "restore" /\ NoFault
    /\ \E k \in DOMAIN backup.entries :
          /\ data[k] # backup.entries[k]
          /\ data' = [data EXCEPT ![k] = backup.entries[k]]
    /\ UNCHANGED <<version, legacy, running, backup, attempts, memory, incidents>>

\* The restore is complete: a failed up() and an interrupted run are counted, an
\* interruption that was counted before is not.
Restored ==
    /\ pc = "restore" /\ NoFault
    /\ \A k \in DOMAIN backup.entries : data[k] = backup.entries[k]
    /\ IF cause = "interrupted" /\ backup.counted
       THEN pc' = "clear" /\ cause' = "resumed"
       ELSE pc' = "mark" /\ UNCHANGED cause
    /\ UNCHANGED <<disk, m, bumps, result, incidents>>

\* The restore throws: the journal stays for the next start.
RestoreThrows ==
    /\ pc = "restore" /\ Fault
    /\ pc' = "mark" /\ cause' = "restore_failed"
    /\ incidents' = IF cause = "interrupted" /\ backup.counted
                    THEN [incidents EXCEPT ![backup.version] = @ + 1] ELSE incidents
    /\ UNCHANGED <<disk, m, bumps, result>>

Counted ==
    [version |-> backup.version,
     count |-> IF attempts.version = backup.version THEN attempts.count + 1 ELSE 1]

\* Mutant: the attempt is counted before the journal is marked as counted.
MarkBumps ==
    /\ pc = "mark" /\ NoFault
    /\ attempts' = Counted /\ bumps' = bumps + 1
    /\ pc' = "bump"
    /\ UNCHANGED <<data, version, legacy, running, backup, m, cause, result, incidents>>

\* markJournalCounted(): before the bump, so that a kill in between counts the
\* incident too little and never twice.
Mark ==
    /\ pc = "mark" /\ NoFault
    /\ backup' = [backup EXCEPT !.counted = TRUE]
    /\ Goto("bump")
    /\ UNCHANGED <<data, version, legacy, running, attempts, incidents>>

\* bumpAttempts().  A journal whose restore failed is kept, others are cleared.
Bump ==
    /\ pc = "bump" /\ NoFault
    /\ attempts' = Counted /\ bumps' = bumps + 1
    /\ IF cause = "restore_failed"
       THEN /\ pc' = "returned"
            /\ result' = NeedsRecovery(Counted.count < MaxRetries)
            /\ m' = None /\ cause' = "none"
       ELSE pc' = "clear" /\ UNCHANGED <<m, cause, result>>
    /\ UNCHANGED <<data, version, legacy, running, backup, incidents>>

\* remove([backup, running]), either key first.
ClearKey ==
    /\ pc = "clear" /\ NoFault
    /\ \/ backup # NoBackup /\ backup' = NoBackup /\ UNCHANGED running
       \/ running /\ running' = FALSE /\ UNCHANGED backup
    /\ UNCHANGED <<data, version, legacy, attempts, memory, incidents>>

\* Mutant: a failure in the middle keeps the flag of its own migration.
FailureResultOwnFlag ==
    IF cause = "interrupted" THEN NeedsRecovery(attempts.count < MaxRetries)
    ELSE [kind |-> "failed", final |-> attempts.count >= MaxRetries, spent |-> TRUE,
          breaking |-> m \in Breaking]

\* What a run returns once the journal of a counted failure is cleared; a failure
\* that leaves later migrations pending is escalated to breaking.
FailureResult ==
    IF cause = "interrupted" THEN NeedsRecovery(attempts.count < MaxRetries)
    ELSE [kind |-> "failed", final |-> attempts.count >= MaxRetries, spent |-> TRUE,
          breaking |-> m \in Breaking \/ Later(m) # {}]

\* Mutant: the run that counted an interrupted attempt goes on to run up() again.
ClearedNoStandDown ==
    /\ pc = "clear" /\ NoFault
    /\ backup = NoBackup /\ ~running
    /\ IF cause # "up_failed" THEN Goto("marker") ELSE Return(FailureResult)
    /\ UNCHANGED <<disk, incidents>>

\* The journal is gone: a counted interruption stands down, the others go on.
Cleared ==
    /\ pc = "clear" /\ NoFault
    /\ backup = NoBackup /\ ~running
    /\ IF cause \in {"committed", "resumed"} THEN Goto("marker") ELSE Return(FailureResult)
    /\ UNCHANGED <<disk, incidents>>

\* runInner() after the resume: judge the marker.
Marker ==
    /\ pc = "marker" /\ NoFault
    /\ \/ /\ version = None /\ legacy
          /\ Return(NeedsRecovery(FALSE)) /\ UNCHANGED disk
       \/ /\ version = None /\ ~legacy
          /\ version' = MaxVersion
          /\ Return(Ok("fresh")) /\ UNCHANGED <<data, legacy, running, backup, attempts>>
       \/ /\ version # None /\ ~IsValidMarker(version)
          /\ Return(NeedsRecovery(FALSE)) /\ UNCHANGED disk
       \/ /\ version = MaxVersion
          /\ Return(Ok("noop")) /\ UNCHANGED disk
       \/ /\ version \in 0 .. MaxVersion - 1
          /\ running' = TRUE
          /\ Goto("next") /\ UNCHANGED <<data, version, legacy, backup, attempts>>
    /\ UNCHANGED incidents

\* applyOne(): snapshot the declared footprint and arm the journal with it.
ArmJournal ==
    /\ pc = "next" /\ NoFault
    /\ Later(version) # {}
    /\ LET n == Min(Later(version))
       IN  /\ backup' = [version |-> n, counted |-> FALSE,
                         entries |-> [k \in Footprint(n) |-> data[k]]]
           /\ m' = n
           /\ incidents' = [incidents EXCEPT ![n] = @ + 1]
    /\ pc' = "up"
    /\ UNCHANGED <<data, version, legacy, running, attempts, cause, bumps, result>>

\* up() fills the staging area and guardCommit() accepts the diff.
Up ==
    /\ pc = "up" /\ NoFault
    /\ Goto("commit")
    /\ UNCHANGED <<disk, incidents>>

\* The diff is committed: first the sets, then the removes, key by key.
CommitKey ==
    /\ pc = "commit" /\ NoFault
    /\ \/ \E k \in Sets[m] : data[k] # m /\ data' = [data EXCEPT ![k] = m]
       \/ /\ \A k \in Sets[m] : data[k] = m
          /\ \E k \in Removes[m] : data[k] # Absent /\ data' = [data EXCEPT ![k] = Absent]
    /\ UNCHANGED <<version, legacy, running, backup, attempts, memory, incidents>>

Stamp ==
    /\ pc = "commit" /\ NoFault
    /\ \A k \in Sets[m] : data[k] = m
    /\ \A k \in Removes[m] : data[k] = Absent
    /\ version' = m
    /\ Goto("cleanup")
    /\ UNCHANGED <<data, legacy, running, backup, attempts, incidents>>

\* up(), the guard, the commit or the stamp throws.
ApplyThrows ==
    /\ pc \in {"up", "commit"} /\ Fault
    /\ pc' = "restore" /\ cause' = "up_failed"
    /\ UNCHANGED <<disk, m, bumps, result, incidents>>

\* Mutant: a failed cleanup is handled like a failed migration.
CleanupThrowRestores ==
    /\ pc = "cleanup"
    /\ \/ NoFault /\ backup' = NoBackup /\ pc' = "next" /\ UNCHANGED cause
       \/ Fault /\ pc' = "restore" /\ cause' = "up_failed" /\ UNCHANGED backup
    /\ UNCHANGED <<data, version, legacy, running, attempts, m, bumps, result, incidents>>

\* The backup of a stamped migration is removed; a throw changes nothing any more.
Cleanup ==
    /\ pc = "cleanup"
    /\ \/ NoFault /\ backup' = NoBackup
       \/ Fault /\ UNCHANGED backup
    /\ Goto("next")
    /\ UNCHANGED <<data, version, legacy, running, attempts, incidents>>

\* Mutant: the run ends without taking the barrier down.
FinishBarrierUp ==
    /\ pc \in {"next", "finish"} /\ NoFault
    /\ Later(version) = {}
    /\ version' = MaxVersion /\ attempts' = NoAttempts
    /\ Return(Ok("migrated"))
    /\ UNCHANGED <<data, legacy, backup, running, incidents>>

\* Every migration is in: stamp the floor, then remove([attempts, running]).
Finish ==
    /\ NoFault
    /\ \/ /\ pc = "next" /\ Later(version) = {}
          /\ version' = MaxVersion
          /\ Goto("finish") /\ UNCHANGED <<running, attempts>>
       \/ /\ pc = "finish"
          /\ \/ attempts # NoAttempts /\ attempts' = NoAttempts /\ UNCHANGED running
             \/ running /\ running' = FALSE /\ UNCHANGED attempts
          /\ Goto("finish") /\ UNCHANGED version
       \/ /\ pc = "finish" /\ attempts = NoAttempts /\ ~running
          /\ Return(Ok("migrated")) /\ UNCHANGED <<version, running, attempts>>
    /\ UNCHANGED <<data, legacy, backup, incidents>>

\* Any other throw escapes to the catch of run(), which clears nothing.
Escapes ==
    /\ pc \in {"resume", "mark", "bump", "clear", "marker", "next", "finish"} /\ Fault
    /\ Return([NeedsRecovery(TRUE) EXCEPT !.spent = bumps > 0])
    /\ UNCHANGED <<disk, incidents>>

\* The service worker is killed.
Kill ==
    /\ pc # "off" /\ kills < MaxKills
    /\ kills' = kills + 1
    /\ pc' = "off" /\ m' = None /\ cause' = "none" /\ bumps' = 0 /\ result' = NoResult
    /\ UNCHANGED <<disk, faults, incidents>>

\* The steps of run().
Run ==
    \/ Resume \/ RestoreKey \/ Restored \/ RestoreThrows \/ Mark \/ Bump
    \/ ClearKey \/ Cleared \/ Marker \/ ArmJournal \/ Up \/ CommitKey \/ Stamp
    \/ ApplyThrows \/ Cleanup \/ Finish \/ Escapes

\* The worker is idle after run() and is stopped by the browser.
StopIdle ==
    /\ pc = "returned"
    /\ pc' = "off" /\ bumps' = 0 /\ result' = NoResult
    /\ UNCHANGED <<disk, m, cause, faults, kills, incidents>>

\* The engine alone, started again whenever it was stopped or killed.
EngineNext == Start \/ Run \/ Kill \/ StopIdle

EngineSpec == Init /\ [][EngineNext]_engineVars

-----------------------------------------------------------------------------
\* The journal is open: a migration may have written rows without its stamp.
Open == running /\ backup # NoBackup /\ version < backup.version

\* No user row is lost or half-migrated, whatever is killed or throws: outside an
\* open journal the rows are exactly those of the stamped version, and an open
\* journal holds the stamped version's value of every row that may differ
\* (migrator.ts applyOne, resumeIfInterrupted, restore).
DataRecoverable ==
    version # None =>
        IF Open
        THEN \A k \in Keys :
                IF k \in DOMAIN backup.entries
                THEN backup.entries[k] = ShapeAt(version)[k]
                ELSE data[k] = ShapeAt(version)[k]
        ELSE data = ShapeAt(version)

\* What run() reports is true of the disk: success means the newest shape, a failed
\* migration means the old shape, and in both cases the barrier is down, so that
\* no page waits for it for ever (migrator.ts 28-31, 186-198, 273).
OutcomeTrue ==
    /\ result.kind \in {"noop", "migrated", "fresh"} => version = MaxVersion /\ ~running
    /\ result.kind = "failed" => /\ version < MaxVersion /\ ~running /\ backup = NoBackup
                                 /\ data = ShapeAt(version)

\* One failed or interrupted attempt is counted at most once over all restarts,
\* so a retry budget is never used up by a kill between two writes
\* (migrator.ts 62-66, 267-272, 360-371).
NeverCountedTwice ==
    attempts # NoAttempts => attempts.count <= incidents[attempts.version]

\* One run() spends at most one attempt: a run that counts an interrupted attempt
\* stands down and leaves the next up() to a later start (migrator.ts 360-367).
OneAttemptPerRun == bumps <= 1
=============================================================================
