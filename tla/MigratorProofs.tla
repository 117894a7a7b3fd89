--------------------------- MODULE MigratorProofs ---------------------------
(***************************************************************************)
(* The migration engine, proved for every list of migrations, every        *)
(* footprint and every number of kills, throws and restarts.               *)
(*                                                                         *)
(* EngineInv says, label by label of run(), what the journal, the marker   *)
(* and the rows are to each other, and what the counter of attempts owes   *)
(* to the incidents it counts.  It is inductive for the engine alone and   *)
(* for the boot around it (MigrationBootProofs).                           *)
(***************************************************************************)
EXTENDS Migrator, TLAPS

\* n is the first migration a store at the stamped version still needs.
NextUp(n) ==
    /\ n \in Migrations /\ version < n
    /\ \A j \in Migrations : version < j => n <= j

\* The journal was written by this build ...
Armed == backup.version \in Migrations

\* ... or by a newer one, before the first start of this one.
Foreign == backup.version = MaxVersion + 1

\* A migration of this build may have written rows without its stamp.
Unstamped == Armed /\ running /\ version < backup.version

Labels == {"off", "resume", "restore", "mark", "bump", "clear", "marker", "next", "up",
           "commit", "cleanup", "finish", "returned"}

EngineTypes ==
    /\ data = [k \in Keys |-> data[k]]
    /\ version \in Int
    /\ backup = [version |-> backup.version, entries |-> backup.entries,
                 counted |-> backup.counted]
    /\ attempts \in [version : Int, count : Nat]
    /\ attempts # NoAttempts => attempts.version \in Migrations
    /\ pc \in Labels /\ bumps \in {0, 1}
    /\ incidents \in [Migrations -> Nat]

\* What the disk can hold, whatever run() was doing when it was stopped.
DiskInv ==
    /\ version \in None .. MaxVersion + 1
    /\ version = None => data = ShapeAt(MaxVersion) /\ ~running /\ backup = NoBackup
    /\ \/ backup = NoBackup
       \/ /\ Armed
          /\ DOMAIN backup.entries = Footprint(backup.version)
          /\ version \in 0 .. MaxVersion
          /\ version < backup.version => NextUp(backup.version)
       \/ Foreign /\ running /\ DOMAIN backup.entries = Keys
    /\ ~IsValidMarker(version) \/ Foreign => attempts = NoAttempts

\* Where run() is, and what it knows there.
PcInv ==
    /\ pc \in {"restore", "mark", "bump"} =>
          /\ Unstamped
          /\ cause \in {"interrupted", "up_failed", "restore_failed"}
          /\ cause = "up_failed" => m = backup.version
    /\ pc = "restore" => cause # "restore_failed"
    /\ pc = "restore" /\ cause = "up_failed" => ~backup.counted
    /\ pc \in {"mark", "bump"} /\ cause # "restore_failed" => data = ShapeAt(version)
    /\ pc = "bump" => backup.counted
    /\ pc = "clear" =>
          /\ IsValidMarker(version) /\ ~Foreign
          /\ data = ShapeAt(version)
          /\ cause \in {"committed", "interrupted", "up_failed", "resumed"}
          /\ cause \in {"interrupted", "up_failed"} => version < MaxVersion
          /\ cause = "up_failed" => NextUp(m)
    /\ pc = "marker" => ~running /\ backup = NoBackup
    /\ pc \in {"next", "finish"} =>
          IsValidMarker(version) /\ ~Foreign /\ ~Unstamped
    /\ pc = "next" => running
    /\ pc \in {"up", "commit"} =>
          /\ Unstamped /\ m = backup.version /\ ~backup.counted
          /\ \A k \in Keys : k \notin Sets[m] \cup Removes[m] => data[k] = ShapeAt(version)[k]
    /\ pc = "cleanup" => running /\ Armed /\ version = backup.version
    /\ pc = "finish" => version = MaxVersion

\* The result belongs to the run that ended.
ResultInv ==
    /\ pc # "returned" => result = NoResult
    /\ bumps # 0 => pc = "returned" \/ (pc = "clear" /\ cause \in {"interrupted", "up_failed"})
    /\ result.kind = "needs-recovery" /\ ~result.spent => bumps = 0
    /\ result.final => version # MaxVersion \/ attempts = NoAttempts
    /\ result.kind = "failed" /\ ~result.breaking =>
          \E n \in Migrations : Later(version) = {n} /\ n \notin Breaking

Spent(n) == IF attempts.version = n THEN attempts.count ELSE 0

\* Every attempt counted has an incident of its own, and an incident that is still
\* to be counted has not been counted.
CreditInv ==
    /\ \A n \in Migrations : Spent(n) <= incidents[n]
    /\ Armed /\ (~backup.counted \/ pc \in {"mark", "bump"}) =>
          Spent(backup.version) < incidents[backup.version]

EngineInv ==
    /\ EngineTypes /\ DiskInv /\ PcInv /\ ResultInv /\ CreditInv
    /\ DataRecoverable /\ OutcomeTrue

\* A step of the engine that keeps EngineInv.
Keeps(A) == EngineInv /\ A => EngineInv'

-----------------------------------------------------------------------------
\* An element of a set of integers that no other exceeds is its maximum.
LEMMA MaxIs ==
    ASSUME NEW S \in SUBSET Int, NEW x \in S, \A y \in S : x >= y
    PROVE  Max(S) = x
<1> DEFINE top == CHOOSE z \in S : \A y \in S : z >= y
<1>1. top \in S /\ \A y \in S : top >= y
  BY Zenon
<1>2. top \in Int /\ x \in Int
  BY <1>1, Zenon
<1>3. top >= x /\ x >= top
  BY <1>1, Zenon
<1>4. top = x
  BY <1>2, <1>3
<1> QED
  BY <1>4, Zenon DEF Max

\* The first of some migrations is their minimum.
LEMMA MinIs ==
    ASSUME NEW S \in SUBSET Migrations, S # {}
    PROVE  Min(S) \in S /\ \A y \in S : Min(S) <= y
<1>1. \E x \in S : \A y \in S : x <= y
  BY MigratorAssumption, Zenon
<1> QED
  BY <1>1, Zenon DEF Min

\* maxVersion is registered or the baseline, and no migration is above it
\* (migrator.ts, constructor).
LEMMA MaxVersionBounds ==
    /\ MaxVersion \in Nat
    /\ \A n \in Migrations : n <= MaxVersion
<1> DEFINE S == Migrations \cup {Baseline}
<1>1. S \in SUBSET Int /\ S \subseteq Nat
  BY MigratorAssumption
<1>2. PICK x \in S : \A y \in S : x >= y
  <2>1. CASE Migrations = {}
    <3>1. Baseline \in S /\ \A y \in S : Baseline >= y
      BY <2>1, MigratorAssumption
    <3> QED
      BY <3>1
  <2>2. CASE Migrations # {}
    <3>1. PICK top \in Migrations : \A n \in Migrations : n <= top
      BY <2>2, MigratorAssumption, Zenon
    <3>2. top \in Nat /\ Baseline \in Nat
      BY MigratorAssumption
    <3>3. CASE top >= Baseline
      BY <3>1, <3>2, <3>3, <1>1
    <3>4. CASE Baseline >= top
      <4>1. \A y \in S : Baseline >= y
        BY <3>1, <3>2, <3>4, <1>1
      <4> QED
        BY <4>1
    <3> QED
      BY <3>2, <3>3, <3>4
  <2> QED
    BY <2>1, <2>2
<1>3. Max(S) = x
  BY <1>1, <1>2, MaxIs
<1>4. MaxVersion = x
  BY <1>3 DEF MaxVersion
<1> QED
  BY <1>1, <1>2, <1>4

\* The rows a migration writes are those its version is the newest to touch.
LEMMA ShapeOfTouched ==
    ASSUME NEW n \in Migrations, NEW k \in Keys, k \in Sets[n] \cup Removes[n]
    PROVE  ShapeAt(n)[k] = IF k \in Sets[n] THEN n ELSE Absent
<1> DEFINE touching == {j \in Migrations : j <= n /\ k \in Sets[j] \cup Removes[j]}
<1>0. Migrations \subseteq Int
  BY MigratorAssumption
<1>1. touching \in SUBSET Int /\ n \in touching /\ \A j \in touching : n >= j
  <2>1. n <= n
    BY <1>0
  <2>2. n \in touching
    BY <2>1, Zenon
  <2>3. \A j \in touching : j \in Int /\ n >= j
    BY <1>0
  <2> QED
    BY <2>2, <2>3
<1>2. Max(touching) = n /\ touching # {}
  BY <1>1, MaxIs
<1>3. ShapeAt(n)[k] = IF touching = {} THEN Original[k]
                      ELSE IF k \in Sets[Max(touching)] THEN Max(touching) ELSE Absent
  BY Zenon DEF ShapeAt
<1> HIDE DEF touching
<1> QED
  BY <1>2, <1>3

\* A row that no migration in between touches has the same shape at both versions.
LEMMA ShapeOfUntouched ==
    ASSUME NEW v \in Int, NEW w \in Int, v <= w, NEW k \in Keys,
           \A j \in Migrations : v < j /\ j <= w => k \notin Sets[j] \cup Removes[j]
    PROVE  ShapeAt(w)[k] = ShapeAt(v)[k]
<1> DEFINE touching(u) == {j \in Migrations : j <= u /\ k \in Sets[j] \cup Removes[j]}
<1> DEFINE row(S) == IF S = {} THEN Original[k]
                     ELSE IF k \in Sets[Max(S)] THEN Max(S) ELSE Absent
<1>0. Migrations \subseteq Int
  BY MigratorAssumption
<1>1. touching(w) = touching(v)
  <2>1. ASSUME NEW j \in Migrations, k \in Sets[j] \cup Removes[j]
        PROVE  j <= w <=> j <= v
    BY <1>0, <2>1
  <2> QED
    BY <2>1
<1>2. ShapeAt(w)[k] = row(touching(w)) /\ ShapeAt(v)[k] = row(touching(v))
  BY Zenon DEF ShapeAt
<1> HIDE DEF touching, row
<1> QED
  BY <1>1, <1>2

\* What applying the next migration makes of the rows.
LEMMA ShapeStep ==
    ASSUME NEW v \in Int, NEW n \in Migrations, v < n,
           \A j \in Migrations : v < j => n <= j, NEW k \in Keys
    PROVE  ShapeAt(n)[k] = IF k \in Sets[n] THEN n
                           ELSE IF k \in Removes[n] THEN Absent ELSE ShapeAt(v)[k]
<1>0. Migrations \subseteq Int
  BY MigratorAssumption
<1>1. CASE k \in Sets[n] \cup Removes[n]
  BY <1>1, ShapeOfTouched
<1>2. CASE k \notin Sets[n] \cup Removes[n]
  <2>1. ASSUME NEW j \in Migrations, v < j, j <= n
        PROVE  k \notin Sets[j] \cup Removes[j]
    BY <1>0, <1>2, <2>1
  <2>2. n \in Int /\ v <= n
    BY <1>0
  <2>3. ShapeAt(n)[k] = ShapeAt(v)[k]
    BY <2>1, <2>2, ShapeOfUntouched
  <2> QED
    BY <1>2, <2>3
<1> QED
  BY <1>1, <1>2

\* Two stores with the same rows are the same store.
LEMMA SameRows ==
    ASSUME NEW d, d = [k \in Keys |-> d[k]], NEW v, \A k \in Keys : d[k] = ShapeAt(v)[k]
    PROVE  d = ShapeAt(v)
<1>1. ShapeAt(v) = [k \in Keys |-> ShapeAt(v)[k]]
  BY DEF ShapeAt
<1> QED
  BY <1>1

\* Without a migration left the store has the newest shape.
LEMMA ShapeAtEnd ==
    ASSUME NEW v \in Int, v <= MaxVersion, Later(v) = {}
    PROVE  ShapeAt(v) = ShapeAt(MaxVersion)
<1>0. Migrations \subseteq Int /\ ShapeAt(v) = [k \in Keys |-> ShapeAt(v)[k]]
  BY MigratorAssumption DEF ShapeAt
<1>1. ASSUME NEW k \in Keys
      PROVE  ShapeAt(MaxVersion)[k] = ShapeAt(v)[k]
  <2>1. \A j \in Migrations : v < j /\ j <= MaxVersion => k \notin Sets[j] \cup Removes[j]
    BY <1>0 DEF Later
  <2> QED
    BY <2>1, MaxVersionBounds, ShapeOfUntouched
<1> HIDE DEF ShapeAt
<1> QED
  BY <1>1, <1>0, SameRows

\* applyOne() takes the first migration the store still needs.
LEMMA MinIsNextUp ==
    ASSUME version \in Int, Later(version) # {}
    PROVE  NextUp(Min(Later(version)))
<1>0. Migrations \subseteq Nat
  BY MigratorAssumption
<1>1. Later(version) \in SUBSET Migrations
  BY Zenon DEF Later
<1>2. Min(Later(version)) \in Later(version)
      /\ \A j \in Later(version) : Min(Later(version)) <= j
  BY <1>1, MinIs, Zenon
<1> QED
  BY <1>0, <1>2 DEF Later, NextUp

\* Versions are positive; -1 is no version.
LEMMA VersionsPositive == Migrations \subseteq Nat \ {0} /\ Absent = -1
BY MigratorAssumption DEF Absent

-----------------------------------------------------------------------------
\* The disk's part of the invariant, where a step writes nothing but the counter.
LEMMA DiskStays ==
    ASSUME DiskInv, DataRecoverable, UNCHANGED <<data, version, running, backup>>,
           attempts' = attempts \/ attempts' = NoAttempts
    PROVE  DiskInv' /\ DataRecoverable'
BY DEF DiskInv, DataRecoverable, Open, Armed, Foreign, NextUp

\* A start of run() finds the disk as it was left.
LEMMA StartKeeps == Keeps(Start)
<1> SUFFICES ASSUME EngineTypes, DiskInv, PcInv, ResultInv, CreditInv, DataRecoverable,
                    OutcomeTrue,
                    Start
             PROVE  EngineInv'
  BY DEF Keeps, EngineInv
<1>1. EngineTypes' /\ DiskInv' /\ DataRecoverable' /\ CreditInv' /\ OutcomeTrue' /\ ResultInv'
  BY DiskStays
     DEF EngineTypes, Labels, Start, disk, CreditInv, Spent, Armed, OutcomeTrue, NoResult,
         ResultInv
<1>3. PcInv'
  BY DEF PcInv, Start
<1> QED
  BY <1>1, <1>3 DEF EngineInv

\* Resuming judges the journal by the marker and keeps every row (migrator.ts,
\* resumeIfInterrupted).
LEMMA ResumeKeeps == Keeps(Resume)
<1> SUFFICES ASSUME EngineTypes, DiskInv, PcInv, ResultInv, CreditInv, DataRecoverable,
                    OutcomeTrue,
                    Resume
             PROVE  EngineInv'
  BY DEF Keeps, EngineInv
<1>1. EngineTypes'
  BY DEF EngineTypes, Labels, NoBackup, Resume, Goto, Return, NeedsRecovery
<1>2. DiskInv'
  BY DEF DiskInv, NextUp, Armed, Foreign, NoBackup, None, Resume, NeedsRecovery
<1>3. PcInv'
  BY MaxVersionBounds DEF DiskInv, PcInv, DataRecoverable, Open, Armed, Foreign,
         Unstamped, Resume, Goto, Return, NeedsRecovery
<1>4. ResultInv'
  BY MaxVersionBounds, VersionsPositive DEF EngineTypes, DiskInv, ResultInv, Armed,
         Resume, Goto, Return, NeedsRecovery
<1>5. CreditInv'
  BY VersionsPositive DEF CreditInv, Spent, Armed, NoBackup, None, Resume, Return,
         NeedsRecovery
<1>6. DataRecoverable' /\ OutcomeTrue'
  BY DEF DataRecoverable, Open, Resume, NeedsRecovery, OutcomeTrue, Goto, Return
<1> QED
  BY <1>1, <1>2, <1>3, <1>4, <1>5, <1>6 DEF EngineInv

\* A restored row has the value of the stamped version.
LEMMA RestoreKeyKeeps == Keeps(RestoreKey)
<1> SUFFICES ASSUME EngineTypes, DiskInv, PcInv, ResultInv, CreditInv, DataRecoverable,
                    OutcomeTrue,
                    RestoreKey
             PROVE  EngineInv'
  BY DEF Keeps, EngineInv
<1>1. EngineTypes'
  BY MaxVersionBounds, VersionsPositive DEF EngineTypes, DiskInv, PcInv, ResultInv,
         Unstamped, Armed, Labels, NoAttempts, NoResult, NoBackup, None, RestoreKey,
         NoFault, disk, memory
<1>2. DiskInv'
  BY DEF DiskInv, PcInv, NextUp, Armed, Foreign, Unstamped, RestoreKey
<1>3. PcInv'
  BY DEF PcInv, Armed, Unstamped, RestoreKey, memory
<1>4. ResultInv' /\ CreditInv' /\ OutcomeTrue'
  BY DEF ResultInv, RestoreKey, memory, CreditInv, Spent, Armed, OutcomeTrue, NoBackup
<1>6. DataRecoverable'
  BY DEF PcInv, DataRecoverable, Open, Unstamped, NoBackup, RestoreKey
<1> QED
  BY <1>1, <1>2, <1>3, <1>4, <1>6 DEF EngineInv

\* A complete restore leaves the rows of the stamped version.
LEMMA RestoredKeeps == Keeps(Restored)
<1> SUFFICES ASSUME EngineTypes, DiskInv, PcInv, ResultInv, CreditInv, DataRecoverable,
                    OutcomeTrue,
                    Restored
             PROVE  EngineInv'
  BY DEF Keeps, EngineInv
<1>0. data = ShapeAt(version)
  <2>1. \A k \in Keys : data[k] = ShapeAt(version)[k]
    BY DEF PcInv, DiskInv, DataRecoverable, Open, Unstamped, Armed, NoBackup, None, Restored
  <2> QED
    BY <2>1, SameRows DEF EngineTypes
<1>1. EngineTypes' /\ DiskInv' /\ DataRecoverable' /\ ResultInv' /\ OutcomeTrue'
  BY DiskStays DEF EngineTypes, Labels, Restored, disk, ResultInv, OutcomeTrue
<1>3. PcInv'
  BY MaxVersionBounds, <1>0 DEF DiskInv, PcInv, Armed, Foreign, Unstamped,
         IsValidMarker, NoBackup, Restored, disk
<1>5. CreditInv'
  BY DEF PcInv, CreditInv, Spent, Armed, Restored, disk
<1> QED
  BY <1>1, <1>3, <1>5 DEF EngineInv

\* A restore that throws leaves the journal, and an incident to count.
LEMMA RestoreThrowsKeeps == Keeps(RestoreThrows)
<1> SUFFICES ASSUME EngineTypes, DiskInv, PcInv, ResultInv, CreditInv, DataRecoverable,
                    OutcomeTrue,
                    RestoreThrows
             PROVE  EngineInv'
  BY DEF Keeps, EngineInv
<1>1. EngineTypes'
  BY DEF EngineTypes, PcInv, Unstamped, Armed, Labels, RestoreThrows, disk
<1>2. DiskInv' /\ DataRecoverable' /\ ResultInv' /\ OutcomeTrue'
  BY DiskStays DEF RestoreThrows, disk, ResultInv, OutcomeTrue, NoResult
<1>3. PcInv'
  BY DEF PcInv, Armed, Unstamped, RestoreThrows, disk
<1>5. CreditInv'
  BY DEF EngineTypes, PcInv, CreditInv, Spent, Armed, RestoreThrows, disk
<1> QED
  BY <1>1, <1>2, <1>3, <1>5 DEF EngineInv

\* Marking the journal changes nothing but the mark.
LEMMA MarkKeeps == Keeps(Mark)
<1> SUFFICES ASSUME EngineTypes, DiskInv, PcInv, ResultInv, CreditInv, DataRecoverable,
                    OutcomeTrue,
                    Mark
             PROVE  EngineInv'
  BY DEF Keeps, EngineInv
<1>1. EngineTypes'
  BY MaxVersionBounds, VersionsPositive, Zenon DEF EngineTypes, DiskInv, PcInv, ResultInv,
         Unstamped, Armed, Labels, NoAttempts, NoResult, NoBackup, None, Mark, NoFault,
         Goto, disk, memory
<1>2. DiskInv' /\ PcInv'
  BY DEF DiskInv, PcInv, NextUp, Armed, Foreign, Unstamped, NoBackup, None, Mark, Goto
<1>4. ResultInv' /\ CreditInv' /\ DataRecoverable' /\ OutcomeTrue'
  BY DEF ResultInv, Mark, Goto, CreditInv, Spent, Armed, DataRecoverable, Open, NoBackup,
       OutcomeTrue, NoResult
<1> QED
  BY <1>1, <1>2, <1>4 DEF EngineInv

\* The attempt counted is one the journal still owed.
LEMMA BumpKeeps == Keeps(Bump)
<1> SUFFICES ASSUME EngineTypes, DiskInv, PcInv, ResultInv, CreditInv, DataRecoverable,
                    OutcomeTrue,
                    Bump
             PROVE  EngineInv'
  BY DEF Keeps, EngineInv
<1>1. EngineTypes'
  BY VersionsPositive DEF EngineTypes, PcInv, ResultInv, Unstamped, Armed, Labels,
         Bump, Counted
<1>2. DiskInv'
  BY MaxVersionBounds DEF DiskInv, PcInv, NextUp, Armed, Foreign, Unstamped,
         IsValidMarker, NoBackup, Bump
<1>3. PcInv'
  BY MaxVersionBounds, VersionsPositive DEF EngineTypes, DiskInv, PcInv, NextUp,
         Armed, Foreign, Unstamped, IsValidMarker, NoBackup, Bump
<1>4. ResultInv'
  BY MaxVersionBounds, VersionsPositive DEF EngineTypes, PcInv, ResultInv, Armed,
         Unstamped, NoResult, Bump, NeedsRecovery
<1>5. CreditInv'
  BY DEF EngineTypes, PcInv, CreditInv, Spent, Unstamped, Bump, Counted
<1>6. DataRecoverable' /\ OutcomeTrue'
  BY DEF DataRecoverable, Open, Bump, OutcomeTrue, NeedsRecovery
<1> QED
  BY <1>1, <1>2, <1>3, <1>4, <1>5, <1>6 DEF EngineInv

\* The journal is cleared only over the rows of the stamped version.
LEMMA ClearKeyKeeps == Keeps(ClearKey)
<1> SUFFICES ASSUME EngineTypes, DiskInv, PcInv, ResultInv, CreditInv, DataRecoverable,
                    OutcomeTrue,
                    ClearKey
             PROVE  EngineInv'
  BY DEF Keeps, EngineInv
<1>1. EngineTypes' /\ ResultInv' /\ CreditInv'
  BY VersionsPositive
     DEF EngineTypes, NoBackup, ClearKey, memory, ResultInv, CreditInv, Spent, Armed, None
<1>2. DiskInv'
  BY DEF DiskInv, PcInv, NextUp, Armed, Foreign, NoBackup, None, ClearKey
<1>3. PcInv'
  BY DEF DiskInv, PcInv, NextUp, Foreign, NoBackup, None, ClearKey, memory
<1>6. DataRecoverable' /\ OutcomeTrue'
  BY DEF PcInv, DataRecoverable, Open, ClearKey, OutcomeTrue, memory
<1> QED
  BY <1>1, <1>2, <1>3, <1>6 DEF EngineInv

\* A failure is reported over the rows of the stamped version.
LEMMA ClearedKeeps == Keeps(Cleared)
<1> SUFFICES ASSUME EngineTypes, DiskInv, PcInv, ResultInv, CreditInv, DataRecoverable,
                    OutcomeTrue,
                    Cleared
             PROVE  EngineInv'
  BY DEF Keeps, EngineInv
<1>0. cause = "up_failed" /\ Later(m) = {} => Later(version) = {m} /\ m \in Migrations
  <2> SUFFICES ASSUME cause = "up_failed", Later(m) = {}
               PROVE  Later(version) = {m} /\ m \in Migrations
    OBVIOUS
  <2>1. NextUp(m) /\ version \in Int
    BY DEF EngineTypes, PcInv, Cleared
  <2>2. \A j \in Migrations : version < j <=> j = m
    BY <2>1, VersionsPositive DEF NextUp, Later
  <2> QED
    BY <2>1, <2>2 DEF NextUp, Later
<1>1. ASSUME cause = "up_failed"
      PROVE  /\ pc' = "returned" /\ result'.kind = "failed"
             /\ result'.breaking = (m \in Breaking \/ Later(m) # {})
  <2>1. Return([kind |-> "failed", final |-> attempts.count >= MaxRetries, spent |-> TRUE,
                breaking |-> m \in Breaking \/ Later(m) # {}])
    BY <1>1 DEF Cleared, FailureResult
  <2>2. pc' = "returned" /\ result'.kind = "failed"
    BY <2>1 DEF Return
  <2>3. result'.breaking = (m \in Breaking \/ Later(m) # {})
    BY <2>1, Zenon DEF Return
  <2> QED
    BY <2>2, <2>3
<1>2. ASSUME cause # "up_failed"
      PROVE  \/ cause \in {"committed", "resumed"} /\ Goto("marker")
             \/ /\ cause = "interrupted" /\ pc' = "returned"
                /\ result'.kind = "needs-recovery" /\ result'.spent
  BY <1>2 DEF Cleared, FailureResult, Return, NeedsRecovery, PcInv
<1>3. EngineTypes' /\ DiskInv' /\ DataRecoverable' /\ CreditInv'
  BY DiskStays
     DEF EngineTypes, Labels, Cleared, Goto, Return, disk, CreditInv, Spent, Armed, NoBackup
<1>5. PcInv'
  BY DEF PcInv, Cleared, Goto, Return, disk
<1>6. ResultInv'
  <2>1. CASE cause = "up_failed"
    <3>1. ~result'.breaking => Later(version) = {m} /\ m \in Migrations /\ m \notin Breaking
      BY <1>0, <1>1, <2>1
    <3>2. version # MaxVersion /\ UNCHANGED version
      BY <2>1 DEF EngineTypes, PcInv, Cleared, disk
    <3> QED
      BY <1>1, <2>1, <3>1, <3>2 DEF ResultInv, Later
  <2>2. CASE cause \in {"committed", "resumed"}
    BY <1>2, <2>2 DEF PcInv, ResultInv, NoResult, Cleared, Goto
  <2>3. CASE cause = "interrupted"
    <3>1. version # MaxVersion /\ UNCHANGED version
      BY <2>3 DEF EngineTypes, PcInv, Cleared, disk
    <3> QED
      BY <1>2, <2>3, <3>1 DEF ResultInv
  <2> QED
    BY <2>1, <2>2, <2>3 DEF PcInv, Cleared
<1>8. OutcomeTrue'
  BY DEF PcInv, OutcomeTrue, Cleared, Goto, Return, FailureResult, NeedsRecovery,
         disk
<1> QED
  BY <1>3, <1>5, <1>6, <1>8 DEF EngineInv

\* The marker of a store is judged without a journal.
LEMMA MarkerKeeps == Keeps(Marker)
<1> SUFFICES ASSUME EngineTypes, DiskInv, PcInv, ResultInv, CreditInv, DataRecoverable,
                    OutcomeTrue,
                    Marker
             PROVE  EngineInv'
  BY DEF Keeps, EngineInv
<1>1. EngineTypes'
  BY MaxVersionBounds DEF EngineTypes, Labels, Marker, Goto, Return, NeedsRecovery,
         disk
<1>2. DiskInv'
  BY MaxVersionBounds DEF DiskInv, PcInv, Foreign, IsValidMarker, None, Marker,
         NeedsRecovery, disk
<1>3. PcInv'
  BY MaxVersionBounds DEF PcInv, Foreign, Unstamped, IsValidMarker, NoBackup, None,
         Marker, Goto, Return, NeedsRecovery
<1>4. ResultInv'
  BY MaxVersionBounds DEF ResultInv, IsValidMarker, None, Marker, Goto, Return, Ok,
         NeedsRecovery, disk
<1>5. CreditInv'
  BY DEF CreditInv, Spent, Armed, Marker, Goto, Return, NeedsRecovery, disk
<1>6. DataRecoverable'
  BY DEF DiskInv, PcInv, DataRecoverable, Open, Marker, NeedsRecovery, disk
<1>7. OutcomeTrue'
  BY DEF PcInv, ResultInv, OutcomeTrue, NoResult, Marker, Goto, Return, Ok,
         NeedsRecovery, disk
<1> QED
  BY <1>1, <1>2, <1>3, <1>4, <1>5, <1>6, <1>7 DEF EngineInv

\* The journal is armed with the rows of the stamped version.
LEMMA ArmJournalKeeps == Keeps(ArmJournal)
<1> SUFFICES ASSUME EngineTypes, DiskInv, PcInv, ResultInv, CreditInv, DataRecoverable,
                    OutcomeTrue,
                    ArmJournal
             PROVE  EngineInv'
  BY DEF Keeps, EngineInv
<1> DEFINE n == Min(Later(version))
<1>a. NextUp(n) /\ ResultInv' /\ CreditInv'
  BY MinIsNextUp DEF EngineTypes, ArmJournal, ResultInv, CreditInv, Spent, Armed
<1>b. n \in Migrations /\ n \in Nat /\ version < n
  BY <1>a, VersionsPositive, Zenon DEF NextUp
<1>c. data = ShapeAt(version)
  BY DEF PcInv, DiskInv, DataRecoverable, Open, Unstamped, Armed, Foreign, IsValidMarker,
     NoBackup, None, ArmJournal
<1>d. /\ backup' = [version |-> n, counted |-> FALSE, entries |-> [k \in Footprint(n) |-> data[k]]]
      /\ m' = n /\ incidents' = [incidents EXCEPT ![n] = @ + 1]
  BY DEF ArmJournal
<1> HIDE DEF n
<1>1. EngineTypes'
  BY <1>b, <1>d DEF EngineTypes, Labels, ArmJournal
<1>2. DiskInv'
  BY MaxVersionBounds, <1>a, <1>b, <1>d DEF DiskInv, PcInv, NextUp, Armed, Foreign,
         None, ArmJournal
<1>3. PcInv'
  BY <1>b, <1>c, <1>d DEF PcInv, Armed, Unstamped, ArmJournal
<1>6. DataRecoverable'
  BY DEF DiskInv, PcInv, DataRecoverable, Open, Unstamped, ArmJournal
<1>7. OutcomeTrue'
  BY MaxVersionBounds, VersionsPositive, <1>a, <1>b, <1>c, <1>d DEF EngineTypes,
         DiskInv, PcInv, ResultInv, OutcomeTrue, IsValidMarker, Armed, Unstamped, NextUp,
         NoResult, NoBackup, None, ArmJournal, NoFault, disk, memory
<1> QED
  BY <1>1, <1>2, <1>3, <1>a, <1>6, <1>7 DEF EngineInv

\* Staging writes no row.
LEMMA UpKeeps == Keeps(Up)
<1> SUFFICES ASSUME EngineTypes, DiskInv, PcInv, ResultInv, CreditInv, DataRecoverable,
                    OutcomeTrue,
                    Up
             PROVE  EngineInv'
  BY DEF Keeps, EngineInv
<1>1. EngineTypes' /\ DiskInv' /\ DataRecoverable' /\ ResultInv' /\ CreditInv' /\ OutcomeTrue'
  BY DiskStays
     DEF EngineTypes, Labels, Up, Goto, disk, ResultInv, CreditInv, Spent, Armed, OutcomeTrue
<1>3. PcInv'
  BY DEF PcInv, Armed, Unstamped, Up, Goto, disk
<1> QED
  BY <1>1, <1>3 DEF EngineInv

\* A committed row is one the journal holds.
LEMMA CommitKeyKeeps == Keeps(CommitKey)
<1> SUFFICES ASSUME EngineTypes, DiskInv, PcInv, ResultInv, CreditInv, DataRecoverable,
                    OutcomeTrue,
                    CommitKey
             PROVE  EngineInv'
  BY DEF Keeps, EngineInv
<1>0. /\ Unstamped /\ m = backup.version /\ m \in Migrations
      /\ DOMAIN backup.entries = Footprint(m) /\ backup # NoBackup /\ version # None
  BY MaxVersionBounds, VersionsPositive
     DEF PcInv, DiskInv, Unstamped, Armed, Foreign, NoBackup, None, CommitKey
<1>1. \A k \in Sets[m] \cup Removes[m] : k \in Footprint(m)
  BY DEF Footprint
<1>2. \A k \in Keys : k \notin Sets[m] \cup Removes[m] => data'[k] = data[k]
  BY DEF CommitKey, EngineTypes
<1>3. EngineTypes' /\ ResultInv' /\ OutcomeTrue'
  BY DEF EngineTypes, CommitKey, memory, ResultInv, OutcomeTrue, NoResult
<1>4. DiskInv'
  BY DEF DiskInv, PcInv, NextUp, Armed, Foreign, Unstamped, CommitKey
<1>5. PcInv'
  BY DEF EngineTypes, PcInv, Armed, Unstamped, CommitKey, memory
<1>7. CreditInv'
  BY DEF PcInv, CreditInv, Spent, Unstamped, CommitKey
<1>8. DataRecoverable'
  BY <1>0, <1>1, <1>2 DEF DataRecoverable, Open, Unstamped, CommitKey
<1> QED
  BY <1>3, <1>4, <1>5, <1>7, <1>8 DEF EngineInv

\* The stamp is written over the rows of the new version.
LEMMA StampKeeps == Keeps(Stamp)
<1> SUFFICES ASSUME EngineTypes, DiskInv, PcInv, ResultInv, CreditInv, DataRecoverable,
                    OutcomeTrue,
                    Stamp
             PROVE  EngineInv'
  BY DEF Keeps, EngineInv
<1>0. data = ShapeAt(m)
  <2>1. NextUp(m) /\ version \in Int
    BY MaxVersionBounds, VersionsPositive
       DEF EngineTypes, PcInv, DiskInv, Unstamped, Armed, Foreign, NoBackup, None, Stamp
  <2>2. ASSUME NEW k \in Keys  PROVE data[k] = ShapeAt(m)[k]
    <3>1. ShapeAt(m)[k] = IF k \in Sets[m] THEN m
                          ELSE IF k \in Removes[m] THEN Absent ELSE ShapeAt(version)[k]
      BY <2>1, ShapeStep DEF NextUp
    <3> QED
      BY <3>1 DEF PcInv, Stamp
  <2> QED
    BY <2>2, SameRows DEF EngineTypes
<1>1. EngineTypes'
  BY VersionsPositive DEF EngineTypes, PcInv, Unstamped, Armed, Labels, Stamp, Goto
<1>2. DiskInv'
  BY MaxVersionBounds, VersionsPositive DEF EngineTypes, DiskInv, PcInv, Armed,
         Foreign, Unstamped, IsValidMarker, None, Stamp
<1>3. PcInv'
  BY DEF PcInv, Armed, Unstamped, Stamp, Goto
<1>4. ResultInv' /\ CreditInv' /\ OutcomeTrue'
  BY DEF ResultInv, NoResult, Stamp, Goto, CreditInv, Spent, Armed, OutcomeTrue
<1>6. DataRecoverable'
  <2>1. version' = m /\ data' = data /\ backup' = backup
    BY DEF Stamp
  <2>2. m = backup.version /\ m \in Migrations
    BY Zenon DEF PcInv, Unstamped, Armed, Stamp
  <2>3. version' = backup'.version /\ version' \in Int /\ data' = ShapeAt(version')
    BY <1>0, <2>1, <2>2, VersionsPositive
  <2> QED
    BY <2>3 DEF DataRecoverable, Open
<1> QED
  BY <1>1, <1>2, <1>3, <1>4, <1>6 DEF EngineInv

\* A migration that throws is restored from a journal nobody counted.
LEMMA ApplyThrowsKeeps == Keeps(ApplyThrows)
<1> SUFFICES ASSUME EngineTypes, DiskInv, PcInv, ResultInv, CreditInv, DataRecoverable,
                    OutcomeTrue,
                    ApplyThrows
             PROVE  EngineInv'
  BY DEF Keeps, EngineInv
<1>1. EngineTypes' /\ DiskInv' /\ DataRecoverable' /\ ResultInv' /\ CreditInv'
  BY DiskStays DEF EngineTypes, Labels, ApplyThrows, disk, ResultInv, CreditInv, Spent, Armed
<1>3. PcInv'
  BY DEF PcInv, Armed, Unstamped, ApplyThrows, disk
<1>6. OutcomeTrue'
  BY DEF ResultInv, OutcomeTrue, NoResult, ApplyThrows
<1> QED
  BY <1>1, <1>3, <1>6 DEF EngineInv

\* A stamped migration needs no journal.
LEMMA CleanupKeeps == Keeps(Cleanup)
<1> SUFFICES ASSUME EngineTypes, DiskInv, PcInv, ResultInv, CreditInv, DataRecoverable,
                    OutcomeTrue,
                    Cleanup
             PROVE  EngineInv'
  BY DEF Keeps, EngineInv
<1>1. EngineTypes' /\ DiskInv' /\ CreditInv'
  BY VersionsPositive
     DEF EngineTypes, Labels, NoBackup, Cleanup, Goto, DiskInv, NextUp, Armed, Foreign, None,
         CreditInv, Spent
<1>3. PcInv'
  BY MaxVersionBounds DEF DiskInv, PcInv, Armed, Foreign, Unstamped, IsValidMarker,
         NoBackup, None, Cleanup, Goto
<1>4. ResultInv' /\ OutcomeTrue'
  BY DEF ResultInv, Cleanup, Goto, OutcomeTrue
<1>6. DataRecoverable'
  BY DEF DiskInv, PcInv, DataRecoverable, Open, Cleanup
<1> QED
  BY <1>1, <1>3, <1>4, <1>6 DEF EngineInv

\* The floor is stamped when no migration is left.
LEMMA FinishKeeps == Keeps(Finish)
<1> SUFFICES ASSUME EngineTypes, DiskInv, PcInv, ResultInv, CreditInv, DataRecoverable,
                    OutcomeTrue,
                    Finish
             PROVE  EngineInv'
  BY DEF Keeps, EngineInv
<1>0. pc = "next" => data = ShapeAt(MaxVersion)
  <2>1. pc = "next" => data = ShapeAt(version) /\ version \in Int /\ version <= MaxVersion
    BY DEF EngineTypes, PcInv, DiskInv, DataRecoverable, Open, Unstamped, Armed, Foreign,
       IsValidMarker, NoBackup, None
  <2>2. pc = "next" => Later(version) = {}
    BY DEF Finish
  <2> QED
    BY <2>1, <2>2, ShapeAtEnd
<1>1. EngineTypes'
  BY MaxVersionBounds DEF EngineTypes, Labels, NoAttempts, None, Finish, Goto, Return
<1>2. DiskInv'
  BY MaxVersionBounds, VersionsPositive DEF DiskInv, PcInv, NextUp, Armed, Foreign,
         IsValidMarker, None, Finish
<1>3. PcInv'
  BY MaxVersionBounds, VersionsPositive DEF EngineTypes, PcInv, Armed, Foreign,
         Unstamped, IsValidMarker, Finish, Goto, Return
<1>4. ResultInv'
  BY DEF ResultInv, NoResult, Finish, Goto, Return, Ok
<1>5. CreditInv'
  BY DEF EngineTypes, CreditInv, Spent, Armed, NoAttempts, Finish, Goto, Return
<1>6. DataRecoverable'
  BY MaxVersionBounds, VersionsPositive, <1>0 DEF EngineTypes, DiskInv, PcInv,
         DataRecoverable, Open, Armed, Finish
<1>7. OutcomeTrue'
  BY DEF PcInv, OutcomeTrue, Finish, Goto, Return, Ok
<1> QED
  BY <1>1, <1>2, <1>3, <1>4, <1>5, <1>6, <1>7 DEF EngineInv

\* A throw that escapes reports whether the run recorded an attempt.
LEMMA EscapesKeeps == Keeps(Escapes)
<1> SUFFICES ASSUME EngineTypes, DiskInv, PcInv, ResultInv, CreditInv, DataRecoverable,
                    OutcomeTrue,
                    Escapes
             PROVE  EngineInv'
  BY DEF Keeps, EngineInv
<1>0. /\ result'.kind = "needs-recovery" /\ ~result'.final
      /\ result'.spent <=> bumps > 0
  BY Zenon DEF Escapes, Return, NeedsRecovery
<1>1. EngineTypes' /\ DiskInv' /\ DataRecoverable' /\ ResultInv' /\ CreditInv'
  BY DiskStays, <1>0
     DEF EngineTypes, Labels, Escapes, Return, disk, ResultInv, NeedsRecovery, CreditInv, Spent,
         Armed
<1>3. PcInv'
  BY DEF PcInv, Escapes, Return
<1>6. OutcomeTrue'
  BY MaxVersionBounds, VersionsPositive, <1>0 DEF EngineTypes, DiskInv, PcInv,
         ResultInv, OutcomeTrue, IsValidMarker, Armed, Unstamped, NextUp, NoResult,
         NoBackup, None, Escapes, Fault, Return, NeedsRecovery, disk, memory
<1> QED
  BY <1>1, <1>3, <1>6 DEF EngineInv

\* A step that only writes the counter of attempts off keeps the invariant.
LEMMA Rests ==
    Keeps(/\ UNCHANGED <<data, version, running, backup, memory, incidents>>
          /\ attempts' = attempts \/ attempts' = NoAttempts)
<1> SUFFICES ASSUME EngineTypes, DiskInv, PcInv, ResultInv, CreditInv, DataRecoverable,
                    OutcomeTrue,
                    UNCHANGED <<data, version, running, backup, memory, incidents>>,
                    attempts' = attempts \/ attempts' = NoAttempts
             PROVE  EngineInv'
  BY DEF Keeps, EngineInv
<1>1. DiskInv' /\ DataRecoverable' /\ EngineTypes' /\ ResultInv' /\ CreditInv'
  BY DiskStays, VersionsPositive
     DEF EngineTypes, NoAttempts, None, memory, ResultInv, CreditInv, Spent, Armed
<1>3. PcInv' /\ OutcomeTrue'
  BY DEF PcInv, OutcomeTrue, NextUp, Armed, Foreign, Unstamped, memory
<1> QED
  BY <1>1, <1>3 DEF EngineInv

\* So does a run that ends, by a kill or by returning.
LEMMA Ends ==
    Keeps(/\ UNCHANGED <<data, version, running, backup, attempts, incidents>>
          /\ pc' = "off" /\ bumps' = 0 /\ result' = NoResult)
<1> SUFFICES ASSUME EngineTypes, DiskInv, PcInv, ResultInv, CreditInv, DataRecoverable,
                    OutcomeTrue,
                    UNCHANGED <<data, version, running, backup, attempts, incidents>>,
                    pc' = "off", bumps' = 0, result' = NoResult
             PROVE  EngineInv'
  BY DEF Keeps, EngineInv
<1>1. DiskInv' /\ DataRecoverable' /\ EngineTypes' /\ CreditInv'
  BY DiskStays DEF EngineTypes, Labels, CreditInv, Spent, Armed
<1>3. PcInv' /\ ResultInv' /\ OutcomeTrue'
  BY DEF PcInv, ResultInv, OutcomeTrue, NoResult
<1> QED
  BY <1>1, <1>3 DEF EngineInv

\* Every step of run() keeps the invariant.
LEMMA RunKeeps == Keeps(Run)
BY ResumeKeeps, RestoreKeyKeeps, RestoredKeeps, RestoreThrowsKeeps, MarkKeeps, BumpKeeps,
   ClearKeyKeeps, ClearedKeeps, MarkerKeeps, ArmJournalKeeps, UpKeeps, CommitKeyKeeps,
   StampKeeps, ApplyThrowsKeeps, CleanupKeeps, FinishKeeps, EscapesKeeps
   DEF Run, Keeps

\* The invariant holds of every store a first start can find.
LEMMA EngineInit == Init => EngineInv
<1> SUFFICES ASSUME Init  PROVE EngineInv
  OBVIOUS
<1>1. EngineTypes
  <2>1. data = [k \in Keys |-> data[k]]
    BY DEF Init, ShapeAt
  <2> QED
    BY <2>1, MaxVersionBounds DEF Init, EngineTypes, Labels, NoAttempts, NoBackup, None
<1>2. DiskInv /\ PcInv /\ ResultInv /\ OutcomeTrue /\ CreditInv
  BY <1>1, MaxVersionBounds, VersionsPositive
     DEF Init, EngineTypes, DiskInv, Armed, Foreign, IsValidMarker, NoBackup, None, PcInv,
         ResultInv, OutcomeTrue, NoResult, CreditInv, Spent, NoAttempts
<1>5. DataRecoverable
  BY MaxVersionBounds DEF Init, DataRecoverable, Open, NoBackup, None
<1> QED
  BY <1>1, <1>2, <1>5 DEF EngineInv

\* EngineInv holds of the engine alone, whatever list of migrations it is given and
\* however often it is killed or its storage throws.
THEOREM EngineInvariant == EngineSpec => []EngineInv
<1>1. EngineInv /\ [EngineNext]_engineVars => EngineInv'
  <2> SUFFICES ASSUME EngineInv, [EngineNext]_engineVars  PROVE EngineInv'
    OBVIOUS
  <2>1. CASE Start
    BY <2>1, StartKeeps DEF Keeps
  <2>2. CASE Run
    BY <2>2, RunKeeps DEF Keeps
  <2>3. CASE Kill
    BY <2>3, Ends DEF Keeps, Kill, disk
  <2>4. CASE StopIdle
    BY <2>4, Ends DEF Keeps, StopIdle, disk
  <2>5. CASE UNCHANGED engineVars
    BY <2>5, Rests DEF Keeps, engineVars, disk
  <2> QED
    BY <2>1, <2>2, <2>3, <2>4, <2>5 DEF EngineNext
<1> QED
  BY EngineInit, <1>1, PTL DEF EngineSpec

\* No user row is lost or half-migrated, whatever is killed or throws
\* (migrator.ts, applyOne, resumeIfInterrupted and restore).
THEOREM EngineDataRecoverable == EngineSpec => []DataRecoverable
<1>1. EngineInv => DataRecoverable
  BY DEF EngineInv
<1> QED
  BY EngineInvariant, <1>1, PTL

\* What run() reports is true of the disk, and the barrier is down with it
\* (migrator.ts, run and runInner).
THEOREM EngineOutcomeTrue == EngineSpec => []OutcomeTrue
<1>1. EngineInv => OutcomeTrue
  BY DEF EngineInv
<1> QED
  BY EngineInvariant, <1>1, PTL

\* The counted attempts of a migration never exceed its failures and interruptions:
\* marking the journal before the bump makes a kill in between count too little
\* (migrator.ts, markJournalCounted and bumpAttempts).
THEOREM EngineNeverCountedTwice == EngineSpec => []NeverCountedTwice
<1>1. EngineInv => NeverCountedTwice
  BY DEF EngineInv, EngineTypes, CreditInv, Spent, NeverCountedTwice
<1> QED
  BY EngineInvariant, <1>1, PTL

\* One run() records at most one attempt: having counted an interruption it stands
\* down (migrator.ts, resumeIfInterrupted).
THEOREM EngineOneAttemptPerRun == EngineSpec => []OneAttemptPerRun
<1>1. EngineInv => OneAttemptPerRun
  BY DEF EngineInv, EngineTypes, OneAttemptPerRun
<1> QED
  BY EngineInvariant, <1>1, PTL

=============================================================================
