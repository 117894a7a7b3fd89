------------------------- MODULE MigrationBootProofs -------------------------
(***************************************************************************)
(* The boot sequence around the migration engine, proved for every list of *)
(* migrations, every footprint and every number of kills, throws, taps and *)
(* updates.                                                                *)
(*                                                                         *)
(* BootInv adds to EngineInv what the gate's claims, the token and the     *)
(* persisted verdict say about the run in progress.                        *)
(***************************************************************************)
EXTENDS MigrationBoot, MigratorProofs

Hosts == {"off", "consume", "run", "rearm", "dead", "booted"}

BootTypes ==
    /\ blocked = [final |-> blocked.final, build |-> blocked.build,
                  backstopRuns |-> blocked.backstopRuns, gestureRuns |-> blocked.gestureRuns]
    /\ blocked.build \in Nat /\ blocked.backstopRuns \in Nat /\ blocked.gestureRuns \in Nat
    /\ blocked.build = 0 => blocked = NotBlocked
    /\ build \in Nat \ {0} /\ host \in Hosts
    /\ decision = RunFor(decision.authorizedBy, decision.backstopRuns, decision.gestureRuns)
    /\ decision.authorizedBy \in {"none", "gesture", "backstop"}
    /\ decision.backstopRuns \in Nat /\ decision.gestureRuns \in Nat
    /\ taps \in Nat /\ tapAttempts \in Nat

\* Where the boot is, and whose run it is.
HostInv ==
    /\ host \in {"off", "consume"} => pc = "off"
    /\ host # "run" => pc \in {"off", "returned"}
    /\ host = "run" /\ decision.authorizedBy = "none" =>
          blocked = NotBlocked /\ decision = NoDecision
    /\ host \in {"consume", "run"} /\ decision.authorizedBy # "none" =>
          /\ blocked # NotBlocked /\ ~blocked.final
          /\ blocked.backstopRuns = decision.backstopRuns
          /\ blocked.gestureRuns = decision.gestureRuns
    /\ host \in {"consume", "rearm"} => decision.authorizedBy = "gesture"
    /\ host = "consume" => retryRequested
    /\ host = "rearm" => bumps = 0 /\ blocked # NotBlocked
    /\ host \in {"consume", "run"} /\ decision.authorizedBy = "gesture" => decision.gestureRuns > 0
    /\ host = "run" /\ decision.authorizedBy = "backstop" =>
          decision.backstopRuns = 1 /\ decision.gestureRuns = 0

One(b) == IF b THEN 1 ELSE 0

\* A tap is an attempt recorded, a token not consumed, or a run that may still record.
TapInv ==
    tapAttempts + One(retryRequested)
        + One(host \in {"run", "rearm"} /\ decision.authorizedBy = "gesture" /\ bumps = 0) <= taps

\* The attempts recorded since the last success without a tap: one by the ambient
\* run that opened the episode, one by its backstop.
AttemptsAtMost(n) == version = MaxVersion \/ attempts.count <= n

BudgetInv ==
    /\ blocked.final => version # MaxVersion \/ attempts.count = 0
    /\ ~unreported /\ blocked = NotBlocked =>
          AttemptsAtMost(IF host = "run" THEN bumps ELSE 0)
    /\ ~unreported /\ blocked # NotBlocked /\ blocked.gestureRuns = 0 =>
          /\ blocked.backstopRuns <= 1
          /\ AttemptsAtMost(IF host = "run" THEN 1 + bumps ELSE 1 + blocked.backstopRuns)

BootInv == EngineInv /\ BootTypes /\ HostInv /\ TapInv /\ BudgetInv /\ BootSafe

\* A step of the boot that keeps BootInv.
KeepsBoot(A) == BootInv /\ A => BootInv'

-----------------------------------------------------------------------------
\* What a step of run() can do to the marker and to the counter of attempts.
RunEffect ==
    /\ pc \notin {"off", "returned"}
    /\ version = MaxVersion => version' = MaxVersion
    /\ \/ bumps' = bumps /\ (attempts' = attempts \/ attempts' = NoAttempts)
       \/ bumps' = bumps + 1 /\ attempts'.count <= attempts.count + 1

\* Every step of run() has that effect.
LEMMA RunEffects == EngineInv /\ Run => RunEffect
<1> SUFFICES ASSUME EngineInv, Run  PROVE RunEffect
  OBVIOUS
<1>1. CASE Resume
  BY <1>1, Zenon DEF RunEffect, Resume, Goto, Return
<1>2. CASE RestoreKey \/ Restored \/ RestoreThrows \/ Mark \/ ClearKey \/ Cleared
  BY <1>2 DEF RunEffect, RestoreKey, Restored, RestoreThrows, Mark, ClearKey, Cleared, Goto,
     Return,
     disk, memory
<1>3. CASE Bump
  BY <1>3 DEF RunEffect, Bump, Counted, EngineInv, EngineTypes
<1>4. CASE Marker
  BY <1>4, MaxVersionBounds, Zenon DEF RunEffect, Marker, Goto, Return, disk
<1>5. CASE ArmJournal \/ Up \/ CommitKey \/ ApplyThrows \/ Cleanup \/ Escapes
  BY <1>5, Zenon DEF RunEffect, ArmJournal, Up, CommitKey, ApplyThrows, Cleanup, Escapes, Goto,
     Return,
     disk, memory
<1>6. CASE Stamp
  BY <1>6, MaxVersionBounds, VersionsPositive
     DEF RunEffect, Stamp, Goto, EngineInv, EngineTypes, PcInv, Unstamped, Armed
<1>7. CASE Finish
  BY <1>7 DEF RunEffect, Finish, Goto, Return
<1> QED
  BY <1>1, <1>2, <1>3, <1>4, <1>5, <1>6, <1>7 DEF Run

\* Without a verdict, or with one of an older build, the engine runs for nobody.
LEMMA GateOpenKeepsBoot == KeepsBoot(GateOpen)
<1> SUFFICES ASSUME EngineInv, BootTypes, HostInv, TapInv, BudgetInv, BootSafe, GateOpen
             PROVE  BootInv'
  BY DEF KeepsBoot, BootInv
<1>1. EngineInv' /\ BootTypes' /\ HostInv'
  BY Rests
     DEF Keeps, GateOpen, disk, BootTypes, Hosts, NotBlocked, RunFor, NoDecision, Authorize,
         ghosts, HostInv
<1>4. TapInv' /\ BootSafe'
  BY DEF BootTypes, TapInv, One, GateOpen, Authorize, NoDecision, RunFor, ghosts, BootSafe
<1>5. BudgetInv'
  BY DEF EngineInv, ResultInv, HostInv, BudgetInv, AttemptsAtMost, NoAttempts,
     GateOpen, memory, ghosts
<1> QED
  BY <1>1, <1>4, <1>5 DEF BootInv

\* A final verdict ends the boot.
LEMMA GateTerminalKeepsBoot == KeepsBoot(GateTerminal)
<1> SUFFICES ASSUME EngineInv, BootTypes, HostInv, TapInv, BudgetInv, BootSafe, GateTerminal
             PROVE  BootInv'
  BY DEF KeepsBoot, BootInv
<1>1. EngineInv' /\ BootTypes' /\ HostInv'
  BY Rests DEF Keeps, GateTerminal, disk, BootTypes, Hosts, ghosts, HostInv, memory
<1>4. TapInv' /\ BudgetInv' /\ BootSafe'
  BY DEF BootTypes, TapInv, One, GateTerminal, ghosts, BudgetInv, AttemptsAtMost, disk, BootSafe
<1> QED
  BY <1>1, <1>4 DEF BootInv

\* A tap is claimed while its token is still there.
LEMMA GateGestureKeepsBoot == KeepsBoot(GateGesture)
<1> SUFFICES ASSUME EngineInv, BootTypes, HostInv, TapInv, BudgetInv, BootSafe, GateGesture
             PROVE  BootInv'
  BY DEF KeepsBoot, BootInv
<1>1. EngineInv' /\ BootTypes' /\ HostInv' /\ TapInv' /\ BudgetInv' /\ BootSafe'
  BY Rests
     DEF Keeps, GateGesture, disk, BootTypes, Hosts, RunFor, Blocked, ghosts, HostInv,
         NotBlocked, memory, TapInv, One, BudgetInv, BootSafe
<1> QED
  BY <1>1 DEF BootInv

\* Consuming the token hands the tap to the run.
LEMMA GateConsumeKeepsBoot == KeepsBoot(GateConsume)
<1> SUFFICES ASSUME EngineInv, BootTypes, HostInv, TapInv, BudgetInv, BootSafe, GateConsume
             PROVE  BootInv'
  BY DEF KeepsBoot, BootInv
<1>1. EngineInv' /\ BootTypes' /\ HostInv'
  BY Rests DEF Keeps, GateConsume, disk, BootTypes, Hosts, ghosts, HostInv
<1>4. TapInv' /\ BudgetInv' /\ BootSafe'
  BY DEF BootTypes, HostInv, TapInv, One, GateConsume, ghosts, BudgetInv, BootSafe
<1> QED
  BY <1>1, <1>4 DEF BootInv

\* The backstop is claimed once, and never after a tap.
LEMMA GateBackstopKeepsBoot == KeepsBoot(GateBackstop)
<1> SUFFICES ASSUME EngineInv, BootTypes, HostInv, TapInv, BudgetInv, BootSafe, GateBackstop
             PROVE  BootInv'
  BY DEF KeepsBoot, BootInv
<1>1. EngineInv' /\ BootTypes' /\ HostInv' /\ TapInv' /\ BootSafe'
  BY Rests
     DEF Keeps, GateBackstop, disk, BootTypes, Hosts, RunFor, Blocked, Authorize, ghosts,
         HostInv, NotBlocked, MayBackstop, TapInv, BootSafe
<1>5. BudgetInv'
  BY DEF EngineInv, ResultInv, BootTypes, HostInv, BudgetInv, AttemptsAtMost,
     NotBlocked, GateBackstop, Blocked, MayBackstop, Authorize, disk, memory, ghosts
<1> QED
  BY <1>1, <1>5 DEF BootInv

\* A boot that is shut changes nothing.
LEMMA GateShutKeepsBoot == KeepsBoot(GateShut)
<1> SUFFICES ASSUME EngineInv, BootTypes, HostInv, TapInv, BudgetInv, BootSafe, GateShut
             PROVE  BootInv'
  BY DEF KeepsBoot, BootInv
<1>1. EngineInv' /\ BootTypes' /\ TapInv' /\ BootSafe'
  BY Rests DEF Keeps, GateShut, disk, BootTypes, Hosts, ghosts, TapInv, BootSafe
<1>3. HostInv' /\ BudgetInv'
  BY DEF HostInv, GateShut, memory, BudgetInv, AttemptsAtMost, disk, ghosts
<1> QED
  BY <1>1, <1>3 DEF BootInv

\* The engine starts under the decision of the gate.
LEMMA EngineStartKeepsBoot == KeepsBoot(EngineStart)
<1> SUFFICES ASSUME EngineInv, BootTypes, HostInv, TapInv, BudgetInv, BootSafe, EngineStart
             PROVE  BootInv'
  BY DEF KeepsBoot, BootInv
<1>1. EngineInv' /\ BootTypes' /\ HostInv' /\ BootSafe'
  BY StartKeeps DEF Keeps, EngineStart, BootTypes, hostVars, ghosts, HostInv, BootSafe
<1>4. TapInv' /\ BudgetInv'
  BY DEF EngineInv, ResultInv, TapInv, EngineStart, Start, hostVars, ghosts, BudgetInv,
       AttemptsAtMost, disk
<1> QED
  BY <1>1, <1>4 DEF BootInv

\* A step of the engine records at most the attempt its authority paid for.
LEMMA EngineStepKeepsBoot == KeepsBoot(EngineStep)
<1> SUFFICES ASSUME EngineInv, BootTypes, HostInv, TapInv, BudgetInv, BootSafe, EngineStep
             PROVE  BootInv'
  BY DEF KeepsBoot, BootInv
<1>0. RunEffect /\ host = "run" /\ UNCHANGED <<hostVars, taps, unreported>> /\ EngineInv'
  BY RunEffects, RunKeeps DEF EngineStep, Keeps
<1>a. bumps \in {0, 1} /\ bumps' \in {0, 1} /\ attempts.count \in Nat /\ attempts'.count \in Nat
  <2>1. EngineInv /\ EngineInv'
    BY RunKeeps DEF Keeps, EngineStep
  <2> QED
    BY <2>1 DEF EngineInv, EngineTypes
<1>2. BootTypes' /\ BootSafe'
  BY <1>0, <1>a DEF BootTypes, EngineStep, RunEffect, hostVars, BootSafe
<1>3. HostInv'
  BY <1>0 DEF HostInv, hostVars
<1>4. TapInv'
  <2>1. CASE bumps' = bumps
    <3>1. tapAttempts' = tapAttempts
      BY <1>a, <2>1 DEF EngineStep, BootTypes
    <3> QED
      BY <1>0, <2>1, <3>1 DEF TapInv, hostVars
  <2>2. CASE bumps = 0 /\ bumps' = 1
    <3>1. tapAttempts' = tapAttempts + One(decision.authorizedBy = "gesture")
      BY <2>2 DEF EngineStep, BootTypes, One
    <3>2. tapAttempts \in Nat /\ taps \in Nat
      BY DEF BootTypes
    <3> QED
      BY <1>0, <2>2, <3>1, <3>2 DEF TapInv, One, hostVars
  <2> QED
    BY <1>0, <1>a, <2>1, <2>2 DEF RunEffect
<1>5. BudgetInv'
  <2>1. AttemptsAtMost(bumps) => AttemptsAtMost(bumps)'
    BY <1>0, <1>a DEF RunEffect, AttemptsAtMost, NoAttempts
  <2>2. AttemptsAtMost(1 + bumps) => AttemptsAtMost(1 + bumps)'
    BY <1>0, <1>a DEF RunEffect, AttemptsAtMost, NoAttempts
  <2>3. ~blocked.final
    BY <1>0 DEF HostInv, NotBlocked
  <2> QED
    BY <1>0, <2>1, <2>2, <2>3 DEF BudgetInv, hostVars
<1> QED
  BY <1>0, <1>2, <1>3, <1>4, <1>5 DEF BootInv

\* The verdict carries the claims of the run; a run that recorded nothing gives
\* them back.
LEMMA PersistBlockedKeepsBoot == KeepsBoot(PersistBlocked)
<1> SUFFICES ASSUME EngineInv, BootTypes, HostInv, TapInv, BudgetInv, BootSafe, PersistBlocked
             PROVE  BootInv'
  BY DEF KeepsBoot, BootInv
<1>0. /\ blocked'.final = result.final /\ blocked' # NotBlocked
      /\ blocked'.gestureRuns = decision.gestureRuns
      /\ blocked'.backstopRuns = IF FreeFailure THEN 0 ELSE decision.backstopRuns
      /\ FreeFailure => bumps = 0
      /\ host' # "run" /\ UNCHANGED <<version, attempts, unreported>>
  BY DEF PersistBlocked, FreeFailure, EngineInv, ResultInv, BootTypes, NotBlocked, disk, ghosts
<1>1. EngineInv' /\ BootTypes' /\ BootSafe'
  BY Rests DEF Keeps, PersistBlocked, disk, BootTypes, Hosts, ghosts, BootSafe
<1>3. HostInv'
  BY <1>0 DEF HostInv, PersistBlocked, memory
<1>4. TapInv'
  BY <1>0 DEF BootTypes, TapInv, One, PersistBlocked, ghosts
<1>5. BudgetInv'
  <2>1. result.final => version # MaxVersion \/ attempts.count = 0
    BY DEF EngineInv, ResultInv, NoAttempts
  <2>2. bumps \in {0, 1} /\ attempts.count \in Nat /\ decision.backstopRuns \in Nat
    BY DEF EngineInv, EngineTypes, BootTypes
  <2>3. ASSUME ~unreported, decision.gestureRuns = 0
        PROVE  decision.backstopRuns <= 1 /\ AttemptsAtMost(decision.backstopRuns + bumps)
    <3>1. CASE decision.authorizedBy = "none"
      <4>1. host = "run" /\ blocked = NotBlocked /\ decision.backstopRuns = 0
        BY <3>1 DEF PersistBlocked, HostInv, NoDecision, RunFor
      <4>2. AttemptsAtMost(bumps)
        BY <2>3, <4>1 DEF BudgetInv
      <4> QED
        BY <2>2, <4>1, <4>2 DEF AttemptsAtMost
    <3>2. CASE decision.authorizedBy = "backstop"
      BY <2>3, <3>2 DEF PersistBlocked, HostInv, BudgetInv, AttemptsAtMost
    <3> QED
      BY <2>3, <3>1, <3>2 DEF PersistBlocked, BootTypes, HostInv
  <2> QED
    BY <1>0, <2>1, <2>2, <2>3 DEF BudgetInv, AttemptsAtMost
<1> QED
  BY <1>1, <1>3, <1>4, <1>5 DEF BootInv

\* The tap that paid for nothing is given back.
LEMMA RearmKeepsBoot == KeepsBoot(Rearm)
<1> SUFFICES ASSUME EngineInv, BootTypes, HostInv, TapInv, BudgetInv, BootSafe, Rearm
             PROVE  BootInv'
  BY DEF KeepsBoot, BootInv
<1>1. EngineInv' /\ BootTypes' /\ HostInv'
  BY Rests DEF Keeps, Rearm, disk, BootTypes, Hosts, ghosts, HostInv, memory
<1>4. TapInv' /\ BudgetInv' /\ BootSafe'
  BY DEF BootTypes, HostInv, TapInv, One, Rearm, ghosts, BudgetInv, AttemptsAtMost, disk,
       BootSafe
<1> QED
  BY <1>1, <1>4 DEF BootInv

\* A degraded boot is one before a last, non-breaking migration.
LEMMA PersistDegradedKeepsBoot == KeepsBoot(PersistDegraded)
<1> SUFFICES ASSUME EngineInv, BootTypes, HostInv, TapInv, BudgetInv, BootSafe, PersistDegraded
             PROVE  BootInv'
  BY DEF KeepsBoot, BootInv
<1>1. EngineInv' /\ BootTypes' /\ TapInv'
  BY Rests
     DEF Keeps, PersistDegraded, disk, BootTypes, Hosts, NotBlocked, ghosts, TapInv, One, memory
<1>3. HostInv' /\ BudgetInv'
  BY DEF HostInv, PersistDegraded, memory, BudgetInv, AttemptsAtMost, NoAttempts, ghosts
<1>6. BootSafe'
  BY DEF EngineInv, OutcomeTrue, ResultInv, BootSafe, PersistDegraded
<1> QED
  BY <1>1, <1>3, <1>6 DEF BootInv

\* A healthy boot has the newest rows.
LEMMA PersistHealthyKeepsBoot == KeepsBoot(PersistHealthy)
<1> SUFFICES ASSUME EngineInv, BootTypes, HostInv, TapInv, BudgetInv, BootSafe, PersistHealthy
             PROVE  BootInv'
  BY DEF KeepsBoot, BootInv
<1>1. EngineInv' /\ BootTypes' /\ TapInv'
  BY Rests DEF Keeps, PersistHealthy, disk, BootTypes, Hosts, NotBlocked, ghosts, TapInv, One
<1>3. HostInv'
  BY DEF HostInv, PersistHealthy, memory
<1>5. BudgetInv'
  BY DEF EngineInv, OutcomeTrue, BudgetInv, AttemptsAtMost, NotBlocked,
     PersistHealthy, disk
<1>6. BootSafe'
  BY MaxVersionBounds DEF EngineInv, DataRecoverable, Open, OutcomeTrue, BootSafe,
     None, PersistHealthy, disk
<1> QED
  BY <1>1, <1>3, <1>5, <1>6 DEF BootInv

\* An outcome that cannot be written leaves the attempt unreported.
LEMMA PersistThrowsKeepsBoot == KeepsBoot(PersistThrows)
<1> SUFFICES ASSUME EngineInv, BootTypes, HostInv, TapInv, BudgetInv, BootSafe, PersistThrows
             PROVE  BootInv'
  BY DEF KeepsBoot, BootInv
<1>0. ~unreported' => ~unreported /\ (bumps = 0 \/ blocked # NotBlocked)
  <2>1. unreported' = Unreported /\ bumps \in {0, 1}
    BY DEF PersistThrows, EngineInv, EngineTypes
  <2>2. bumps = 0 \/ bumps > 0
    BY <2>1
  <2> QED
    BY <2>1, <2>2, Zenon DEF Unreported
<1>1. EngineInv' /\ BootTypes' /\ HostInv'
  BY Ends DEF Keeps, PersistThrows, disk, BootTypes, Hosts, HostInv
<1>4. TapInv' /\ BootSafe'
  BY DEF BootTypes, TapInv, One, PersistThrows, BootSafe
<1>5. BudgetInv'
  BY <1>0 DEF EngineInv, EngineTypes, BootTypes, HostInv, BudgetInv,
     AttemptsAtMost, PersistThrows, disk
<1> QED
  BY <1>1, <1>4, <1>5 DEF BootInv

\* So does a kill.
LEMMA BootKilledKeepsBoot == KeepsBoot(BootKilled)
<1> SUFFICES ASSUME EngineInv, BootTypes, HostInv, TapInv, BudgetInv, BootSafe, BootKilled
             PROVE  BootInv'
  BY DEF KeepsBoot, BootInv
<1>0. ~unreported' => ~unreported /\ (bumps = 0 \/ blocked # NotBlocked)
  <2>1. unreported' = Unreported /\ bumps \in {0, 1}
    BY DEF BootKilled, EngineInv, EngineTypes
  <2>2. bumps = 0 \/ bumps > 0
    BY <2>1
  <2> QED
    BY <2>1, <2>2, Zenon DEF Unreported
<1>1. EngineInv' /\ BootTypes' /\ TapInv'
  BY Ends DEF Keeps, BootKilled, Forget, disk, BootTypes, Hosts, RunFor, NoDecision, TapInv, One
<1>3. HostInv' /\ BootSafe'
  BY DEF HostInv, BootKilled, Forget, BootSafe
<1>5. BudgetInv'
  BY <1>0 DEF EngineInv, EngineTypes, BootTypes, HostInv, BudgetInv,
     AttemptsAtMost, BootKilled, disk
<1> QED
  BY <1>1, <1>3, <1>5 DEF BootInv

\* An idle worker has reported its attempt.
LEMMA SuspendKeepsBoot == KeepsBoot(Suspend)
<1> SUFFICES ASSUME EngineInv, BootTypes, HostInv, TapInv, BudgetInv, BootSafe, Suspend
             PROVE  BootInv'
  BY DEF KeepsBoot, BootInv
<1>1. EngineInv' /\ BootTypes' /\ HostInv'
  BY Ends
     DEF Keeps, Suspend, Forget, disk, BootTypes, Hosts, RunFor, NoDecision, ghosts, HostInv
<1>4. TapInv' /\ BudgetInv' /\ BootSafe'
  BY DEF TapInv, Suspend, ghosts, BudgetInv, AttemptsAtMost, disk, BootSafe
<1> QED
  BY <1>1, <1>4 DEF BootInv

\* A tap is a token.
LEMMA TapKeepsBoot == KeepsBoot(Tap)
<1> SUFFICES ASSUME EngineInv, BootTypes, HostInv, TapInv, BudgetInv, BootSafe, Tap
             PROVE  BootInv'
  BY DEF KeepsBoot, BootInv
<1>1. EngineInv' /\ BootTypes' /\ TapInv'
  BY Rests DEF Keeps, Tap, disk, BootTypes, TapInv, One, memory
<1>3. HostInv' /\ BudgetInv' /\ BootSafe'
  BY DEF HostInv, Tap, memory, BudgetInv, AttemptsAtMost, disk, BootSafe
<1> QED
  BY <1>1, <1>3 DEF BootInv

\* A reload is a kill.
LEMMA ReloadKeepsBoot == KeepsBoot(Reload)
<1> SUFFICES ASSUME EngineInv, BootTypes, HostInv, TapInv, BudgetInv, BootSafe, Reload
             PROVE  BootInv'
  BY DEF KeepsBoot, BootInv
<1>0. ~unreported' => ~unreported /\ (bumps = 0 \/ blocked # NotBlocked)
  <2>1. unreported' = Unreported /\ bumps \in {0, 1}
    BY DEF Reload, EngineInv, EngineTypes
  <2>2. bumps = 0 \/ bumps > 0
    BY <2>1
  <2> QED
    BY <2>1, <2>2, Zenon DEF Unreported
<1>1. EngineInv' /\ BootTypes' /\ TapInv'
  BY Ends DEF Keeps, Reload, Forget, disk, BootTypes, Hosts, RunFor, NoDecision, TapInv, One
<1>3. HostInv' /\ BootSafe'
  BY DEF HostInv, Reload, Forget, BootSafe
<1>5. BudgetInv'
  BY MaxVersionBounds, <1>0 DEF EngineInv, EngineTypes, ResultInv, BootTypes,
     HostInv, BudgetInv, AttemptsAtMost, Reload, disk
<1> QED
  BY <1>1, <1>3, <1>5 DEF BootInv

\* Time passes.
LEMMA QuietTimeKeepsBoot == KeepsBoot(QuietTime)
<1> SUFFICES ASSUME EngineInv, BootTypes, HostInv, TapInv, BudgetInv, BootSafe, QuietTime
             PROVE  BootInv'
  BY DEF KeepsBoot, BootInv
<1>1. EngineInv' /\ BootTypes' /\ TapInv'
  BY Rests DEF Keeps, QuietTime, disk, BootTypes, ghosts, TapInv, memory
<1>3. HostInv' /\ BudgetInv' /\ BootSafe'
  BY DEF HostInv, QuietTime, memory, BudgetInv, AttemptsAtMost, disk, ghosts, BootSafe
<1> QED
  BY <1>1, <1>3 DEF BootInv

\* An update leaves the verdict to the gate.
LEMMA UpdateKeepsBoot == KeepsBoot(Update)
<1> SUFFICES ASSUME EngineInv, BootTypes, HostInv, TapInv, BudgetInv, BootSafe, Update
             PROVE  BootInv'
  BY DEF KeepsBoot, BootInv
<1>1. EngineInv' /\ BootTypes' /\ TapInv' /\ BudgetInv'
  BY Rests DEF Keeps, Update, disk, BootTypes, ghosts, TapInv, BudgetInv, AttemptsAtMost
<1>3. HostInv' /\ BootSafe'
  BY DEF HostInv, Update, memory, BootSafe
<1> QED
  BY <1>1, <1>3 DEF BootInv

\* BootInv holds of the boot sequence with the engine in it.
THEOREM BootInvariant == BootSpec => []BootInv
<1>1. BootInit => BootInv
  <2> SUFFICES ASSUME BootInit  PROVE BootInv
    OBVIOUS
  <2>1. EngineInv /\ pc = "off" /\ bumps = 0 /\ attempts = NoAttempts
    BY EngineInit DEF BootInit, Init
  <2>2. BootTypes /\ HostInv /\ BootSafe /\ TapInv /\ BudgetInv
    BY <2>1
       DEF BootInit, BootTypes, Hosts, HostInv, BootSafe, NotBlocked, NoDecision, RunFor,
           TapInv, One, BudgetInv, AttemptsAtMost, NoAttempts
  <2> QED
    BY <2>1, <2>2 DEF BootInv
<1>2. BootInv /\ [BootNext]_bootVars => BootInv'
  <2>1. BootInv /\ UNCHANGED bootVars => BootInv'
    <3> SUFFICES ASSUME BootInv, UNCHANGED bootVars  PROVE BootInv'
      OBVIOUS
    <3>1. EngineInv'
      BY Rests DEF Keeps, BootInv, bootVars, engineVars, disk
    <3>2. BootTypes' /\ HostInv' /\ TapInv'
      BY DEF BootInv, BootTypes, HostInv, TapInv, bootVars, engineVars, memory, hostVars, ghosts
    <3>3. BudgetInv' /\ BootSafe'
      BY DEF BootInv, BudgetInv, AttemptsAtMost, BootSafe, bootVars, engineVars, disk, memory,
         hostVars, ghosts
    <3> QED
      BY <3>1, <3>2, <3>3 DEF BootInv
  <2> QED
    BY <2>1, GateOpenKeepsBoot, GateTerminalKeepsBoot, GateGestureKeepsBoot, GateConsumeKeepsBoot,
       GateBackstopKeepsBoot, GateShutKeepsBoot, EngineStartKeepsBoot, EngineStepKeepsBoot,
       PersistBlockedKeepsBoot, RearmKeepsBoot, PersistDegradedKeepsBoot, PersistHealthyKeepsBoot,
       PersistThrowsKeepsBoot, BootKilledKeepsBoot, SuspendKeepsBoot, TapKeepsBoot,
       ReloadKeepsBoot, QuietTimeKeepsBoot, UpdateKeepsBoot
       DEF BootNext, KeepsBoot
<1> QED
  BY <1>1, <1>2, PTL DEF BootSpec

\* The services start only on the rows of one complete version, and a degraded start
\* is told to the user (runtime.ts, bootRuntime and persistDegradedOutcome).
THEOREM BootIsSafe == BootSpec => []BootSafe
<1>1. BootInv => BootSafe
  BY DEF BootInv
<1> QED
  BY BootInvariant, <1>1, PTL

\* One tap pays for at most one recorded attempt, however many kills and reloads come
\* between the claim, the token and the run (runtime.ts, the gate).
THEOREM BootTapPaysOnce == BootSpec => []TapPaysOnce
<1>1. BootInv => TapPaysOnce
  BY DEF BootInv, BootTypes, TapInv, One, TapPaysOnce
<1> QED
  BY BootInvariant, <1>1, PTL

\* Runs nobody asked for record at most two attempts of an episode, so that a budget
\* of three is only used up by a tap, as long as every attempt got its verdict
\* (runtime.ts, the backstop; storage/migrations/index.ts).
THEOREM BootTerminalByGesture == BootSpec => []TerminalByGesture
<1>1. BootInv => TerminalByGesture
  <2> SUFFICES ASSUME BootInv, Exhausted, ~unreported, blocked.gestureRuns = 0  PROVE FALSE
    BY DEF TerminalByGesture, BootInv, BootTypes
  <2>1. attempts.count \in Nat /\ attempts.count >= 3 /\ blocked # NotBlocked /\ blocked.final
    BY BootAssumption, MigratorAssumption
       DEF BootInv, EngineInv, EngineTypes, Exhausted, Blocked
  <2>3. version # MaxVersion
    BY <2>1 DEF BootInv, BudgetInv
  <2>4. attempts.count <= 2
    BY <2>1, <2>3 DEF BootInv, EngineInv, EngineTypes, HostInv, BootTypes, BudgetInv,
       AttemptsAtMost
  <2> QED
    BY <2>1, <2>4
<1> QED
  BY BootInvariant, <1>1, PTL

\* The engine's own promises hold inside the boot, where the gate voids the counter
\* of attempts and the outcome is persisted between two runs.
THEOREM BootKeepsEngine ==
    BootSpec => [](DataRecoverable /\ OutcomeTrue /\ NeverCountedTwice /\ OneAttemptPerRun)
<1>1. BootInv => DataRecoverable /\ OutcomeTrue /\ NeverCountedTwice /\ OneAttemptPerRun
  BY DEF BootInv, EngineInv, EngineTypes, CreditInv, Spent, NeverCountedTwice, OneAttemptPerRun
<1> QED
  BY BootInvariant, <1>1, PTL
=============================================================================
