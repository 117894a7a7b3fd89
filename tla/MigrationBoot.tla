--------------------------- MODULE MigrationBoot ---------------------------
(***************************************************************************)
(* The boot sequence around the migration engine: the gate, the engine run *)
(* and the persisted outcome of apps/extension/src/wallet/runtime.ts, with *)
(* the blocked status of storage/migrations/index.ts.                      *)
(*                                                                         *)
(* Every wake of the service worker calls bootRuntime().  The pc of the    *)
(* engine is "off" outside run(); host says where bootRuntime() is.        *)
(* The storage area applies one call as one batch, so the gate's removals  *)
(* of several keys are one step; the engine assumes less (Migrator).       *)
(***************************************************************************)
EXTENDS Migrator

CONSTANTS
    MaxTaps,    \* bound on taps of the Retry button
    MaxBuilds   \* bound on shipped updates

\* runtime.ts constructs the engine without maxRetries: the default, 3, applies.
ASSUME BootAssumption ==
    MaxTaps \in Nat /\ MaxBuilds \in Nat \ {0} /\ MaxRetries >= 3

VARIABLES
    blocked,         \* disk: nulo:schema:blocked
    retryRequested,  \* disk: nulo:schema:retry-requested
    degraded,        \* disk: nulo:schema:degraded
    build,           \* the manifest version
    reloadDue,       \* the barrier has written the token and is about to reload
    quiet,           \* the backstop window has passed since lastAttemptAt
    host,            \* memory: where bootRuntime() is
    decision,        \* memory: the gate's decision
    taps,            \* history: taps of the Retry button
    tapAttempts,     \* history: attempts recorded by runs a tap authorised
    unreported       \* history: an attempt was recorded, no verdict persisted

hostVars == <<blocked, retryRequested, degraded, build, reloadDue, quiet, host, decision>>
ghosts == <<taps, tapAttempts, unreported>>
bootVars == <<engineVars, hostVars, ghosts>>

NotBlocked == [final |-> FALSE, build |-> 0, backstopRuns |-> 0, gestureRuns |-> 0]
RunFor(why, backstops, gestures) ==
    [authorizedBy |-> why, backstopRuns |-> backstops, gestureRuns |-> gestures]
NoDecision == RunFor("none", 0, 0)

BootInit ==
    /\ Init
    /\ blocked = NotBlocked /\ retryRequested = FALSE /\ degraded = FALSE
    /\ build = 1 /\ reloadDue = FALSE /\ quiet = FALSE /\ host = "off" /\ decision = NoDecision
    /\ taps = 0 /\ tapAttempts = 0 /\ unreported = FALSE

-----------------------------------------------------------------------------
\* The gate lets the engine run.
Authorize(d) == decision' = d /\ host' = "run"

\* A new build voids the verdict and the attempt budget; without a verdict the
\* engine runs as on every boot, also when a leftover token cannot be removed.
GateOpen ==
    /\ host = "off"
    /\ blocked = NotBlocked \/ blocked.build # build
    /\ blocked' = NotBlocked
    /\ \/ NoFault /\ retryRequested' = FALSE
       \/ blocked = NotBlocked /\ retryRequested /\ Fault /\ UNCHANGED retryRequested
    /\ attempts' = IF blocked = NotBlocked THEN attempts ELSE NoAttempts
    /\ Authorize(NoDecision)
    /\ UNCHANGED <<data, version, legacy, running, backup, memory, incidents,
                   degraded, build, reloadDue, quiet, ghosts>>

Blocked == blocked # NotBlocked /\ blocked.build = build

\* Terminal: consume the token, boot no further until an update ships.
GateTerminal ==
    /\ host = "off" /\ NoFault
    /\ Blocked /\ blocked.final
    /\ retryRequested' = FALSE
    /\ host' = "dead"
    /\ UNCHANGED <<disk, memory, incidents, blocked, degraded, build, reloadDue, quiet, decision, ghosts>>

\* Mutant: the token is consumed after the run instead of before it.
GateGestureKeepsToken ==
    /\ host = "off" /\ NoFault
    /\ Blocked /\ ~blocked.final /\ retryRequested
    /\ blocked' = [blocked EXCEPT !.gestureRuns = @ + 1]
    /\ Authorize(RunFor("gesture", blocked.backstopRuns, blocked.gestureRuns + 1))
    /\ UNCHANGED <<disk, memory, incidents, retryRequested, degraded, build, reloadDue, quiet, ghosts>>

\* A tap: claim it on the verdict, then consume the token.
GateGesture ==
    /\ host = "off" /\ NoFault
    /\ Blocked /\ ~blocked.final /\ retryRequested
    /\ blocked' = [blocked EXCEPT !.gestureRuns = @ + 1]
    /\ host' = "consume"
    /\ decision' = RunFor("gesture", blocked.backstopRuns, blocked.gestureRuns + 1)
    /\ UNCHANGED <<disk, memory, incidents, retryRequested, degraded, build, reloadDue, quiet, ghosts>>

GateConsume ==
    /\ host = "consume" /\ NoFault
    /\ retryRequested' = FALSE
    /\ host' = "run"
    /\ UNCHANGED <<disk, memory, incidents, blocked, degraded, build, reloadDue, quiet, decision, ghosts>>

\* Mutant: the backstop is open to a user who has already retried.
GateBackstopAfterGesture ==
    /\ host = "off" /\ NoFault
    /\ Blocked /\ ~blocked.final /\ ~retryRequested
    /\ quiet /\ blocked.backstopRuns < 2
    /\ blocked' = [blocked EXCEPT !.backstopRuns = @ + 1]
    /\ Authorize(RunFor("backstop", blocked.backstopRuns + 1, blocked.gestureRuns))
    /\ UNCHANGED <<disk, memory, incidents, retryRequested, degraded, build, reloadDue, quiet, ghosts>>

MayBackstop == quiet /\ blocked.backstopRuns < 1 /\ blocked.gestureRuns = 0

\* The one autonomous run of an episode, claimed before it starts.
GateBackstop ==
    /\ host = "off" /\ NoFault
    /\ Blocked /\ ~blocked.final /\ ~retryRequested
    /\ MayBackstop
    /\ blocked' = [blocked EXCEPT !.backstopRuns = @ + 1]
    /\ Authorize(RunFor("backstop", blocked.backstopRuns + 1, blocked.gestureRuns))
    /\ UNCHANGED <<disk, memory, incidents, retryRequested, degraded, build, reloadDue, quiet, ghosts>>

\* Otherwise the boot is short-circuited; so it is when the gate's storage fails.
GateShut ==
    /\ \/ host = "off" /\ NoFault /\ Blocked /\ ~blocked.final /\ ~retryRequested /\ ~MayBackstop
       \/ host \in {"off", "consume"} /\ Fault
    /\ host' = "dead"
    /\ UNCHANGED <<disk, memory, incidents, blocked, retryRequested, degraded, build, reloadDue, quiet,
                   decision, ghosts>>

\* The engine runs under the decision.
EngineStart ==
    /\ host = "run" /\ pc = "off"
    /\ Start
    /\ UNCHANGED <<hostVars, ghosts>>

EngineStep ==
    /\ host = "run"
    /\ Run
    /\ tapAttempts' = IF decision.authorizedBy = "gesture" THEN tapAttempts + (bumps' - bumps)
                                                           ELSE tapAttempts
    /\ UNCHANGED <<hostVars, taps, unreported>>

FreeFailure == result.kind = "needs-recovery" /\ ~result.spent
IsBlocking == result.kind = "needs-recovery" \/ (result.kind = "failed" /\ result.breaking)

\* persistBlockedOutcome(): the verdict carries the claims of the gate; a failure
\* that recorded no attempt leaves the backstop eligible and re-arms the tap.
PersistBlocked ==
    /\ host = "run" /\ pc = "returned" /\ IsBlocking /\ NoFault
    /\ blocked' = [final |-> result.final, build |-> build,
                   backstopRuns |-> IF FreeFailure THEN 0 ELSE decision.backstopRuns,
                   gestureRuns |-> decision.gestureRuns]
    /\ quiet' = FreeFailure
    /\ host' = IF FreeFailure /\ decision.authorizedBy = "gesture" THEN "rearm" ELSE "dead"
    /\ UNCHANGED <<disk, memory, incidents, retryRequested, degraded, build, reloadDue, decision, ghosts>>

Rearm ==
    /\ host = "rearm"
    /\ \/ NoFault /\ retryRequested' = TRUE
       \/ Fault /\ UNCHANGED retryRequested
    /\ host' = "dead"
    /\ UNCHANGED <<disk, memory, incidents, blocked, degraded, build, reloadDue, quiet, decision, ghosts>>

\* persistDegradedOutcome(): set degraded, then remove([blocked, attempts]).
PersistDegraded ==
    /\ host = "run" /\ pc = "returned" /\ NoFault
    /\ result.kind = "failed" /\ ~result.breaking
    /\ \/ ~degraded /\ degraded' = TRUE /\ UNCHANGED <<blocked, attempts, host>>
       \/ /\ degraded
          /\ blocked' = NotBlocked /\ attempts' = NoAttempts
          /\ host' = "booted" /\ UNCHANGED degraded
    /\ UNCHANGED <<data, version, legacy, running, backup, memory, incidents, retryRequested,
                   build, reloadDue, quiet, decision, ghosts>>

\* A healthy outcome clears both statuses; the services start.
PersistHealthy ==
    /\ host = "run" /\ pc = "returned" /\ NoFault
    /\ result.kind \in {"noop", "fresh", "migrated"}
    /\ blocked' = NotBlocked /\ degraded' = FALSE
    /\ host' = "booted"
    /\ UNCHANGED <<disk, memory, incidents, retryRequested, build, reloadDue, quiet, decision, ghosts>>

\* An attempt was recorded and no verdict tells the next boot.
Unreported == unreported \/ (bumps > 0 /\ blocked = NotBlocked)

\* The write of the outcome throws.  A blocked boot stays down for the lifetime
\* of the worker, the others may be called again in it.
PersistThrows ==
    /\ host = "run" /\ pc = "returned" /\ Fault
    /\ host' = IF IsBlocking THEN "dead" ELSE "off"
    /\ pc' = "off" /\ bumps' = 0 /\ result' = NoResult
    /\ unreported' = Unreported
    /\ UNCHANGED <<disk, m, cause, incidents, blocked, retryRequested, degraded, build, reloadDue, quiet,
                   decision, taps, tapAttempts>>

Forget == pc' = "off" /\ m' = None /\ cause' = "none" /\ bumps' = 0 /\ result' = NoResult

\* The worker is killed in the middle of a boot.
BootKilled ==
    /\ host \in {"consume", "run", "rearm"} /\ kills < MaxKills
    /\ kills' = kills + 1
    /\ host' = "off" /\ decision' = NoDecision
    /\ unreported' = Unreported
    /\ Forget
    /\ UNCHANGED <<disk, faults, incidents, blocked, retryRequested, degraded, build, reloadDue, quiet,
                   taps, tapAttempts>>

\* The worker goes idle after a finished boot and is started again.
Suspend ==
    /\ host \in {"dead", "booted"} /\ NoFault
    /\ host' = "off" /\ decision' = NoDecision
    /\ Forget
    /\ UNCHANGED <<disk, incidents, blocked, retryRequested, degraded, build, reloadDue, quiet, ghosts>>

\* requestRetry() of MigrationBarrier.vue: write the token ...  The button is held
\* for five minutes after a claim, so a tap may meet a slow run.
Tap ==
    /\ NoFault /\ taps < MaxTaps /\ ~reloadDue
    /\ Blocked /\ ~blocked.final
    /\ retryRequested' = TRUE /\ reloadDue' = TRUE /\ taps' = taps + 1
    /\ UNCHANGED <<disk, memory, incidents, blocked, degraded, build, quiet, host, decision,
                   tapAttempts, unreported>>

\* ... and reload the extension, which ends whatever the worker was doing.
Reload ==
    /\ NoFault /\ reloadDue
    /\ reloadDue' = FALSE
    /\ host' = "off" /\ decision' = NoDecision
    /\ unreported' = Unreported
    /\ Forget
    /\ UNCHANGED <<disk, incidents, blocked, retryRequested, degraded, build, quiet,
                   taps, tapAttempts>>

QuietTime ==
    /\ Blocked /\ ~quiet /\ NoFault
    /\ quiet' = TRUE
    /\ UNCHANGED <<disk, memory, incidents, blocked, retryRequested, degraded, build, reloadDue, host,
                   decision, ghosts>>

\* The browser installs an update while the worker is down.
Update ==
    /\ host = "off" /\ build < MaxBuilds /\ NoFault
    /\ build' = build + 1
    /\ UNCHANGED <<disk, memory, incidents, blocked, retryRequested, degraded, reloadDue, quiet, host,
                   decision, ghosts>>

BootNext ==
    \/ GateOpen \/ GateTerminal \/ GateGesture \/ GateConsume \/ GateBackstop \/ GateShut
    \/ EngineStart \/ EngineStep
    \/ PersistBlocked \/ Rearm \/ PersistDegraded \/ PersistHealthy \/ PersistThrows
    \/ BootKilled \/ Suspend \/ Tap \/ Reload \/ QuietTime \/ Update

BootSpec == BootInit /\ [][BootNext]_bootVars

-----------------------------------------------------------------------------
\* The services start only on rows of one complete version: the newest, or the one
\* before a last, non-breaking migration, and then the user is told; a verdict of
\* an earlier boot never outlives the boot (runtime.ts 222-237, 416-428).
BootSafe ==
    host = "booted" =>
        /\ data = ShapeAt(version) /\ ~running
        /\ blocked = NotBlocked
        /\ degraded <=> version < MaxVersion
        /\ degraded => \E n \in Migrations : Later(version) = {n} /\ n \notin Breaking

\* One tap pays for at most one recorded attempt, over kills between the claim,
\* the consumption of the token and the run (runtime.ts 319-330).
TapPaysOnce == tapAttempts <= taps

Exhausted == Blocked /\ blocked.final /\ attempts.count >= MaxRetries

\* Runs nobody asked for never use up the retry budget, as long as every recorded
\* attempt got its verdict persisted (runtime.ts 337-345).
TerminalByGesture == Exhausted /\ ~unreported => blocked.gestureRuns > 0

\* "so the terminalizing attempt is always gesture-initiated"
\* (storage/migrations/index.ts 66-68, 70-73): without the proviso.
TerminalOnlyByGesture == Exhausted => blocked.gestureRuns > 0
=============================================================================
