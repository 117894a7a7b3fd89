# Nulo wallet: a TLA+ verification project

Nulo is an MV3 browser-extension wallet for Aztec. Its service worker hosts some
thirty background services over `chrome.storage`; popups talk to them over ports, an
offscreen document hosts the PXE (Aztec's private execution environment, which proves
transactions), and dApps reach the worker through a content script. Everything in the
worker is asynchronous, the browser ends the worker whenever it likes, and a
transaction that was broadcast cannot be taken back. This project models the parts of
the wallet whose correctness depends on the order in which these things happen.

Paths below are relative to `src/`; `services/` is
`apps/extension/src/wallet/services/`.

## 1. Inventory

| Part | Where | State | Operations | What is hard |
|---|---|---|---|---|
| Mutex `Lock` | `packages/wallet-core/src/utils/lock.ts` | queue of resolvers, current ticket, watchdog timer | enter, leave, withLock, force-release | the watchdog admits a successor while the displaced holder still runs |
| `ReadWriteGuard` | `packages/wallet-core/src/utils/rw-guard.ts` | reader tokens, write flag, two wait lists, timer | read, write, token expiry | hand-over of the write flag, expired readers that finish late |
| `ExecutionMutex` | `services/execution/execution-mutex.ts` | a promise tail per lane, depth counters | acquire (abortable, capped), release | a waiter that leaves the middle of a promise chain |
| Migration engine | `packages/wallet-core/src/migration/` | schema version, running marker, journal (backup), attempts | run, resume, apply, restore | kills and failing writes between any two writes |
| Migration boot gate | `apps/extension/src/wallet/runtime.ts`, `storage/migrations/index.ts`, `MigrationBarrier.vue` | blocked status, retry token, degraded status | gate, persist outcome, Retry tap | who authorised a run, over kills and updates |
| Operation journal | `services/operation-journal/`, `packages/wallet-core/src/jobs/` | one durable row per operation | create, transition, guarded transition, purge, reap | many writers; a row outlives the worker |
| Execution lane | `services/execution/execution-lane.ts` | abort controllers by row and session, lanes | acquireSlot, cancelJob, abandonDeadSessions | cancel, session end and send race |
| Claim | `services/execution/claim-helper.ts` | – | claim, refile, create | claim against cancel and reap |
| Executors | `services/execution/{dapp-send-executor,transfer-executor,execution-coordinator}.ts` | the send in progress | build, prove, commit, send, record | point of no return |
| dApp intake | `services/wallet-sdk/` | session queues (batons), queued rows | onWalletMessage, dispatch, settle | order of sends across popups |
| dApp interactions | `services/dapp-interaction/service.ts` | open popups | approve, reject, silent path | the approval belongs to one session |
| Journal upkeep | `services/execution/execution-lane.ts` (heartbeat), `services/operation-journal/{reaper,gc}.ts` | waiters with leases, timers, ages of rows | heartbeat, sweep, evict | a sweep acts on a snapshot; a hand-over in the middle of a heartbeat |
| Send check | `services/operation-journal/send-check.ts` | watches, reads in flight | start, tick, read, record | a read outlives the session it was begun in |
| Auto-lock sessions | `services/profile/session-manager.ts` | the session in memory, its stored row, its alarm, two settings | open, close, refresh, expire or defer, restore, clearBearer | two locks, and readers that hold neither |
| Profile deletion | `services/profile/`, `services/profile-deletion/` | deletion epochs, tombstones | deleteProfile, resume | id reuse, deletion against late writers |
| Incoming transfers, balances, transactions, discovery, prices, tokens, ... | `services/*` | rows, schedulers, queues | scans, polls, projections | see section 7 |

`PROJECT.json` lists every part with its status, and under `hazards` the places in
the code where an order nobody tested could go wrong, with the property that watches
each.

## 2. Modules

| Module | Models | State and actions |
|---|---|---|
| `Lock` | `lock.ts` | `queue`, `locked`, `currentTicket`, `forceReleaseTimer` are the class's fields; `timers` are the pending timeouts. One action per method: `Enter`, `Leave`, `ForceRelease`; `Dispatch` is the shared tail of all three. |
| `ReadWriteGuard` | `rw-guard.ts` | the fields, plus `age` for `Date.now()` differences. A woken reader re-checks in a step of its own (the microtask). |
| `ExecutionMutex` | `execution-mutex.ts` | one lane key: `tail`, each call's `prior`, the settled promises, both depth counters. |
| `FifoMutex` | – | what the two mutexes promise: an abstract first-come-first-served mutex with waiters that may give up. |
| `Migrator` | `migrator.ts` | the bookkeeping keys on disk, and the program counter of `run()`. Multi-key writes land key by key. |
| `MigrationBoot` | `runtime.ts` and the barrier | EXTENDS `Migrator`: the gate, the engine run under its decision, the persisted verdict, taps, quiet time, updates. |
| `Journal` | journal service and stage machine | a row is its stage, whether it carries a transaction hash, the profile incarnation and the worker lifetime it was filed in. |
| `SendPipeline` | intake to journal's last word | EXTENDS `Journal`: sessions, deletion, lane, batons, claim, prove-and-send, reapers, death of the worker. |
| `SessionManager` | `session-manager.ts` and the facade calls that reach it | the in-memory session (`active`, `obj`), its artifacts (`row`, `alarm`), the facade queue, the artifact lock, and a program counter per call, per expiry decision and for the restore. An action is the code between two awaits of `open`, `close`, `commitSession`, `decideExpiry`, `restore`. |
| `JournalUpkeep` | the heartbeat of `execution-lane.ts`, `reaper.ts`, `gc.ts` | a clock; each row's stage, `createdAt` and `updatedAt`; `queuedAt` and `lane` are `queuedWaiters` and `executionWaiters`; the heartbeat and the sweep in progress with their snapshots. |
| `SendCheck` | `send-check.ts`, `setSendCheck` | `watches`, `nextAt`, the read in flight of each row with the session it captured; what the network holds. |
| `*Proofs` | – | theorems and proofs, section 5. `MigrationBootProofs` builds on `MigratorProofs`, and `SendPipelineProofs`, `SendFenceProofs` and `SendLaneProofs` on each other in this order; `UpkeepAndLockProofs` and `CheckAndGuardProofs` hold two components each, with nothing in common. |
| `MC*` | – | instances for TLC, and the fair specifications. |

How the modules fit together: `Journal`'s writes are single steps because the service
runs each under its transition lock, which is `Lock`; `SendPipeline`'s `line` is the
FIFO line that `ExecutionMutex` is shown to implement; `MigrationBoot` composes the gate
with the engine, action by action. `SendCheck` starts where `SendPipeline` leaves a failed row
with a hash; `JournalUpkeep` is the detail of `SendPipeline`'s reapers, which may fail any unfinished
row there and only a stale one here; `SessionManager` is the inside of `SendPipeline`'s `Unlock`
and `LockWallet`, and its facade lock is the FIFO lock that `Lock` is proved to be.

### Granularity

A step is the code between two awaits. These choices merge more than that:

- `createOperation` and the registration of its controller are one step (nobody knows
  the new id before its creator does); so are the claim's write and the registration
  that follows it with no await between.
- A journal transition (load, check, put) is one step, under the transition lock.
- One record of the ended-session sweep is one step; between records anything may
  happen, and a record registered while a sweep is under way is visited, as the
  iteration of a JavaScript `Map` does.
- A sweep of the reaper is one guarded write per row. Ages are abstracted away: any
  unfinished row may be old enough. This allows more than the code does.
- The gate's removal of several keys is one call of the storage area and one step.
- In `SendPipeline` there is one profile, one chain and one dApp session, because lanes,
  batons and fences are per such scope. What is built, fees, authwits and wording are
  left out; where the code may fail for such reasons the model may fail.
- In `SendPipeline` a session is published and removed in one step, and may be locked at
  any moment, whatever the expiry deferral would say; `SessionManager` has the detail.
- In `SessionManager` the artifact lock admits waiters in any order (more than the code
  does), the facade lock's five-minute watchdog is left out, and the configuration
  store's write is done when its event is heard. A storage call that throws may have
  landed. Opening the bearer, the profile lookup and the envelope check are choices of
  outcome; the integrity gate after the restore is left out.
- In `JournalUpkeep` simulating, proving and submitting are one stage, and failed includes
  cancelled. What is due runs before the clock moves on.
- In `SendCheck` rows are independent but for the session, so a run has one.

Faults: `MaxFaults` bounds throwing storage calls, `MaxKills` bounds deaths of the worker.
In `SendPipeline` a fault is a failing write or lookup on the way of a send or of the
ended-session sweep, the ones the code catches and logs included: a journal mark, the
sweep's cancel (the record is skipped and stays registered), a settling write, a network
that cannot be resolved. `JournalUpkeep` has no storage faults: a failing touch or a failing
write of the reaper is not modelled.
Other bounds: `MaxSerial` sessions per lifetime, `MaxEpoch` deletions, `MaxTaps`,
`MaxBuilds`, `Ceiling` (ticks a reader may hold), `MaxTime` (the clock of the three modules
that have one), `MaxSessions` (unlocks). A failed row of `SendCheck` fails early enough
for its window to end before the clock does.

## 3. Runs

| Run | Instance | What it shows |
|---|---|---|
| `lock_watchdog` | 4 calls, timers may fail to arm | a lock is held by one call besides displaced ones; a displaced holder's late `leave` harms nobody; no waiter sleeps on a free lock; every waiter is served or the lock is held unarmed for good; refines `FifoMutex` |
| `rwguard` | 3 readers, 3 writers, ceiling 2 | exclusion but for expired readers; hung readers keep nobody out for ever |
| `exec_mutex` | 5 calls, 2 origins, lane cap 3, origin cap 2 | exclusion, exact counters, refinement of `FifoMutex` |
| `migrator` | 4 keys, migrations 2 (breaking) and 3, 3 throws, 3 kills | rows recoverable, results true, no failure counted twice, one attempt per run, convergence |
| `migration_boot` | 2 keys, 4 throws, 1 kill, 1 tap, 2 builds | services start only on a complete version; one tap pays once; unasked runs do not use up the budget when verdicts are persisted |
| `migration_boot_terminal` | the same | *violated*: without that proviso they can |
| `send_one` | 1 dApp send and 1 transfer, 2 sessions, 1 deletion, 1 kill, 1 fault | eight properties of a send against everything that interrupts it |
| `send_two` | 2 dApp sends, 1 session | in order of arrival, and both end |
| `send_cancel_honoured` | 1 dApp send, 1 unreadable row | *violated*: a cancelled row that cannot be read is replaced |
| `session_manager` | 3 calls of any kind, 2 sessions of a password and a passkey profile, TTL 0 or 1, 1 fault, 1 kill | a live session has its row and its alarm; a reported lock is final; an expiry is put off within its budget; nobody waits in a circle; strict mode erases the bearer |
| `journal_upkeep` | 2 sends, heartbeat, lease, period and cap 1, grace 3, clock to 5, 1 kill | a vouched row stays fresh; a hung queue is resolved; only stale rows are reaped |
| `send_check` | 1 row, window 2, clock to 4, 3 sessions, 2 faults, 1 kill | no failed send is overlooked; an answer is true and written under the session that asked; there is one in the end |

Why the bounds are enough for the questions asked. Four calls give the Lock a displaced
holder, a holder and a queue of two. Three readers and writers allow a hand-over with
both lists non-empty. In `exec_mutex` both caps are reached with a waiter aborted between
two others. Two migrations give `Migrator` a later one to escalate to, and three kills one
in each of apply, restore and clear; three attempts are the code's own budget. For a send,
one of each interruption makes every pair of interruptions meet at every step; two
sends are what order and exclusion are about. The constraint `Overlap` of `send_one` keeps
the two sends apart except while a sweep for an ended session is under way and nothing has
died, been deleted or failed: that is where one send's fate depends on the other's. Three calls let a session be opened, expire
or be locked under a third call that changes a setting or opens the next one; with the
decision and the restore that is five processes. A deferral's step and its budget are both
one tick there, so the run defers once and then locks; a last step cut short by the budget
does not occur in it. In `journal_upkeep` lease, grace and one
period add up to the clock, so a queue that hangs from the start is resolved on the last
tick, and the cap is exceeded by the second row. In `send_check` two looks fall inside the
window and one after it, and three sessions allow another profile's in between. The
theorems of section 5 are free of these bounds.

Deadlock is not checked: every instance ends when its one-shot calls are done and its
fault budget is spent. Waiting for ever is covered by the liveness properties instead.

Every property of a passing run has a mutant in `PROJECT.json`: a variant of one definition,
written next to it, with a bug that the code could plausibly have, under which TLC
finds the property violated.

## 4. Fairness

- `lock_watchdog`: an armed timer fires. Nothing is assumed of the holders, which may hang.
- `rwguard`: microtasks and timeouts run, and writes end; reads may hang.
- `exec_mutex`: microtasks run and holders release (the executors do in `finally`).
- `migrator`: `run()` proceeds and the worker is started again; kills and throws are finite.
- `send_two`: every await of a send settles (a popup times out, the node's client gives
  up) and a started cancel or sweep proceeds. Neither the user nor the reapers have to
  help: `LiveNext` leaves the reapers out.
- `send_check`: the interval keeps firing, a read goes on until it returns (the node is
  asked once, with the transport's timeout), `start()` goes on, and time passes. Nothing is
  assumed of the user, so the property ends where the profile is locked.

## 5. Proofs

TLAPS proves, for every value of the constants that satisfies the named assumptions:

- **`UpkeepAndLockProofs`, `Lock`.** `LockInv` is `LockTypes`, the three safety invariants and `QueueInv`: the
  queue holds each waiting call once. Without `QueueInv`, `dispatch()` could grant a
  call that is already inside. All three entry points end in `dispatch()`, so one
  lemma (`DispatchPreserves`) carries the argument over the values handed to it. Results:
  `LockMutualExclusion`, `LockNoLostWakeup`, `LockWatchdogOfCurrent`, and, with the refinement
  mapping of `ImplementsFifoMutex`, `LockImplementsFifoMutex`: initial states map to
  initial states and every step to a step of `FifoMutex` or a stutter.
- **`ExecutionMutexProofs`.** The promise chain excludes because a call's promise stands for
  all earlier ones. `MutexInv` says so: whoever holds or is done came after released
  calls only, a call's prior is the arrival before it or all earlier ones are
  released, and the same for the tail, which the garbage collection of the map entry
  may have cleared. `DepthInv` adds that each counter is the number of capped calls it
  stands for, within its cap: a step moves at most one call in or out, and the calls that
  leave by abort, error or release are the ones that were counted. `QueueInv` ties the
  history variable `queue` to the calls that wait, in order of arrival: a call whose turn
  has come has nobody before it who waits, so it is the head. Results:
  `MutexMutualExclusion`, `MutexDepthExact`, and `MutexImplementsFifo`: with the refinement
  mapping of the run, every step of the promise chain is a step of `FifoMutex` or none.
- **`CheckAndGuardProofs`, `ReadWriteGuard`.** `GuardInv`: a token is a read in progress, a read without one
  has run for the ceiling, there is no token while a writer is active, and the flag is set
  exactly while one writer has the slot. Writers in line are queued, each once, so the
  hand-over never grants the slot to somebody who has it; one lemma (`DrainKeeps`) carries
  this for every step that ends in the hand-over. Result: `GuardExclusion`.
- **`SendPipelineProofs`.** A row is *sound* when it is gone, or carries a hash in a stage
  with no edge to `cancelled`. `SendInv`: a send that is committed, or may have been
  broadcast, has a sound row of its own and is past every step that files a row. The two
  lemmas `WriteSound` and `MarkSound` show that no journal write spoils a sound row, whoever
  makes it; the commit makes the row sound before the broadcast. Results:
  `SendSentIsTraceable`, for any number of sends, sessions, deletions, deaths and faults.
- **`SendFenceProofs`.** One lemma per group of steps shows the *footprint* of a step of a
  send: it leaves session and profile alone, registers only for the live session, files a
  row only under the listed incarnation, and moves other rows only forward. On top of `SendInv`,
  `FenceInv` says that a row is filed once and where no controller stands (or a row filed
  late would appear, cancellable, behind a finished sweep), that as long as no call has
  failed a cancellable job of an ended session is ahead of a sweep or just cancelled by one,
  and that every row is of the listed incarnation, or of the one before while a deletion that
  a death may undo has only begun. Results: `FenceDeadJobsSwept`, `FenceErasedStaysErased`.
  `AuthorityInv` is about what a send was authorised under: a running send never holds a
  session or an epoch ahead of the wallet's, so one that has ended cannot come back
  (`NoReturn`); its controllers carry the session that authorised it; and while that session
  lives its rows are cancelled only when the user asked, so the sweeps spare them. Results:
  `FenceLiveJobsKept` and `FenceLapsedStaysUnsent`, with faults and deaths.
- **`SendLaneProofs`.** A step of a send follows a *course* (`Course`, one lemma per group of
  steps): it joins the line from one place and leaves it in one step, keeps a controller only
  where it will still drop it, and is dispatched when everything that arrived before it
  stands in the line or never will. `LaneInv` on top of the two invariants above gives
  `LaneNoLeak` and `LaneInOrder`. `CardInv`, with `FiledInv`, says which unfinished stages
  the queued row and the row a send executes under may have at each place of the pipeline,
  as long as no call has failed: a row that refuses a write was settled by somebody else, a
  cancelled row never runs again, and every way out gives both rows their last word first.
  Results: `CardNoStuckCard`, for both cards, and `CardCancelledNeverSent`.
- **`MigratorProofs`.** `DataRecoverable` is far from inductive. `EngineInv` says what the disk
  can hold whenever `run()` is stopped (`DiskInv`: no journal, or the journal of the first
  migration still needed, or one of a newer build), what `run()` knows at each of its labels
  (`PcInv`), what a returned result says of the disk (`ResultInv`), and that each counted attempt
  has an incident of its own while an uncounted journal has an incident to spare (`CreditInv`),
  which is the reason for marking the journal before the counter is raised. One lemma per
  action. Results: `EngineDataRecoverable`, `EngineOutcomeTrue`, `EngineNeverCountedTwice`,
  `EngineOneAttemptPerRun`, for any list of migrations, any footprints, kills and throws.
- **`MigrationBootProofs`.** The gate's own writes leave `EngineInv` alone or void the counter.
  `BootInv` adds whose run is in progress (`HostInv`), a ledger of taps (`TapInv`: an attempt
  recorded, a token not consumed, or a run that may still record), and how many attempts an
  episode can have recorded without a tap (`BudgetInv`). Results: `BootIsSafe`, `BootTapPaysOnce`,
  `BootTerminalByGesture`, and `BootKeepsEngine`: the engine's four properties inside the boot.
- **`UpkeepAndLockProofs`, `JournalUpkeep`.** None of the three properties is inductive: how old a row may be
  depends on the timer, on the heartbeat in progress and on who vouches. `UpkeepInv` bounds,
  beside the types, the age of each waiting row by where it stands in the heartbeat
  (`FreshOf`: a row handed over in the middle of one is touched by neither loop and may be
  two heartbeats old), keeps the timer armed while somebody waits (`TimerInv`), bounds the
  lease (`LeaseOf`) and the reaper's alarm (`AlarmInv`), and says what a sweep's snapshot
  still knows of its rows (`SweepOf`). One lemma per action. Results:
  `UpkeepVouchedStaysFresh`, `UpkeepHungQueueResolved`, `UpkeepReapsOnlyStale`.
- **`CheckAndGuardProofs`, `SendCheck`.** `CheckInv`: an unanswered failed row is watched, or read by `start()`
  and about to be, or still to be read by it (`WatchInv`); a captured session was unlocked
  and of the profile (`FenceInv`); a verdict in flight is the network's own, or there was no
  endpoint, or the window was over (`VerdictInv`). Results: `CheckNoAnswerLost`,
  `CheckAnswerWhileLive`.

Assumptions: `LockAssumption`, `MutexAssumption`, `GuardAssumption`, `RowsAssumption`, `SendAssumption`,
`SendCheckAssumption` (sentinels differ from ids, bounds are naturals, a row id is made for
one send); `UpkeepAssumption`, which adds what the heartbeat needs: every grace is longer
than two heartbeats (the code's shortest is two minutes, against thirty seconds);
`MigratorAssumption`, which says of the registered migrations that their versions are positive
and that each nonempty set of them has a first and a last, as a finite list has; and
`BootAssumption`, under which the budget is at least the engine's default of three attempts:
one ambient run and one backstop never exhaust it.

Only model-checked: liveness (`EveryWaiterServed`, `EveryoneServed`, `Converges`, `EverySendEnds`,
`AnsweredInTheEnd`, and that a waiter is served in the refinement by `ExecutionMutex`), and the
session manager.

## 6. What was found

1. **A terminal migration verdict without a gesture.** `storage/migrations/index.ts` 66-68
   says the terminalizing attempt "is always gesture-initiated". The engine records an
   attempt before the host persists the verdict; when the worker dies in between, or
   the write throws, the next wake finds no verdict and runs the engine again, so the
   budget can be used up by ambient wakes (`migration_boot_terminal`). With every
   verdict persisted the statement holds (`TerminalByGesture`).
2. **A cancelled row that cannot be read.** The claim treats a failing read like a
   reaped row and files a fresh one (`claim-helper.ts` 79), while its header and
   `dapp-interaction/service.ts` 155 say that a cancelled record is refused
   (`send_cancel_honoured`). It takes one failing storage read at that moment.

Provisos the send's properties carry, because the code has them:

- `DeadJobsSwept` holds until a storage call fails. The sweep logs a failed cancel and goes on
  to the next record (`execution-lane.ts` 233-235); that one waits for the next sweep.
  `LapsedStaysUnsent` has no such proviso: the fences stop that job before its broadcast.
- `NoStuckCard` holds until a call fails. A settling write that fails, or a network that cannot
  be resolved in `acquireSlot` (`execution-lane.ts` 326-331), leaves a card that says queued or
  pending to the reaper.
- `CancelledNeverSent` holds unconditionally of the row a send executes under. Of the row the
  user saw queued it holds until a call fails; finding 2 is the exception.
- `VouchedStaysFresh` is about vouched waiters: one whose lease lapsed is out, also when it
  joins the lane later. `HungQueueResolved` takes the reaper's own write to succeed.

Provisos the session manager's properties carry, because the code has them:

- A setting that changes while a restarted worker restores, or whose listener dies with
  the worker, is not applied to the restored session (`raced`). `restore` asks for strict
  mode again (`session-manager.ts` 599-602) and then awaits the envelope check.
- A restart gives a restored session a new deferral budget: the end of the budget is kept
  in memory only.
- `commitSession` sets the alarm anew only when the deadline moves.

## 7. Not modelled

Out of scope: cryptography, transaction building, conversions for display, the user
interface, row storage without a protocol, and the PXE itself. These make up most of the
repository's lines, and they have no state that steps of several actors share. With
protocol state, and not modelled:

- Profile deletion's leaf purges one by one; they are one step of `SendPipeline`.
- Incoming transfers (scan epochs, outbox), token balances (job queue, row ids allocated
  under `Lock`) and receipt polling with its debounce.
- Discovery and handshakes: decryption order, popup deduplication at its cap, session
  teardown; request matching of the messaging layer.
- The single-use caches of estimates.

The hazards of `PROJECT.json` that no property covers belong to the second and third.

Not proved: liveness and ENABLED (`NoCircularWait`), which are beyond the proof system's reach,
and the other invariants of the session manager.
