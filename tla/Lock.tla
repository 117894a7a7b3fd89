-------------------------------- MODULE Lock --------------------------------
(***************************************************************************)
(* The ticketed mutex of packages/wallet-core/src/utils/lock.ts.           *)
(*                                                                         *)
(* A call of withLock() queues its resolver, is granted the lock by        *)
(* dispatch(), runs its critical section and leaves.  A ticket is minted   *)
(* for every grant and used for no other, so the call itself stands for    *)
(* its ticket.  The watchdog (maxHoldMs # null) takes the lock away from a *)
(* holder that does not leave; the displaced holder keeps running and      *)
(* calls leave() later with a ticket that is no longer current.            *)
(*                                                                         *)
(* The continuation of enter() runs in the microtask after the grant; no   *)
(* timer fires and nobody holds the new ticket in between, so grant and    *)
(* continuation are one step.                                              *)
(***************************************************************************)
EXTENDS Naturals, Sequences, FiniteSets

CONSTANTS
    Calls,         \* the calls of withLock(), each made at most once
    NoTicket,      \* currentTicket = null, forceReleaseTimer = undefined
    Watchdog,      \* maxHoldMs # null
    TimerMayFail   \* setTimeout may throw; the catch leaves the lock untimed

ASSUME LockAssumption ==
    /\ NoTicket \notin Calls
    /\ Watchdog \in BOOLEAN
    /\ TimerMayFail \in BOOLEAN

VARIABLES
    queue,              \* resolvers of the calls that wait, in order of arrival
    locked,
    currentTicket,
    forceReleaseTimer,  \* the timeout leave() would clear, named by its ticket
    timers,             \* timeouts the event loop still has to run
    pc                  \* where each call is; a critical section the watchdog
                        \* took the lock from runs on as "displaced"

lockVars == <<queue, locked, currentTicket, forceReleaseTimer, timers, pc>>

LockInit ==
    /\ queue = <<>>
    /\ locked = FALSE
    /\ currentTicket = NoTicket
    /\ forceReleaseTimer = NoTicket
    /\ timers = {}
    /\ pc = [c \in Calls |-> "idle"]

-----------------------------------------------------------------------------
\* Arm the watchdog of the grant t, or give up silently when setTimeout throws.
Arm(t, field, pending) ==
    \/ /\ Watchdog
       /\ forceReleaseTimer' = t
       /\ timers' = pending \cup {t}
    \/ /\ ~Watchdog \/ TimerMayFail
       /\ forceReleaseTimer' = field
       /\ timers' = pending

\* Mutant: dispatch() grants whoever asked last.
DispatchLast(q, isLocked, current, field, pending, where) ==
    IF ~isLocked /\ q # <<>>
    THEN /\ locked' = TRUE
         /\ currentTicket' = q[Len(q)]
         /\ Arm(q[Len(q)], field, pending)
         /\ queue' = SubSeq(q, 1, Len(q) - 1)
         /\ pc' = [where EXCEPT ![q[Len(q)]] = "inside"]
    ELSE /\ locked' = isLocked
         /\ currentTicket' = current
         /\ forceReleaseTimer' = field
         /\ timers' = pending
         /\ queue' = q
         /\ pc' = where

\* dispatch(), run with the fields the caller has just assigned: hand the lock
\* to the first waiter when it is free and somebody waits.
Dispatch(q, isLocked, current, field, pending, where) ==
    IF ~isLocked /\ q # <<>>
    THEN /\ locked' = TRUE
         /\ currentTicket' = Head(q)
         /\ Arm(Head(q), field, pending)
         /\ queue' = Tail(q)
         /\ pc' = [where EXCEPT ![Head(q)] = "inside"]
    ELSE /\ locked' = isLocked
         /\ currentTicket' = current
         /\ forceReleaseTimer' = field
         /\ timers' = pending
         /\ queue' = q
         /\ pc' = where

\* enter(): push the resolver, dispatch.
Enter(c) ==
    /\ pc[c] = "idle"
    /\ Dispatch(Append(queue, c), locked, currentTicket, forceReleaseTimer, timers,
                [pc EXCEPT ![c] = "waiting"])

\* Mutant: leave() clears the timer and frees the lock without the ticket check.
LeaveUnchecked(c) ==
    /\ pc[c] \in {"inside", "displaced"}
    /\ Dispatch(queue, FALSE, NoTicket, NoTicket, timers \ {forceReleaseTimer},
                [pc EXCEPT ![c] = "left"])

\* Mutant: leave() frees the lock and leaves the timeout running.
LeaveArmed(c) ==
    /\ pc[c] \in {"inside", "displaced"}
    /\ IF currentTicket # c
       THEN /\ pc' = [pc EXCEPT ![c] = "left"]
            /\ UNCHANGED <<queue, locked, currentTicket, forceReleaseTimer, timers>>
       ELSE Dispatch(queue, FALSE, NoTicket, NoTicket, timers, [pc EXCEPT ![c] = "left"])

\* leave() from withLock()'s finally.  A stale ticket changes nothing.
Leave(c) ==
    /\ pc[c] \in {"inside", "displaced"}
    /\ IF currentTicket # c
       THEN /\ pc' = [pc EXCEPT ![c] = "left"]
            /\ UNCHANGED <<queue, locked, currentTicket, forceReleaseTimer, timers>>
       ELSE Dispatch(queue, FALSE, NoTicket, NoTicket, timers \ {forceReleaseTimer},
                     [pc EXCEPT ![c] = "left"])

\* Mutant: the watchdog's callback frees the lock and does not dispatch.
ForceReleaseOnly(t) ==
    /\ t \in timers
    /\ currentTicket = t
    /\ locked' = FALSE
    /\ currentTicket' = NoTicket
    /\ forceReleaseTimer' = NoTicket
    /\ timers' = timers \ {t}
    /\ pc' = [pc EXCEPT ![t] = "displaced"]
    /\ UNCHANGED queue

\* Mutant: the watchdog's callback gives the holder another period.
ForceReleaseRearms(t) ==
    /\ t \in timers
    /\ UNCHANGED lockVars

\* The watchdog's callback of the grant t.
ForceRelease(t) ==
    /\ t \in timers
    /\ IF currentTicket = t
       THEN Dispatch(queue, FALSE, NoTicket, NoTicket, timers \ {t},
                     [pc EXCEPT ![t] = "displaced"])
       ELSE /\ timers' = timers \ {t}
            /\ UNCHANGED <<queue, locked, currentTicket, forceReleaseTimer, pc>>

LockNext == \E c \in Calls : Enter(c) \/ Leave(c) \/ ForceRelease(c)

LockSpec == LockInit /\ [][LockNext]_lockVars

\* The event loop runs every timeout; no fairness on Leave: a critical section
\* may hang for ever.
FairTimers == \A c \in Calls : WF_lockVars(ForceRelease(c))

-----------------------------------------------------------------------------
\* The fields of the lock are well-formed: whatever was interrupted, tickets,
\* timeouts and resolvers name calls of withLock() (lock.ts 17-40).
LockTypes ==
    /\ queue \in Seq(Calls)
    /\ locked \in BOOLEAN
    /\ currentTicket \in Calls \cup {NoTicket}
    /\ forceReleaseTimer \in Calls \cup {NoTicket}
    /\ timers \subseteq Calls
    /\ pc \in [Calls -> {"idle", "waiting", "inside", "displaced", "left"}]

\* A queued call never waits on a free lock: every path that frees the lock
\* (leave, the watchdog's callback) hands it on in the same step, and the lock
\* is free exactly when nobody holds the current ticket (lock.ts dispatch).
NoLostWakeup ==
    /\ queue # <<>> => locked
    /\ locked <=> currentTicket # NoTicket

\* Critical sections overlap only when the watchdog displaced all but one: the
\* sections that were not displaced are exactly the owner of the current ticket,
\* for whom isCurrent() is true.  Without a watchdog nothing is ever displaced,
\* so no two critical sections overlap at all (lock.ts leave, dispatch).
MutualExclusion ==
    /\ \A c \in Calls : pc[c] = "inside" <=> c = currentTicket
    /\ ~Watchdog => \A c \in Calls : pc[c] # "displaced"

\* The only timeout still pending is the one of the current grant, and it is
\* the one leave() would clear: a stale leave() or an old timeout can neither
\* disarm nor shorten the watchdog of a successor.
WatchdogOfCurrent ==
    /\ timers = IF forceReleaseTimer = NoTicket THEN {} ELSE {forceReleaseTimer}
    /\ forceReleaseTimer # NoTicket => forceReleaseTimer = currentTicket

\* The lock is a first-come first-served mutex: the line is the queue of
\* resolvers, the holder owns the current ticket.  A holder that the watchdog
\* displaces holds no longer.
Fifo == INSTANCE FifoMutex WITH
            Clients <- Calls, NoClient <- NoTicket,
            waiting <- queue, holder <- currentTicket

\* The lock serves in order of arrival and never skips or drops a waiter,
\* whether critical sections end by themselves or the watchdog takes the lock
\* away from them (lock.ts withLock, dispatch).
ImplementsFifoMutex == Fifo!FifoSafety

Unarmed == locked /\ forceReleaseTimer = NoTicket

\* A waiter is served although every critical section may hang: the watchdog of
\* each grant frees the lock for the next one.  The one exception is a hung
\* section whose timeout could not be armed (lock.ts dispatch, its catch).
EveryWaiterServed ==
    \A c \in Calls : pc[c] = "waiting" ~> (pc[c] # "waiting" \/ []Unarmed)
=============================================================================
