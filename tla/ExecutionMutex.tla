--------------------------- MODULE ExecutionMutex ---------------------------
(***************************************************************************)
(* One key of the abortable FIFO mutex that serialises approved            *)
(* executions: apps/extension/src/wallet/services/execution/               *)
(* execution-mutex.ts.  Keys (lanes) share no state, so one is enough.     *)
(*                                                                         *)
(* The chain is a list of promises: a call waits for the promise of its    *)
(* prior (the tail it found) and its own promise resolves when it is in    *)
(* the set released.                                                       *)
(***************************************************************************)
EXTENDS Integers, Sequences, FiniteSets

CONSTANTS
    Calls,           \* calls of acquire(), each made at most once
    NoCall,          \* no tail, or an already resolved prior
    Capped,          \* the calls that pass caps
    Origins,
    OriginOf,        \* the origin of each call
    MaxLaneDepth,
    MaxOriginDepth

ASSUME MutexAssumption ==
    /\ NoCall \notin Calls
    /\ Capped \subseteq Calls
    /\ OriginOf \in [Calls -> Origins]
    /\ MaxLaneDepth \in Nat /\ MaxOriginDepth \in Nat

VARIABLES
    tail,         \* tails.get(key)
    prior,        \* the promise each call waits for
    released,     \* the calls whose promise is resolved
    laneDepth,    \* laneDepth.get(key) ?? 0
    originDepth,  \* originDepth.get(key|origin) ?? 0
    pc,           \* where each call is
    arrivals,     \* history: the calls in the order in which they joined
    queue         \* history: those of them that wait, in the same order

mutexVars == <<tail, prior, released, laneDepth, originDepth, pc, arrivals, queue>>

Init ==
    /\ tail = NoCall
    /\ prior = [c \in Calls |-> NoCall]
    /\ released = {}
    /\ laneDepth = 0
    /\ originDepth = [o \in Origins |-> 0]
    /\ pc = [c \in Calls |-> "idle"]
    /\ arrivals = <<>> /\ queue = <<>>

-----------------------------------------------------------------------------
\* A promise that has resolved; a missing tail counts as resolved.
Resolved(c) == c = NoCall \/ c \in released

\* The signal had fired before the call: reject without a trace.
RejectAborted(c) ==
    /\ pc[c] = "idle"
    /\ pc' = [pc EXCEPT ![c] = "rejected"]
    /\ UNCHANGED <<tail, prior, released, laneDepth, originDepth, arrivals, queue>>

AtCapacity(c) ==
    c \in Capped /\ (laneDepth >= MaxLaneDepth \/ originDepth[OriginOf[c]] >= MaxOriginDepth)

RejectCapacity(c) ==
    /\ pc[c] = "idle"
    /\ AtCapacity(c)
    /\ pc' = [pc EXCEPT ![c] = "rejected"]
    /\ UNCHANGED <<tail, prior, released, laneDepth, originDepth, arrivals, queue>>

\* acquire() up to its first await: count, remember the tail, become the tail.
Enqueue(c) ==
    /\ pc[c] = "idle"
    /\ ~AtCapacity(c)
    /\ laneDepth' = IF c \in Capped THEN laneDepth + 1 ELSE laneDepth
    /\ originDepth' = IF c \in Capped THEN [originDepth EXCEPT ![OriginOf[c]] = @ + 1]
                                      ELSE originDepth
    /\ prior' = [prior EXCEPT ![c] = tail]
    /\ tail' = c
    /\ pc' = [pc EXCEPT ![c] = "waiting"]
    /\ arrivals' = Append(arrivals, c) /\ queue' = Append(queue, c)
    /\ UNCHANGED released

\* The line q without its i-th place: the others move up (RemoveAt of SequencesExt).
Without(q, i) == SubSeq(q, 1, i - 1) \o SubSeq(q, i + 1, Len(q))

\* A call stops waiting: it is served, or it gives up.
LeaveQueue(c) == \E i \in 1 .. Len(queue) : queue[i] = c /\ queue' = Without(queue, i)

\* Mutant: a call waits for the one before to start, not to end.
GrantedOverlaps(c) ==
    /\ pc[c] = "waiting"
    /\ prior[c] \in {NoCall} \cup released \cup {d \in Calls : pc[d] = "holding"}
    /\ pc' = [pc EXCEPT ![c] = "holding"]
    /\ LeaveQueue(c)
    /\ UNCHANGED <<tail, prior, released, laneDepth, originDepth, arrivals>>

\* waitForPriorOrAbort() (or the bare await) returns.
Granted(c) ==
    /\ pc[c] = "waiting"
    /\ Resolved(prior[c])
    /\ pc' = [pc EXCEPT ![c] = "holding"]
    /\ LeaveQueue(c)
    /\ UNCHANGED <<tail, prior, released, laneDepth, originDepth, arrivals>>

\* The body of the release callback: drop the tail if it is still ours, count
\* down, resolve.  A missing counter reads as 1 and a counter at 0 is deleted.
Settle(c) ==
    /\ released' = released \cup {c}
    /\ tail' = IF tail = c THEN NoCall ELSE tail
    /\ IF c \in Capped
       THEN /\ laneDepth' = IF laneDepth <= 1 THEN 0 ELSE laneDepth - 1
            /\ originDepth' = [originDepth EXCEPT ![OriginOf[c]] = IF @ <= 1 THEN 0 ELSE @ - 1]
       ELSE UNCHANGED <<laneDepth, originDepth>>

\* Mutant: release() without its released guard.
ReleaseTwice(c) ==
    /\ pc[c] \in {"holding", "done"}
    /\ pc' = [pc EXCEPT ![c] = "done"]
    /\ Settle(c)
    /\ UNCHANGED <<prior, arrivals, queue>>

\* The holder calls release(), perhaps more than once.
ReleaseCall(c) ==
    /\ pc[c] \in {"holding", "done"}
    /\ pc' = [pc EXCEPT ![c] = "done"]
    /\ IF c \in released
       THEN UNCHANGED <<tail, released, laneDepth, originDepth>>
       ELSE Settle(c)
    /\ UNCHANGED <<prior, arrivals, queue>>

\* The signal fires before the wait ends (the prior may be resolved already):
\* the caller gets its error, the place in the chain stays.
Abort(c) ==
    /\ pc[c] = "waiting"
    /\ pc' = [pc EXCEPT ![c] = "aborted"]
    /\ LeaveQueue(c)
    /\ UNCHANGED <<tail, prior, released, laneDepth, originDepth, arrivals>>

\* Mutant: an aborted waiter never passes its turn on.
ChainedReleaseNever(c) ==
    /\ pc[c] = "aborted" /\ FALSE
    /\ UNCHANGED mutexVars

\* prior.finally(release) of an aborted waiter.
ChainedRelease(c) ==
    /\ pc[c] = "aborted"
    /\ Resolved(prior[c])
    /\ pc' = [pc EXCEPT ![c] = "done"]
    /\ Settle(c)
    /\ UNCHANGED <<prior, arrivals, queue>>

Next ==
    \E c \in Calls :
        \/ RejectAborted(c) \/ RejectCapacity(c) \/ Enqueue(c)
        \/ Granted(c) \/ ReleaseCall(c)
        \/ Abort(c) \/ ChainedRelease(c)

Spec == Init /\ [][Next]_mutexVars

\* Promise continuations run, and every holder releases in its finally.
Fairness ==
    \A c \in Calls :
        /\ WF_mutexVars(Granted(c))
        /\ WF_mutexVars(ReleaseCall(c))
        /\ WF_mutexVars(ChainedRelease(c))

-----------------------------------------------------------------------------
\* Two approved executions never hold the lane together, whatever waiters abort
\* and wherever the tail was collected (execution-mutex.ts acquire).
MutualExclusion ==
    \A c, d \in Calls : pc[c] = "holding" /\ pc[d] = "holding" => c = d

Pending(S) == {c \in S : pc[c] \in {"waiting", "holding", "aborted"}}

\* The counters are exact: an aborted waiter is counted until its chained release
\* and nobody afterwards, so neither cap can be passed and an idle lane is back
\* at zero (execution-mutex.ts 91-97, release).
DepthExact ==
    /\ laneDepth = Cardinality(Pending(Capped))
    /\ laneDepth <= MaxLaneDepth
    /\ \A o \in Origins :
          LET mine == {c \in Capped : OriginOf[c] = o}
          IN  /\ originDepth[o] = Cardinality(Pending(mine))
              /\ originDepth[o] <= MaxOriginDepth

\* The call that holds the lane.
Holder == IF \E c \in Calls : pc[c] = "holding" THEN CHOOSE c \in Calls : pc[c] = "holding" ELSE NoCall

\* The lane is the FIFO mutex: waiting calls in order of arrival, the holder.
Fifo == INSTANCE FifoMutex WITH
    Clients <- Calls,
    NoClient <- NoCall,
    waiting <- queue,
    holder <- Holder

\* Executions get the lane in the order they asked for it, an aborted waiter
\* disturbs nobody behind it, and whoever keeps waiting is served
\* (execution-mutex.ts 145-163).
ImplementsFifoMutex == Fifo!FifoSpec
=============================================================================
