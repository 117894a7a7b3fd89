------------------------ MODULE ExecutionMutexProofs ------------------------
(***************************************************************************)
(* The lane's mutex excludes, its counters are exact and it serves in      *)
(* order of arrival, for any set of calls, caps and origins.               *)
(*                                                                         *)
(* The argument: a call's promise stands for its own and every earlier     *)
(* one.  Whoever holds the lane or is done came after released calls only, *)
(* the prior of a call is the arrival just before it unless all of those   *)
(* are released, and the tail is the last arrival unless all are.  A step  *)
(* moves at most one call into or out of what a counter counts.  A call    *)
(* that is granted has nobody before it who waits, so it is the first in   *)
(* the queue of the abstract mutex.                                        *)
(***************************************************************************)
EXTENDS ExecutionMutex, FiniteSetTheorems, TLAPS

Joined == {"waiting", "holding", "aborted", "done"}

Types ==
    /\ tail \in Calls \cup {NoCall}
    /\ prior \in [Calls -> Calls \cup {NoCall}]
    /\ released \subseteq Calls
    /\ pc \in [Calls -> {"idle", "rejected", "waiting", "holding", "aborted", "done"}]
    /\ arrivals \in Seq(Calls)

\* arrivals lists the calls that joined, each once; done means released.
History ==
    /\ \A i, j \in 1 .. Len(arrivals) : arrivals[i] = arrivals[j] => i = j
    /\ \A i \in 1 .. Len(arrivals) : pc[arrivals[i]] \in Joined
    /\ \A c \in Calls : pc[c] \in Joined => \E i \in 1 .. Len(arrivals) : arrivals[i] = c
    /\ \A c \in Calls : c \in released <=> pc[c] = "done"

ReleasedBefore(j) == \A k \in 1 .. Len(arrivals) : k < j => arrivals[k] \in released

Chain ==
    /\ \A j \in 1 .. Len(arrivals) : pc[arrivals[j]] \in {"holding", "done"} => ReleasedBefore(j)
    /\ \A j \in 1 .. Len(arrivals) :
          \/ prior[arrivals[j]] = NoCall /\ ReleasedBefore(j)
          \/ j > 1 /\ prior[arrivals[j]] = arrivals[j - 1]
    /\ \/ tail = NoCall /\ ReleasedBefore(Len(arrivals) + 1)
       \/ Len(arrivals) > 0 /\ tail = arrivals[Len(arrivals)]

MutexInv == Types /\ History /\ Chain

-----------------------------------------------------------------------------
\* The turn of a call whose prior has resolved: all before it are released.
LEMMA TurnReached ==
    ASSUME MutexInv, NEW j \in 1 .. Len(arrivals), Resolved(prior[arrivals[j]])
    PROVE  ReleasedBefore(j)
<1>1. CASE prior[arrivals[j]] = NoCall /\ ReleasedBefore(j)
  BY <1>1
<1>2. CASE j > 1 /\ prior[arrivals[j]] = arrivals[j - 1]
  <2>1. j - 1 \in 1 .. Len(arrivals) /\ arrivals[j - 1] \in Calls
    BY <1>2 DEF MutexInv, Types
  <2>2. arrivals[j - 1] \in released
    BY <1>2, <2>1, MutexAssumption DEF Resolved
  <2>3. ReleasedBefore(j - 1)
    BY <2>1, <2>2 DEF MutexInv, History, Chain
  <2> QED
    BY <2>1, <2>2, <2>3 DEF ReleasedBefore, MutexInv, Types
<1> QED
  BY <1>1, <1>2 DEF MutexInv, Chain

\* A step that moves one call among the stages that neither hold nor are done.
LEMMA WaitingStep ==
    ASSUME MutexInv, NEW c \in Calls, NEW l \in {"rejected", "aborted"},
           pc' = [pc EXCEPT ![c] = l], l = "rejected" => pc[c] = "idle",
           l = "aborted" => pc[c] = "waiting",
           UNCHANGED <<tail, prior, released, arrivals>>
    PROVE  MutexInv'
<1>1. Types' /\ History' /\ Chain'
  BY DEF MutexInv, Types, History, Joined, Chain, ReleasedBefore
<1> QED
  BY <1>1 DEF MutexInv

\* acquire() becomes the tail.
LEMMA EnqueueKeeps ==
    ASSUME MutexInv, NEW c \in Calls, Enqueue(c)
    PROVE  MutexInv'
<1>0. PICK n \in Nat : n = Len(arrivals)
  BY DEF MutexInv, Types
<1>1. /\ pc[c] = "idle" /\ prior' = [prior EXCEPT ![c] = tail] /\ tail' = c
      /\ pc' = [pc EXCEPT ![c] = "waiting"] /\ arrivals' = Append(arrivals, c) /\ released' = released
  BY DEF Enqueue
<1>2. /\ n \in Nat /\ Len(arrivals') = n + 1 /\ arrivals'[n + 1] = c
      /\ \A i \in 1 .. n : arrivals'[i] = arrivals[i] /\ arrivals[i] \in Calls
  BY <1>0, <1>1 DEF MutexInv, Types
<1>3. \A i \in 1 .. n : arrivals[i] # c
  BY <1>0, <1>1 DEF MutexInv, History, Joined
<1>4. Types'
  BY <1>0, <1>1 DEF MutexInv, Types
<1>5. History'
  <2>1. \A i, j \in 1 .. Len(arrivals') : arrivals'[i] = arrivals'[j] => i = j
    BY <1>0, <1>2, <1>3 DEF MutexInv, History
  <2>2. \A i \in 1 .. Len(arrivals') : pc'[arrivals'[i]] \in Joined
    BY <1>0, <1>1, <1>2, <1>3 DEF MutexInv, Types, History, Joined
  <2>3. ASSUME NEW d \in Calls, pc'[d] \in Joined
        PROVE  \E i \in 1 .. Len(arrivals') : arrivals'[i] = d
    <3>1. CASE d = c
      BY <3>1, <1>2
    <3>2. CASE d # c
      <4>1. PICK i \in 1 .. n : arrivals[i] = d
        BY <1>0, <2>3, <3>2, <1>1 DEF MutexInv, Types, History
      <4> QED
        BY <4>1, <1>2
    <3> QED
      BY <3>1, <3>2
  <2>4. \A d \in Calls : d \in released' <=> pc'[d] = "done"
    BY <1>0, <1>1 DEF MutexInv, Types, History
  <2> QED
    BY <2>1, <2>2, <2>3, <2>4 DEF History
<1>6. \A j \in 1 .. n + 1 : ReleasedBefore(j) => ReleasedBefore(j)'
  BY <1>0, <1>1, <1>2 DEF ReleasedBefore
<1>7. Chain'
  <2>1. \A j \in 1 .. Len(arrivals') : pc'[arrivals'[j]] \in {"holding", "done"} => ReleasedBefore(j)'
    BY <1>0, <1>1, <1>2, <1>3, <1>6 DEF MutexInv, Types, Chain
  <2>2. ASSUME NEW j \in 1 .. n
        PROVE  \/ prior'[arrivals'[j]] = NoCall /\ ReleasedBefore(j)'
               \/ j > 1 /\ prior'[arrivals'[j]] = arrivals'[j - 1]
    BY <1>0, <1>1, <1>2, <1>3, <1>6 DEF MutexInv, Types, Chain
  <2>3. \/ prior'[arrivals'[n + 1]] = NoCall /\ ReleasedBefore(n + 1)'
        \/ n + 1 > 1 /\ prior'[arrivals'[n + 1]] = arrivals'[(n + 1) - 1]
    <3>1. prior'[arrivals'[n + 1]] = tail
      BY <1>0, <1>1, <1>2 DEF MutexInv, Types
    <3>2. CASE tail = NoCall /\ ReleasedBefore(n + 1)
      BY <1>0, <3>1, <3>2, <1>2, <1>6
    <3>3. CASE n > 0 /\ tail = arrivals[n]
      BY <1>0, <3>1, <3>3, <1>2
    <3> QED
      BY <1>0, <3>2, <3>3 DEF MutexInv, Chain
  <2>4. Len(arrivals') > 0 /\ tail' = arrivals'[Len(arrivals')]
    BY <1>0, <1>1, <1>2
  <2>5. \A j \in 1 .. Len(arrivals') : j \in 1 .. n \/ j = n + 1
    BY <1>0, <1>2
  <2> QED
    BY <2>1, <2>2, <2>3, <2>4, <2>5, <1>0, <1>2 DEF Chain
<1> QED
  BY <1>0, <1>4, <1>5, <1>7 DEF MutexInv

\* A call gets the lane when the promise of its prior has resolved.
LEMMA GrantedKeeps ==
    ASSUME MutexInv, NEW c \in Calls, Granted(c)
    PROVE  MutexInv'
<1>1. PICK i \in 1 .. Len(arrivals) : arrivals[i] = c
  BY DEF Granted, MutexInv, History, Joined
<1>2. ReleasedBefore(i) /\ Types'
  BY <1>1, TurnReached DEF Granted, MutexInv, Types
<1>4. History'
  BY DEF Granted, MutexInv, Types, History, Joined
<1>5. \A j \in 1 .. Len(arrivals) : pc'[arrivals[j]] \in {"holding", "done"} => ReleasedBefore(j)
  BY <1>1, <1>2 DEF Granted, MutexInv, Types, History, Chain
<1>6. Chain'
  BY <1>5 DEF Granted, MutexInv, Chain, ReleasedBefore
<1> QED
  BY <1>2, <1>4, <1>6 DEF MutexInv

\* A promise resolves when all before it have: the body of release().
LEMMA SettleKeeps ==
    ASSUME MutexInv, NEW i \in 1 .. Len(arrivals), ReleasedBefore(i),
           pc' = [pc EXCEPT ![arrivals[i]] = "done"], Settle(arrivals[i]),
           UNCHANGED <<prior, arrivals>>
    PROVE  MutexInv'
<1> DEFINE c == arrivals[i]
<1>1. c \in Calls /\ released' = released \cup {c} /\ tail' = IF tail = c THEN NoCall ELSE tail
  BY DEF Settle, MutexInv, Types
<1>2. Types' /\ History' /\ Len(arrivals) \in Nat
  BY <1>1 DEF MutexInv, Types, History, Joined
<1>4. \A j \in Nat : ReleasedBefore(j) => ReleasedBefore(j)'
  BY <1>1 DEF ReleasedBefore
<1>5. \A j \in 1 .. Len(arrivals) : pc'[arrivals[j]] \in {"holding", "done"} => ReleasedBefore(j)
  BY DEF MutexInv, Types, History, Chain
<1>7. \/ tail' = NoCall /\ ReleasedBefore(Len(arrivals) + 1)'
      \/ Len(arrivals) > 0 /\ tail' = arrivals[Len(arrivals)]
  <2>1. CASE tail = c
    <3>1. i = Len(arrivals)
      BY <2>1, <1>1, <1>2, MutexAssumption DEF MutexInv, History, Chain
    <3> QED
      BY <2>1, <3>1, <1>1, <1>2 DEF ReleasedBefore
  <2>2. CASE tail # c
    BY <2>2, <1>1, <1>4, <1>2 DEF MutexInv, Chain
  <2> QED
    BY <2>1, <2>2
<1>8. Chain'
  <2>1. \A j \in 1 .. Len(arrivals) : j \in Nat
    BY <1>2
  <2>2. \A j \in 1 .. Len(arrivals) :
          \/ prior[arrivals[j]] = NoCall /\ ReleasedBefore(j)'
          \/ j > 1 /\ prior[arrivals[j]] = arrivals[j - 1]
    BY <2>1, <1>4 DEF MutexInv, Chain
  <2> QED
    BY <2>1, <2>2, <1>4, <1>5, <1>7 DEF Chain
<1> QED
  BY <1>2, <1>8 DEF MutexInv

-----------------------------------------------------------------------------
\* Every step of the mutex preserves MutexInv, one case for each operation.
LEMMA MutexStep == MutexInv /\ [Next]_mutexVars => MutexInv'
<1> SUFFICES ASSUME MutexInv, [Next]_mutexVars PROVE MutexInv'
  OBVIOUS
<1>1. ASSUME NEW c \in Calls, RejectAborted(c) \/ RejectCapacity(c) PROVE MutexInv'
  BY <1>1, WaitingStep DEF RejectAborted, RejectCapacity
<1>2. ASSUME NEW c \in Calls, Abort(c) PROVE MutexInv'
  BY <1>2, WaitingStep, Zenon DEF Abort
<1>3. ASSUME NEW c \in Calls, Enqueue(c) PROVE MutexInv'
  BY <1>3, EnqueueKeeps
<1>4. ASSUME NEW c \in Calls, Granted(c) PROVE MutexInv'
  BY <1>4, GrantedKeeps
<1>5. ASSUME NEW c \in Calls, ReleaseCall(c) PROVE MutexInv'
  <2>1. CASE c \in released
    <3>1. pc' = pc /\ UNCHANGED <<tail, released, prior, arrivals>>
      BY <1>5, <2>1 DEF ReleaseCall, MutexInv, Types, History
    <3> QED
      BY <3>1 DEF MutexInv, Types, History, Chain, ReleasedBefore
  <2>2. CASE c \notin released
    <3>1. pc[c] = "holding" /\ Settle(c) /\ pc' = [pc EXCEPT ![c] = "done"] /\ UNCHANGED <<prior, arrivals>>
      BY <1>5, <2>2 DEF ReleaseCall, MutexInv, History
    <3>2. PICK i \in 1 .. Len(arrivals) : arrivals[i] = c
      BY <3>1 DEF MutexInv, History, Joined
    <3>3. ReleasedBefore(i)
      BY <3>1, <3>2 DEF MutexInv, Chain
    <3> QED
      BY <3>1, <3>2, <3>3, SettleKeeps, Zenon
  <2> QED
    BY <2>1, <2>2
<1>6. ASSUME NEW c \in Calls, ChainedRelease(c) PROVE MutexInv'
  <2>1. PICK i \in 1 .. Len(arrivals) : arrivals[i] = c
    BY <1>6 DEF ChainedRelease, MutexInv, History, Joined
  <2>2. ReleasedBefore(i)
    BY <1>6, <2>1, TurnReached DEF ChainedRelease
  <2> QED
    BY <1>6, <2>1, <2>2, SettleKeeps, Zenon DEF ChainedRelease
<1>7. CASE UNCHANGED mutexVars
  BY <1>7 DEF mutexVars, MutexInv, Types, History, Chain, ReleasedBefore
<1> QED
  BY <1>1, <1>2, <1>3, <1>4, <1>5, <1>6, <1>7 DEF Next

\* MutexInv holds in every state of every run of the mutex.
THEOREM MutexInvariant == Spec => []MutexInv
<1>1. Init => MutexInv
  BY DEF Init, MutexInv, Types, History, Chain, ReleasedBefore, Joined
<1> QED
  BY <1>1, MutexStep, PTL DEF Spec

\* Two calls of acquire() never hold the lane together, whatever waiters abort
\* and however often a holder releases.
THEOREM MutexMutualExclusion == Spec => []MutualExclusion
<1>1. MutexInv => MutualExclusion
  <2> SUFFICES ASSUME MutexInv, NEW c \in Calls, NEW d \in Calls, pc[c] = "holding", pc[d] = "holding"
               PROVE  c = d
    BY DEF MutualExclusion
  <2>1. PICK i \in 1 .. Len(arrivals) : arrivals[i] = c
    BY DEF MutexInv, History, Joined
  <2>2. PICK j \in 1 .. Len(arrivals) : arrivals[j] = d
    BY DEF MutexInv, History, Joined
  <2>3. c \notin released /\ d \notin released /\ ReleasedBefore(i) /\ ReleasedBefore(j)
    BY <2>1, <2>2 DEF MutexInv, History, Chain
  <2>5. ~(i < j) /\ ~(j < i)
    BY <2>1, <2>2, <2>3 DEF ReleasedBefore
  <2> QED
    BY <2>1, <2>2, <2>5 DEF MutexInv, Types
<1> QED
  BY <1>1, MutexInvariant, PTL

-----------------------------------------------------------------------------
\* A counter that is the number of the pending calls of S.
Counts(n, S) == IsFiniteSet(Pending(S)) /\ n = Cardinality(Pending(S))

Mine(o) == {c \in Capped : OriginOf[c] = o}

\* Both counters are exact and within their caps.
DepthInv ==
    /\ MutexInv
    /\ Counts(laneDepth, Capped) /\ laneDepth <= MaxLaneDepth
    /\ originDepth \in [Origins -> Nat]
    /\ \A o \in Origins : Counts(originDepth[o], Mine(o)) /\ originDepth[o] <= MaxOriginDepth

\* A counter is a natural number.
LEMMA CountsType == ASSUME NEW S, NEW n, Counts(n, S) PROVE n \in Nat
BY FS_CardinalityType DEF Counts

\* A step of a call outside S, or one between stages of waiting, counts for nothing.
LEMMA CountsSame ==
    ASSUME NEW S, S \subseteq Calls, NEW c \in Calls, NEW l, Types,
           NEW n, Counts(n, S), pc' = [pc EXCEPT ![c] = l],
           c \notin S \/ (pc[c] \in {"waiting", "holding", "aborted"} <=> l \in {"waiting", "holding", "aborted"})
    PROVE  IsFiniteSet(Pending(S)') /\ Cardinality(Pending(S)') = n
<1>1. Pending(S)' = Pending(S)
  BY DEF Pending, Types
<1> QED
  BY <1>1 DEF Counts

\* acquire() counts a call of S that was idle: one more.
LEMMA CountsUp ==
    ASSUME NEW S, S \subseteq Calls, NEW c \in S, Types,
           NEW n, Counts(n, S), pc[c] = "idle", pc' = [pc EXCEPT ![c] = "waiting"]
    PROVE  IsFiniteSet(Pending(S)') /\ Cardinality(Pending(S)') = n + 1
<1>1. Pending(S)' = Pending(S) \cup {c} /\ c \notin Pending(S)
  BY DEF Pending, Types
<1> QED
  BY <1>1, FS_AddElement DEF Counts

\* release() takes a pending call of S off the count: one less, and there was one.
LEMMA CountsDown ==
    ASSUME NEW S, S \subseteq Calls, NEW c \in S, Types,
           NEW n, Counts(n, S), pc[c] \in {"holding", "aborted"}, pc' = [pc EXCEPT ![c] = "done"]
    PROVE  IsFiniteSet(Pending(S)') /\ Cardinality(Pending(S)') = n - 1 /\ n >= 1
<1>1. Pending(S)' = Pending(S) \ {c} /\ c \in Pending(S)
  BY DEF Pending, Types
<1>2. IsFiniteSet(Pending(S)') /\ Cardinality(Pending(S)') = n - 1
  BY <1>1, FS_RemoveElement DEF Counts
<1>3. Cardinality(Pending(S)') \in Nat /\ n \in Nat
  BY <1>2, FS_CardinalityType, CountsType
<1> QED
  BY <1>2, <1>3

\* A step that counts nobody: a rejection, a grant or an abort.
LEMMA UncountedKeeps ==
    ASSUME DepthInv, MutexInv', NEW c \in Calls, NEW l \in {"rejected", "holding", "aborted"},
           pc' = [pc EXCEPT ![c] = l], pc[c] = IF l = "rejected" THEN "idle" ELSE "waiting",
           UNCHANGED <<laneDepth, originDepth>>
    PROVE  DepthInv'
<1>1. Types /\ Capped \subseteq Calls
  BY MutexAssumption DEF DepthInv, MutexInv
<1>2. pc[c] \in {"waiting", "holding", "aborted"} <=> l \in {"waiting", "holding", "aborted"}
  OBVIOUS
<1>3. Counts(laneDepth, Capped)'
  BY <1>1, <1>2, CountsSame, Zenon DEF DepthInv, Counts
<1>4. ASSUME NEW o \in Origins PROVE Counts(originDepth[o], Mine(o))'
  <2>1. Mine(o) \subseteq Calls /\ Mine(o)' = Mine(o)
    BY <1>1 DEF Mine
  <2>2. IsFiniteSet(Pending(Mine(o))') /\ Cardinality(Pending(Mine(o))') = originDepth[o]
    BY <1>1, <1>2, <2>1, CountsSame, Zenon DEF DepthInv
  <2> QED
    BY <2>2 DEF Counts
<1> QED
  BY <1>3, <1>4 DEF DepthInv

\* acquire() counts the call it admits, below both caps.
LEMMA EnqueueKeepsDepth == ASSUME DepthInv, MutexInv', NEW c \in Calls, Enqueue(c) PROVE DepthInv'
<1>1. /\ Types /\ Capped \subseteq Calls /\ pc[c] = "idle" /\ pc' = [pc EXCEPT ![c] = "waiting"]
      /\ OriginOf[c] \in Origins /\ MaxLaneDepth \in Nat /\ MaxOriginDepth \in Nat
  BY MutexAssumption DEF DepthInv, MutexInv, Enqueue
<1>2. laneDepth \in Nat /\ originDepth \in [Origins -> Nat]
  BY CountsType DEF DepthInv
<1>3. Counts(laneDepth, Capped)' /\ laneDepth' <= MaxLaneDepth
  <2>1. CASE c \in Capped
    <3>1. laneDepth' = laneDepth + 1 /\ laneDepth < MaxLaneDepth
      BY <1>1, <1>2, <2>1 DEF Enqueue, AtCapacity
    <3>2. IsFiniteSet(Pending(Capped)') /\ Cardinality(Pending(Capped)') = laneDepth + 1
      BY <1>1, <2>1, CountsUp, Zenon DEF DepthInv
    <3> QED
      BY <1>1, <1>2, <3>1, <3>2 DEF Counts
  <2>2. CASE c \notin Capped
    <3>1. laneDepth' = laneDepth
      BY <2>2 DEF Enqueue
    <3>2. IsFiniteSet(Pending(Capped)') /\ Cardinality(Pending(Capped)') = laneDepth
      BY <1>1, <2>2, CountsSame, Zenon DEF DepthInv
    <3> QED
      BY <3>1, <3>2 DEF Counts, DepthInv
  <2> QED
    BY <2>1, <2>2
<1>4. ASSUME NEW o \in Origins
      PROVE  Counts(originDepth[o], Mine(o))' /\ originDepth'[o] <= MaxOriginDepth
  <2>1. Mine(o) \subseteq Calls /\ Counts(originDepth[o], Mine(o)) /\ originDepth[o] <= MaxOriginDepth
    BY <1>1 DEF Mine, DepthInv
  <2>2. CASE c \in Mine(o)
    <3>1. c \in Capped /\ OriginOf[c] = o
      BY <2>2 DEF Mine
    <3>2. originDepth'[o] = originDepth[o] + 1 /\ originDepth[o] < MaxOriginDepth
      BY <1>1, <1>2, <3>1 DEF Enqueue, AtCapacity
    <3>3. IsFiniteSet(Pending(Mine(o))') /\ Cardinality(Pending(Mine(o))') = originDepth[o] + 1
      BY <1>1, <2>1, <2>2, CountsUp, Zenon
    <3> QED
      BY <1>1, <1>2, <3>2, <3>3 DEF Counts
  <2>3. CASE c \notin Mine(o)
    <3>1. originDepth'[o] = originDepth[o]
      BY <1>1, <1>2, <2>3 DEF Enqueue, Mine
    <3>2. IsFiniteSet(Pending(Mine(o))') /\ Cardinality(Pending(Mine(o))') = originDepth[o]
      BY <1>1, <2>1, <2>3, CountsSame, Zenon
    <3> QED
      BY <2>1, <3>1, <3>2 DEF Counts
  <2> QED
    BY <2>2, <2>3
<1>5. originDepth' \in [Origins -> Nat]
  BY <1>1, <1>2 DEF Enqueue
<1> QED
  BY <1>3, <1>4, <1>5 DEF DepthInv

\* release() counts a pending call down once.
LEMMA SettleKeepsDepth ==
    ASSUME DepthInv, MutexInv', NEW c \in Calls, pc[c] \in {"holding", "aborted"},
           pc' = [pc EXCEPT ![c] = "done"], Settle(c)
    PROVE  DepthInv'
<1>1. /\ Types /\ Capped \subseteq Calls /\ OriginOf[c] \in Origins
      /\ MaxLaneDepth \in Nat /\ MaxOriginDepth \in Nat
  BY MutexAssumption DEF DepthInv, MutexInv
<1>2. laneDepth \in Nat /\ originDepth \in [Origins -> Nat]
  BY CountsType DEF DepthInv
<1>3. Counts(laneDepth, Capped)' /\ laneDepth' <= MaxLaneDepth
  <2>1. CASE c \in Capped
    <3>1. /\ IsFiniteSet(Pending(Capped)') /\ Cardinality(Pending(Capped)') = laneDepth - 1
          /\ laneDepth >= 1
      BY <1>1, <2>1, CountsDown, Zenon DEF DepthInv
    <3>2. laneDepth' = laneDepth - 1
      BY <1>2, <2>1, <3>1 DEF Settle
    <3> QED
      BY <1>1, <1>2, <3>1, <3>2 DEF Counts, DepthInv
  <2>2. CASE c \notin Capped
    <3>1. laneDepth' = laneDepth
      BY <2>2 DEF Settle
    <3>2. IsFiniteSet(Pending(Capped)') /\ Cardinality(Pending(Capped)') = laneDepth
      BY <1>1, <2>2, CountsSame, Zenon DEF DepthInv
    <3> QED
      BY <3>1, <3>2 DEF Counts, DepthInv
  <2> QED
    BY <2>1, <2>2
<1>4. ASSUME NEW o \in Origins
      PROVE  Counts(originDepth[o], Mine(o))' /\ originDepth'[o] <= MaxOriginDepth
  <2>1. Mine(o) \subseteq Calls /\ Counts(originDepth[o], Mine(o)) /\ originDepth[o] <= MaxOriginDepth
    BY <1>1 DEF Mine, DepthInv
  <2>2. CASE c \in Mine(o)
    <3>1. c \in Capped /\ OriginOf[c] = o
      BY <2>2 DEF Mine
    <3>2. /\ IsFiniteSet(Pending(Mine(o))') /\ Cardinality(Pending(Mine(o))') = originDepth[o] - 1
          /\ originDepth[o] >= 1
      BY <1>1, <2>1, <2>2, CountsDown, Zenon
    <3>3. originDepth'[o] = originDepth[o] - 1
      BY <1>1, <1>2, <3>1, <3>2 DEF Settle
    <3> QED
      BY <1>1, <1>2, <2>1, <3>2, <3>3 DEF Counts
  <2>3. CASE c \notin Mine(o)
    <3>1. originDepth'[o] = originDepth[o]
      BY <1>1, <1>2, <2>3 DEF Settle, Mine
    <3>2. IsFiniteSet(Pending(Mine(o))') /\ Cardinality(Pending(Mine(o))') = originDepth[o]
      BY <1>1, <2>1, <2>3, CountsSame, Zenon
    <3> QED
      BY <2>1, <3>1, <3>2 DEF Counts
  <2> QED
    BY <2>2, <2>3
<1>5. originDepth' \in [Origins -> Nat]
  BY <1>1, <1>2 DEF Settle
<1> QED
  BY <1>3, <1>4, <1>5 DEF DepthInv

\* The depth counters are exact and never pass their caps, for any number of
\* calls: whoever is granted, aborted or released twice is counted once
\* (execution-mutex.ts acquire, release).
THEOREM MutexDepthExact == Spec => []DepthExact
<1>1. Init => DepthInv
  <2> SUFFICES ASSUME Init PROVE DepthInv
    OBVIOUS
  <2>1. \A S \in SUBSET Calls : Pending(S) = {}
    BY DEF Init, Pending
  <2>2. Capped \in SUBSET Calls /\ \A o \in Origins : Mine(o) \in SUBSET Calls
    BY MutexAssumption DEF Mine
  <2>3. \A S \in SUBSET Calls : Counts(0, S)
    BY <2>1, FS_EmptySet DEF Counts
  <2>4. MutexInv
    BY DEF Init, MutexInv, Types, History, Chain, ReleasedBefore, Joined
  <2> QED
    BY <2>2, <2>3, <2>4, MutexAssumption DEF Init, DepthInv
<1>2. DepthInv /\ [Next]_mutexVars => DepthInv'
  <2> SUFFICES ASSUME DepthInv, [Next]_mutexVars PROVE DepthInv'
    OBVIOUS
  <2>0. MutexInv /\ MutexInv'
    BY MutexStep DEF DepthInv
  <2>1. ASSUME NEW c \in Calls, RejectAborted(c) \/ RejectCapacity(c) PROVE DepthInv'
    BY <2>0, <2>1, UncountedKeeps DEF RejectAborted, RejectCapacity
  <2>2. ASSUME NEW c \in Calls, Granted(c) \/ Abort(c) PROVE DepthInv'
    BY <2>0, <2>2, UncountedKeeps DEF Granted, Abort
  <2>3. ASSUME NEW c \in Calls, Enqueue(c) PROVE DepthInv'
    BY <2>0, <2>3, EnqueueKeepsDepth
  <2>4. ASSUME NEW c \in Calls, ReleaseCall(c) PROVE DepthInv'
    <3>1. CASE c \in released
      <4>1. pc' = pc /\ UNCHANGED <<laneDepth, originDepth>>
        BY <2>0, <2>4, <3>1 DEF ReleaseCall, MutexInv, Types, History
      <4> QED
        BY <2>0, <4>1 DEF DepthInv, Counts, Pending
    <3>2. CASE c \notin released
      <4>1. pc[c] = "holding" /\ Settle(c) /\ pc' = [pc EXCEPT ![c] = "done"]
        BY <2>0, <2>4, <3>2 DEF ReleaseCall, MutexInv, History
      <4> QED
        BY <2>0, <4>1, SettleKeepsDepth, Zenon
    <3> QED
      BY <3>1, <3>2
  <2>5. ASSUME NEW c \in Calls, ChainedRelease(c) PROVE DepthInv'
    BY <2>0, <2>5, SettleKeepsDepth, Zenon DEF ChainedRelease
  <2>6. CASE UNCHANGED mutexVars
    BY <2>0, <2>6 DEF mutexVars, DepthInv, Counts, Pending
  <2> QED
    BY <2>1, <2>2, <2>3, <2>4, <2>5, <2>6 DEF Next
<1>3. DepthInv => DepthExact
  BY DEF DepthInv, DepthExact, Counts, Mine
<1> QED
  BY <1>1, <1>2, <1>3, PTL DEF Spec

-----------------------------------------------------------------------------
(* The lane is the first-come-first-served mutex.                          *)

\* The queue holds exactly the waiting calls, each once, in the order in which
\* they arrived.
QueueInv ==
    /\ queue \in Seq(Calls)
    /\ \A i, j \in 1 .. Len(queue) : queue[i] = queue[j] => i = j
    /\ \A i \in 1 .. Len(queue) : pc[queue[i]] = "waiting"
    /\ \A c \in Calls : pc[c] = "waiting" => \E i \in 1 .. Len(queue) : queue[i] = c
    /\ \A i, j \in 1 .. Len(queue), a, b \in 1 .. Len(arrivals) :
           i < j /\ arrivals[a] = queue[i] /\ arrivals[b] = queue[j] => a < b

\* What is left of a sequence without its i-th element.
LEMMA WithoutOne ==
    ASSUME NEW S, NEW q \in Seq(S), NEW i \in 1 .. Len(q)
    PROVE  /\ Without(q, i) \in Seq(S) /\ Len(Without(q, i)) = Len(q) - 1
           /\ \A j \in 1 .. Len(q) - 1 : Without(q, i)[j] = IF j < i THEN q[j] ELSE q[j + 1]
<1> DEFINE a == SubSeq(q, 1, i - 1)
           b == SubSeq(q, i + 1, Len(q))
<1>0. Len(q) \in Nat /\ i \in Int /\ Without(q, i) = a \o b
  BY DEF Without, a, b
<1>1. a \in Seq(S) /\ Len(a) = i - 1 /\ \A j \in 1 .. i - 1 : a[j] = q[j]
  BY <1>0, SMT
<1>2. b \in Seq(S) /\ Len(b) = Len(q) - i /\ \A j \in 1 .. Len(q) - i : b[j] = q[i + j]
  BY <1>0, SMT
<1> HIDE DEF a, b
<1>3. a \in Seq(S) /\ b \in Seq(S) /\ Len(a) + Len(b) = Len(q) - 1
  BY <1>0, <1>1, <1>2
<1>4. /\ (a \o b) \in Seq(S)
      /\ Len(a \o b) = Len(a) + Len(b)
      /\ \A j \in 1 .. Len(a) + Len(b) : (a \o b)[j] = IF j <= Len(a) THEN a[j] ELSE b[j - Len(a)]
  BY <1>3, SMT
<1>5. ASSUME NEW j \in 1 .. Len(q) - 1
      PROVE  (a \o b)[j] = IF j < i THEN q[j] ELSE q[j + 1]
  <2>1. CASE j < i
    BY <1>0, <1>1, <1>3, <1>4, <2>1
  <2>2. CASE ~(j < i)
    <3>1. (a \o b)[j] = b[j - i + 1]
      BY <1>0, <1>1, <1>3, <1>4, <2>2
    <3>2. j - i + 1 \in 1 .. Len(q) - i /\ i + (j - i + 1) = j + 1
      BY <1>0, <2>2
    <3> QED
      BY <1>2, <2>2, <3>1, <3>2
  <2> QED
    BY <2>1, <2>2, Zenon
<1> QED
  BY <1>3, <1>4, <1>5, <1>0

\* acquire() puts the call at the end of the queue, behind everyone who waits.
LEMMA EnqueueKeepsQueue == ASSUME MutexInv, QueueInv, NEW c \in Calls, Enqueue(c) PROVE QueueInv'
<1>0. /\ queue \in Seq(Calls) /\ arrivals \in Seq(Calls)
      /\ Len(queue) \in Nat /\ Len(arrivals) \in Nat
  BY DEF MutexInv, Types, QueueInv
<1>1. /\ pc \in [Calls -> {"idle", "rejected", "waiting", "holding", "aborted", "done"}]
      /\ pc[c] = "idle" /\ pc' = [pc EXCEPT ![c] = "waiting"]
      /\ queue' = Append(queue, c) /\ arrivals' = Append(arrivals, c)
  BY DEF Enqueue, MutexInv, Types
<1>2. /\ queue' \in Seq(Calls) /\ Len(queue') = Len(queue) + 1 /\ Len(arrivals') = Len(arrivals) + 1
      /\ \A i \in 1 .. Len(queue') : queue'[i] = IF i = Len(queue) + 1 THEN c ELSE queue[i]
      /\ \A a \in 1 .. Len(arrivals') : arrivals'[a] = IF a = Len(arrivals) + 1 THEN c ELSE arrivals[a]
  BY <1>0, <1>1
<1>a. \A i \in 1 .. Len(queue) : queue[i] \in Calls /\ queue[i] # c
  BY <1>0, <1>1 DEF QueueInv
<1>b. \A a \in 1 .. Len(arrivals) : arrivals[a] # c
  BY <1>1 DEF MutexInv, History, Joined
<1>q. \A i, j \in 1 .. Len(queue) : queue[i] = queue[j] => i = j
  BY DEF QueueInv
<1>4. \A i, j \in 1 .. Len(queue') : queue'[i] = queue'[j] => i = j
  BY <1>0, <1>2, <1>a, <1>q
<1>5. \A i \in 1 .. Len(queue') : pc'[queue'[i]] = "waiting"
  BY <1>0, <1>1, <1>2, <1>a, <1>b DEF QueueInv
<1>6. ASSUME NEW d \in Calls, pc'[d] = "waiting" PROVE \E i \in 1 .. Len(queue') : queue'[i] = d
  <2>1. CASE d = c
    BY <1>0, <1>2, <2>1
  <2>2. CASE d # c
    <3>1. PICK i \in 1 .. Len(queue) : queue[i] = d
      BY <1>1, <1>6, <2>2 DEF QueueInv
    <3> QED
      BY <1>0, <1>2, <3>1
  <2> QED
    BY <2>1, <2>2
<1>7. ASSUME NEW i \in 1 .. Len(queue'), NEW j \in 1 .. Len(queue'),
             NEW a \in 1 .. Len(arrivals'), NEW b \in 1 .. Len(arrivals'),
             i < j, arrivals'[a] = queue'[i], arrivals'[b] = queue'[j]
      PROVE  a < b
  <2>1. i \in 1 .. Len(queue) /\ a \in 1 .. Len(arrivals) /\ queue'[i] = queue[i] /\ arrivals'[a] = arrivals[a]
    BY <1>0, <1>2, <1>a, <1>b, <1>7
  <2>2. CASE b = Len(arrivals) + 1
    BY <1>0, <2>1, <2>2
  <2>3. CASE b # Len(arrivals) + 1
    <3>1. b \in 1 .. Len(arrivals) /\ arrivals'[b] = arrivals[b] /\ j \in 1 .. Len(queue) /\ queue'[j] = queue[j]
      BY <1>0, <1>2, <1>a, <1>b, <1>7, <2>3
    <3>2. arrivals[a] = queue[i] /\ arrivals[b] = queue[j] /\ i < j
      BY <1>7, <2>1, <3>1, Zenon
    <3> QED
      BY <2>1, <3>1, <3>2 DEF QueueInv
  <2> QED
    BY <2>2, <2>3
<1> QED
  BY <1>2, <1>4, <1>5, <1>6, <1>7 DEF QueueInv

\* A call that is served or gives up takes its place out of the queue; the
\* others keep their order.
LEMMA LeaveKeepsQueue ==
    ASSUME MutexInv, QueueInv, NEW c \in Calls, NEW l \in {"holding", "aborted"},
           pc' = [pc EXCEPT ![c] = l], UNCHANGED arrivals, LeaveQueue(c)
    PROVE  QueueInv'
<1>0. /\ queue \in Seq(Calls) /\ Len(queue) \in Nat
      /\ pc \in [Calls -> {"idle", "rejected", "waiting", "holding", "aborted", "done"}]
  BY DEF MutexInv, Types, QueueInv
<1>1. PICK n \in 1 .. Len(queue) : queue[n] = c /\ queue' = Without(queue, n)
  BY DEF LeaveQueue
<1> DEFINE at(i) == IF i < n THEN i ELSE i + 1
<1>2. /\ Without(queue, n) \in Seq(Calls) /\ Len(Without(queue, n)) = Len(queue) - 1
      /\ \A j \in 1 .. Len(queue) - 1 : Without(queue, n)[j] = IF j < n THEN queue[j] ELSE queue[j + 1]
  BY <1>0, WithoutOne, Zenon
<1>3. /\ queue' \in Seq(Calls) /\ Len(queue') = Len(queue) - 1
      /\ \A i \in 1 .. Len(queue') : queue'[i] = queue[at(i)] /\ at(i) \in 1 .. Len(queue) /\ at(i) # n
  BY <1>0, <1>1, <1>2
<1>4. \A i, j \in 1 .. Len(queue') : /\ at(i) = at(j) => i = j
                                     /\ i < j => at(i) < at(j)
  BY <1>0, <1>3
<1>5. ASSUME NEW m \in 1 .. Len(queue), m # n PROVE \E i \in 1 .. Len(queue') : at(i) = m
  <2>1. CASE m < n
    BY <1>0, <1>3, <1>5, <2>1
  <2>2. CASE m > n
    <3>1. m - 1 \in 1 .. Len(queue') /\ at(m - 1) = m
      BY <1>0, <1>3, <2>2
    <3> QED
      BY <3>1
  <2> QED
    BY <1>0, <1>5, <2>1, <2>2
<1> HIDE DEF at
<1>6. \A i, j \in 1 .. Len(queue') : queue'[i] = queue'[j] => i = j
  BY <1>3, <1>4 DEF QueueInv
<1>7. \A i \in 1 .. Len(queue') : pc'[queue'[i]] = "waiting"
  <2> SUFFICES ASSUME NEW i \in 1 .. Len(queue') PROVE pc'[queue'[i]] = "waiting"
    OBVIOUS
  <2>1. queue'[i] \in Calls /\ queue'[i] # c /\ pc[queue'[i]] = "waiting"
    BY <1>0, <1>1, <1>3 DEF QueueInv
  <2> QED
    BY <1>0, <2>1
<1>8. ASSUME NEW d \in Calls, pc'[d] = "waiting" PROVE \E i \in 1 .. Len(queue') : queue'[i] = d
  <2>1. d # c /\ pc[d] = "waiting"
    BY <1>0, <1>8
  <2>2. PICK m \in 1 .. Len(queue) : queue[m] = d
    BY <2>1 DEF QueueInv
  <2>3. PICK i \in 1 .. Len(queue') : at(i) = m
    BY <1>1, <1>5, <2>1, <2>2
  <2> QED
    BY <1>3, <2>2, <2>3
<1>9. ASSUME NEW i \in 1 .. Len(queue'), NEW j \in 1 .. Len(queue'),
             NEW a \in 1 .. Len(arrivals'), NEW b \in 1 .. Len(arrivals'),
             i < j, arrivals'[a] = queue'[i], arrivals'[b] = queue'[j]
      PROVE  a < b
  <2>1. /\ at(i) \in 1 .. Len(queue) /\ at(j) \in 1 .. Len(queue) /\ at(i) < at(j)
        /\ arrivals[a] = queue[at(i)] /\ arrivals[b] = queue[at(j)]
        /\ a \in 1 .. Len(arrivals) /\ b \in 1 .. Len(arrivals)
    BY <1>3, <1>4, <1>9
  <2> QED
    BY <2>1 DEF QueueInv
<1> QED
  BY <1>3, <1>6, <1>7, <1>8, <1>9 DEF QueueInv

\* Every step keeps the queue.
LEMMA QueueStep == MutexInv /\ QueueInv /\ [Next]_mutexVars => QueueInv'
<1> SUFFICES ASSUME MutexInv, QueueInv, [Next]_mutexVars PROVE QueueInv'
  OBVIOUS
<1>1. ASSUME NEW c \in Calls, Enqueue(c) PROVE QueueInv'
  BY <1>1, EnqueueKeepsQueue
<1>2. ASSUME NEW c \in Calls, Granted(c) \/ Abort(c) PROVE QueueInv'
  BY <1>2, LeaveKeepsQueue DEF Granted, Abort
<1>3. ASSUME NEW c \in Calls, NEW l, l # "waiting", pc[c] # "waiting", pc' = [pc EXCEPT ![c] = l],
             UNCHANGED <<arrivals, queue>>
      PROVE  QueueInv'
  <2>1. \A d \in Calls : pc'[d] = "waiting" <=> pc[d] = "waiting"
    BY <1>3 DEF MutexInv, Types
  <2>2. \A i \in 1 .. Len(queue) : queue[i] \in Calls
    BY DEF QueueInv
  <2> QED
    BY <1>3, <2>1, <2>2 DEF QueueInv
<1>4. ASSUME NEW c \in Calls,
             RejectAborted(c) \/ RejectCapacity(c) \/ ReleaseCall(c) \/ ChainedRelease(c)
      PROVE  QueueInv'
  BY <1>3, <1>4 DEF RejectAborted, RejectCapacity, ReleaseCall, ChainedRelease
<1>5. CASE UNCHANGED mutexVars
  <2>1. pc' = pc /\ arrivals' = arrivals /\ queue' = queue
    BY <1>5 DEF mutexVars
  <2>2. \A i, j \in 1 .. Len(queue), a, b \in 1 .. Len(arrivals) :
            i < j /\ arrivals[a] = queue[i] /\ arrivals[b] = queue[j] => a < b
    BY DEF QueueInv
  <2> QED
    BY <2>1, <2>2 DEF QueueInv
<1> QED
  BY <1>1, <1>2, <1>4, <1>5 DEF Next

\* The call that holds the lane is the only one that does.
LEMMA HolderIs ==
    ASSUME MutualExclusion
    PROVE  /\ \A c \in Calls : pc[c] = "holding" => Holder = c
           /\ (\A c \in Calls : pc[c] # "holding") => Holder = NoCall
BY DEF MutualExclusion, Holder

\* A grant is a grant of the abstract mutex: nobody holds the lane, for every
\* call before the granted one is released, and so nobody waits before it.
LEMMA GrantedIsGrant ==
    ASSUME MutexInv, QueueInv, MutualExclusion, MutualExclusion', NEW c \in Calls, Granted(c)
    PROVE  Fifo!Grant
<1>0. queue \in Seq(Calls) /\ Len(queue) \in Nat /\ pc[c] = "waiting"
  BY DEF QueueInv, Granted
<1>1. PICK k \in 1 .. Len(arrivals) : arrivals[k] = c
  BY <1>0 DEF MutexInv, History, Joined
<1>2. ReleasedBefore(k) /\ c \notin released
  BY <1>0, <1>1, TurnReached DEF Granted, MutexInv, History
<1>3. ASSUME NEW d \in Calls, pc[d] \in {"waiting", "holding"}, d # c
      PROVE  \E m \in 1 .. Len(arrivals) : arrivals[m] = d /\ k < m
  <2>1. PICK m \in 1 .. Len(arrivals) : arrivals[m] = d
    BY <1>3 DEF MutexInv, History, Joined
  <2>2. d \notin released
    BY <1>3 DEF MutexInv, History
  <2>3. ~(m < k) /\ m # k
    BY <1>1, <1>2, <1>3, <2>1, <2>2 DEF ReleasedBefore
  <2> QED
    BY <2>1, <2>3 DEF MutexInv, Types
<1>4. \A d \in Calls : pc[d] # "holding"
  <2> SUFFICES ASSUME NEW d \in Calls, pc[d] = "holding" PROVE FALSE
    OBVIOUS
  <2>1. PICK m \in 1 .. Len(arrivals) : arrivals[m] = d /\ k < m
    BY <1>0, <1>3
  <2>2. ReleasedBefore(m)
    BY <2>1 DEF MutexInv, Chain
  <2> QED
    BY <1>1, <1>2, <2>1, <2>2 DEF ReleasedBefore
<1>5. PICK n \in 1 .. Len(queue) : queue[n] = c /\ queue' = Without(queue, n)
  BY DEF Granted, LeaveQueue
<1>6. n = 1
  <2> SUFFICES ASSUME n # 1 PROVE FALSE
    OBVIOUS
  <2>1. 1 \in 1 .. Len(queue) /\ 1 < n
    BY <1>0, <1>5
  <2>2. queue[1] \in Calls /\ queue[1] # c /\ pc[queue[1]] = "waiting"
    BY <1>0, <1>5, <2>1 DEF QueueInv
  <2>3. PICK m \in 1 .. Len(arrivals) : arrivals[m] = queue[1] /\ k < m
    BY <1>3, <2>2
  <2>4. m < k
    BY <1>1, <1>5, <2>1, <2>3 DEF QueueInv
  <2> QED
    BY <2>3, <2>4 DEF MutexInv, Types
<1>7. queue # <<>> /\ Head(queue) = c /\ Without(queue, 1) = Tail(queue)
  <2>1. Len(queue) >= 1
    BY <1>0, <1>5
  <2>2. SubSeq(queue, 1, 0) = <<>> /\ SubSeq(queue, 2, Len(queue)) = Tail(queue)
    BY <1>0, <2>1
  <2>3. Tail(queue) \in Seq(Calls)
    BY <1>0, <2>1
  <2>4. <<>> \o Tail(queue) = Tail(queue)
    BY <2>3
  <2> QED
    BY <1>0, <1>5, <1>6, <2>1, <2>2, <2>4 DEF Without
<1>8. Holder = NoCall
  BY <1>4, HolderIs
<1>9. Holder' = c
  <2>1. pc'[c] = "holding"
    BY DEF Granted, MutexInv, Types
  <2> QED
    BY <2>1 DEF MutualExclusion, Holder
<1> QED
  BY <1>5, <1>6, <1>7, <1>8, <1>9 DEF Fifo!Grant

\* The lane grants in the order of arrival, to one call at a time, and a waiter
\* that aborts leaves the line without disturbing the others: every step of the
\* promise chain is a step of the abstract mutex or none (execution-mutex.ts
\* acquire, release, waitForPriorOrAbort).
THEOREM MutexImplementsFifo == Spec => Fifo!FifoSafety
<1>1. Init => Fifo!FifoInit /\ QueueInv
  <2> SUFFICES ASSUME Init PROVE Fifo!FifoInit /\ QueueInv
    OBVIOUS
  <2>1. queue = <<>> /\ queue \in Seq(Calls) /\ Len(queue) = 0 /\ \A c \in Calls : pc[c] = "idle"
    BY DEF Init
  <2>2. QueueInv /\ Holder = NoCall
    BY <2>1 DEF QueueInv, Holder
  <2> QED
    BY <2>1, <2>2 DEF Fifo!FifoInit
<1>2. /\ MutexInv /\ QueueInv /\ MutualExclusion /\ MutualExclusion' /\ [Next]_mutexVars
      => [Fifo!FifoNext]_(Fifo!fifoVars)
  <2> SUFFICES ASSUME MutexInv, QueueInv, MutualExclusion, MutualExclusion', [Next]_mutexVars
               PROVE  [Fifo!FifoNext]_(Fifo!fifoVars)
    OBVIOUS
  <2>0. pc \in [Calls -> {"idle", "rejected", "waiting", "holding", "aborted", "done"}]
    BY DEF MutexInv, Types
  <2>a. ASSUME \A d \in Calls : pc'[d] = "holding" <=> pc[d] = "holding" PROVE Holder' = Holder
    <3>1. CASE \E d \in Calls : pc[d] = "holding"
      BY <2>a, <3>1 DEF Holder, MutualExclusion
    <3>2. CASE \A d \in Calls : pc[d] # "holding"
      BY <2>a, <3>2 DEF Holder
    <3> QED
      BY <3>1, <3>2
  <2>1. ASSUME NEW c \in Calls, RejectAborted(c) \/ RejectCapacity(c) \/ ChainedRelease(c)
        PROVE  UNCHANGED Fifo!fifoVars
    <3>1. UNCHANGED queue /\ \A d \in Calls : pc'[d] = "holding" <=> pc[d] = "holding"
      BY <2>0, <2>1 DEF RejectAborted, RejectCapacity, ChainedRelease
    <3> QED
      BY <2>a, <3>1 DEF Fifo!fifoVars
  <2>2. ASSUME NEW c \in Calls, Enqueue(c) PROVE Fifo!Request(c)
    <3>1. /\ queue' = Append(queue, c) /\ pc[c] = "idle"
          /\ \A d \in Calls : pc'[d] = "holding" <=> pc[d] = "holding"
      BY <2>0, <2>2 DEF Enqueue
    <3>2. ~Fifo!InLine(c) /\ Holder # c
      BY <3>1, MutexAssumption DEF QueueInv, Fifo!InLine, Holder
    <3> QED
      BY <2>a, <3>1, <3>2 DEF Fifo!Request
  <2>3. ASSUME NEW c \in Calls, Granted(c) PROVE Fifo!Grant
    BY <2>3, GrantedIsGrant
  <2>4. ASSUME NEW c \in Calls, ReleaseCall(c) PROVE Fifo!Release \/ UNCHANGED Fifo!fifoVars
    <3>1. CASE pc[c] = "done"
      <4>1. UNCHANGED queue /\ \A d \in Calls : pc'[d] = "holding" <=> pc[d] = "holding"
        BY <2>0, <2>4, <3>1 DEF ReleaseCall
      <4> QED
        BY <2>a, <4>1 DEF Fifo!fifoVars
    <3>2. CASE pc[c] = "holding"
      <4>1. Holder = c /\ Holder # NoCall
        BY <3>2, HolderIs, MutexAssumption
      <4>2. \A d \in Calls : pc'[d] # "holding"
        BY <2>0, <2>4, <3>2 DEF ReleaseCall, MutualExclusion
      <4>3. Holder' = NoCall
        BY <4>2 DEF Holder
      <4> QED
        BY <2>4, <4>1, <4>3 DEF ReleaseCall, Fifo!Release
    <3> QED
      BY <2>4, <3>1, <3>2 DEF ReleaseCall
  <2>5. ASSUME NEW c \in Calls, Abort(c) PROVE Fifo!Abandon(c)
    <3>1. \A d \in Calls : pc'[d] = "holding" <=> pc[d] = "holding"
      BY <2>0, <2>5 DEF Abort
    <3>2. PICK i \in 1 .. Len(queue) : queue[i] = c /\ queue' = Without(queue, i)
      BY <2>5 DEF Abort, LeaveQueue
    <3> QED
      BY <2>a, <3>1, <3>2, Zenon DEF Fifo!Abandon, Fifo!Without, Without
  <2>6. CASE UNCHANGED mutexVars
    BY <2>6 DEF mutexVars, Fifo!fifoVars, Holder
  <2> QED
    BY <2>1, <2>2, <2>3, <2>4, <2>5, <2>6 DEF Next, Fifo!FifoNext
<1> QED
  BY <1>1, <1>2, QueueStep, MutexInvariant, MutexMutualExclusion, PTL DEF Spec, Fifo!FifoSafety
=============================================================================
