------------------------- MODULE CheckAndGuardProofs ------------------------
(***************************************************************************)
(* Two components, each proved on its own: the check of the failed sends   *)
(* (SendCheck), for any number of sends, sessions, faults and deaths of the *)
(* worker, and the guard that keeps readers and writers apart              *)
(* (ReadWriteGuard), for any sets of them and any ceiling.                 *)
(*                                                                         *)
(* SendCheck: a failed send without an answer is watched or about to be, and *)
(* what a read has found out is still true when it comes to writing it.    *)
(*                                                                         *)
(* ReadWriteGuard: the tokens are the live reads, and a read that lost its *)
(* token ran for the ceiling; while a writer is active there is no token.  *)
(* Whoever is handed the slot stood in line, so it was not writing.        *)
(***************************************************************************)
EXTENDS SendCheck, ReadWriteGuard, TLAPS

(* SendCheck.                                                              *)

Verdict == {"none", "sent", "reverted", "gone", "unconfirmed"}

RowType == [stage : {"none", "submitting", "failed"}, url : BOOLEAN, ended : Nat, check : Verdict]
ReadType == [pc : {"idle", "row", "ask", "judge", "write"}, fence : Nat, at : Nat, verdict : Verdict]

\* The state is well-formed.
TypeOK ==
    /\ now \in Nat
    /\ row \in [Ops -> RowType]
    /\ chain \in [Ops -> {"none", "sent", "reverted", "gone"}]
    /\ session \in Nat /\ unlocks \in Nat /\ own \in BOOLEAN
    /\ started \in {"load", "watch", "on"}
    /\ loaded \subseteq Ops /\ watches \subseteq Ops
    /\ read \in [Ops -> ReadType]

\* Every failed send without an answer is watched, about to be, or about to
\* be read by start().
WatchInv ==
    \A o \in Ops : Unanswered(row[o]) =>
        \/ o \in watches
        \/ started = "load"
        \/ started = "watch" /\ o \in loaded

\* The fence of a read names a session that was opened, and when that session
\* is still the unlocked one it is of the profile of the sends.
FenceInv ==
    /\ session <= unlocks
    /\ \A o \in Ops : read[o].pc # "idle" =>
         /\ 0 < read[o].fence /\ read[o].fence <= unlocks
         /\ read[o].fence = session => own

\* What a read has found out is still true when it comes to writing it, as
\* long as the row is there: an erased row does not come back.
VerdictOf(o) ==
    /\ read[o].at <= now
    /\ row[o].stage = "none" => row[o] = NoRow
    /\ chain[o] = "gone" => row[o].stage = "none"
    /\ read[o].pc \in {"ask", "judge", "write"} => row[o].stage = "failed" \/ chain[o] = "gone"
    /\ read[o].pc \in {"row", "ask"} => read[o].verdict = "none"
    /\ (read[o].pc = "judge" /\ row[o].stage = "failed") => read[o].verdict \in {"none", chain[o]}
    /\ read[o].pc = "write" => read[o].verdict # "none"
    /\ (read[o].pc = "write" /\ row[o].stage = "failed") =>
         \/ read[o].verdict = chain[o]
         \/ /\ read[o].verdict = "unconfirmed"
            /\ ~row[o].url \/ read[o].at - row[o].ended >= Window

VerdictInv == \A o \in Ops : VerdictOf(o)

\* The inductive invariant.
CheckInv == TypeOK /\ WatchInv /\ FenceInv /\ VerdictInv

-----------------------------------------------------------------------------
\* A new journal has nothing to watch and nothing being read (send-check.ts start).
LEMMA InitInv == Init => CheckInv
BY DEF Init, CheckInv, TypeOK, WatchInv, FenceInv, VerdictInv, VerdictOf, NoRow, NoRead,
   Unanswered, Verdict,
       RowType, ReadType

\* What happens to the rows, on the network and with their removal, preserves
\* the invariant.
LEMMA RowsPreserve ==
    ASSUME CheckInv,
           Purge \/ \E o \in Ops : Submit(o) \/ Fail(o) \/ Mine(o)
    PROVE  CheckInv'
<1> USE SendCheckAssumption
    DEF CheckInv, TypeOK, WatchInv, FenceInv, VerdictInv, VerdictOf, Unanswered, wallet, starting, store
<1>1. CASE Purge
  BY <1>1 DEF Purge, NoRow, RowType, Verdict
<1>2. ASSUME NEW o \in Ops, Submit(o) PROVE CheckInv'
  <2>1. PICK r \in RowType : /\ r.stage = "submitting"
                            /\ row' = [row EXCEPT ![o] = r]
    BY <1>2, Zenon DEF Submit, NoRow, RowType, Verdict
  <2>2. row' \in [Ops -> RowType] /\ row'[o] = r /\ \A p \in Ops \ {o} : row'[p] = row[p]
    BY <2>1
  <2>3. chain[o] = "none" /\ row[o].stage = "none"
    BY <1>2, Zenon DEF Submit
  <2>4. TypeOK' /\ FenceInv'
    BY <1>2, <2>2, Zenon DEF Submit
  <2>5. WatchInv'
    BY <1>2, <2>1, <2>2, ZenonT(30) DEF Submit
  <2>6. VerdictInv'
    BY <1>2, <2>1, <2>2, <2>3, ZenonT(30) DEF Submit
  <2> QED
    BY <2>4, <2>5, <2>6
<1>3. ASSUME NEW o \in Ops, Fail(o) PROVE CheckInv'
  <2>1. DEFINE r == [row[o] EXCEPT !.stage = "failed", !.ended = now]
  <2>2. r \in RowType /\ r.stage = "failed" /\ row' = [row EXCEPT ![o] = r]
    BY <1>3, ZenonT(30) DEF Fail, RowType
  <2>3. row' \in [Ops -> RowType] /\ row'[o] = r /\ \A p \in Ops \ {o} : row'[p] = row[p]
    BY <2>2
  <2>4. row[o].stage = "submitting" /\ watches' = watches \cup {o}
    BY <1>3 DEF Fail, Watch
  <2> HIDE DEF r
  <2> QED
    BY <1>3, <2>2, <2>3, <2>4 DEF Fail
<1>4. ASSUME NEW o \in Ops, Mine(o) PROVE CheckInv'
  BY <1>4 DEF Mine
<1> QED
  BY <1>1, <1>2, <1>3, <1>4

\* The start of the check, the session, the worker and the clock preserve the
\* invariant.
LEMMA WorkerPreserves ==
    ASSUME CheckInv, Load \/ WatchLoaded \/ Lock \/ Unlock \/ Kill \/ Tick
    PROVE  CheckInv'
<1> USE SendCheckAssumption
    DEF CheckInv, TypeOK, WatchInv, FenceInv, VerdictInv, VerdictOf, Unanswered, NoRead, Verdict, ReadType,
        wallet, starting, store
<1>1. CASE Load
  BY <1>1 DEF Load
<1>2. CASE WatchLoaded
  BY <1>2 DEF WatchLoaded
<1>3. CASE Lock
  BY <1>3 DEF Lock
<1>4. CASE Unlock
  BY <1>4 DEF Unlock
<1>5. CASE Kill
  BY <1>5 DEF Kill
<1>6. CASE Tick
  BY <1>6 DEF Tick
<1> QED
  BY <1>1, <1>2, <1>3, <1>4, <1>5, <1>6

\* The read of o goes on as r, and the other reads stay.
Reads(o, r) == /\ r \in ReadType
               /\ read' \in [Ops -> ReadType] /\ read'[o] = r
               /\ \A p \in Ops \ {o} : read'[p] = read[p]

\* An update of one read.
LEMMA UpdateRead ==
    ASSUME read \in [Ops -> ReadType], NEW o \in Ops, NEW r \in ReadType,
           read' = [read EXCEPT ![o] = r]
    PROVE  Reads(o, r)
BY DEF Reads

\* The end of a read.
LEMMA EndOfRead ==
    ASSUME read \in [Ops -> ReadType], NEW o \in Ops, ReadEnd(o)
    PROVE  Reads(o, NoRead)
<1>1. NoRead \in ReadType
  BY DEF NoRead, ReadType, Verdict
<1> QED
  BY <1>1, UpdateRead, Zenon DEF ReadEnd

\* The steps of a read preserve the invariant.
LEMMA ReadPreserves ==
    ASSUME CheckInv, NEW o \in Ops, ReadStep(o) \/ ReadFails(o)
    PROVE  CheckInv'
<1> USE SendCheckAssumption
    DEF CheckInv, TypeOK, WatchInv, FenceInv, VerdictInv, VerdictOf, Unanswered, wallet, starting, store
<1>0. ReadEnd(o) => Reads(o, NoRead)
  BY EndOfRead
<1>1. CASE ReadStart(o)
  <2> DEFINE r == [NoRead EXCEPT !.pc = "row", !.fence = session, !.at = now]
  <2>1. r \in ReadType /\ r.pc = "row" /\ r.fence = session /\ r.at = now /\ r.verdict = "none"
    BY Zenon DEF NoRead, ReadType, Verdict
  <2>2. Reads(o, r)
    BY <1>1, <2>1, UpdateRead, Zenon DEF ReadStart
  <2> HIDE DEF r
  <2>3. TypeOK' /\ WatchInv' /\ FenceInv'
    BY <1>1, <2>2, <2>1 DEF ReadStart, Reads
  <2>5. VerdictInv'
    <3>0. now' = now /\ UNCHANGED <<row, chain>>
      BY <1>1 DEF ReadStart
    <3>1. VerdictOf(o)'
      <4>1. read'[o].pc = "row" /\ read'[o].at = now /\ read'[o].verdict = "none"
        BY <2>1, <2>2 DEF Reads
      <4> QED
        BY <3>0, <4>1
    <3>2. ASSUME NEW p \in Ops \ {o} PROVE VerdictOf(p)'
      BY <1>1, <2>2 DEF ReadStart, Reads
    <3> QED
      BY <3>1, <3>2
  <2> QED
    BY <2>3, <2>5
<1>2. CASE ReadRow(o)
  <2>1. CASE Unanswered(row[o])
    <3> DEFINE r == [read[o] EXCEPT !.pc = IF row[o].url THEN "ask" ELSE "judge"]
    <3>1. /\ r \in ReadType /\ r.pc \in {"ask", "judge"}
          /\ r.fence = read[o].fence /\ r.at = read[o].at /\ r.verdict = read[o].verdict
      BY DEF ReadType
    <3>2. Reads(o, r)
      BY <1>2, <2>1, <3>1, UpdateRead DEF ReadRow
    <3> HIDE DEF r
    <3> QED
      BY <1>2, <2>1, <3>1, <3>2 DEF ReadRow, Reads
  <2>2. CASE ~Unanswered(row[o])
    BY <1>0, <1>2, <2>2 DEF ReadRow, Reads, NoRead
  <2> QED
    BY <2>1, <2>2
<1>3. CASE Ask(o)
  <2>1. PICK v \in {"none", chain[o]} : read' = [read EXCEPT ![o].pc = "judge", ![o].verdict = v]
    <3>1. read[o].verdict = "none"
      BY <1>3 DEF Ask
    <3>2. [read EXCEPT ![o].pc = "judge"] = [read EXCEPT ![o].pc = "judge", ![o].verdict = "none"]
      BY <3>1, Zenon DEF ReadType
    <3> QED
      BY <1>3, <3>2 DEF Ask
  <2> DEFINE r == [read[o] EXCEPT !.pc = "judge", !.verdict = v]
  <2>2. /\ r \in ReadType /\ r.pc = "judge" /\ r.verdict = v
        /\ r.fence = read[o].fence /\ r.at = read[o].at
    BY <2>1, ZenonT(30) DEF ReadType, Verdict
  <2>3. Reads(o, r)
    BY <2>1, <2>2, UpdateRead, Zenon
  <2> HIDE DEF r
  <2> QED
    BY <1>3, <2>1, <2>2, <2>3 DEF Ask, Reads
<1>4. CASE Judge(o)
  <2>1. CASE ReadEnd(o)
    BY <1>0, <1>4, <2>1 DEF Judge, Reads, NoRead
  <2>2. CASE ~ReadEnd(o)
    <3> DEFINE v == IF read[o].verdict = "none" /\ Last(o) THEN "unconfirmed" ELSE read[o].verdict
               r == [read[o] EXCEPT !.pc = "write", !.verdict = v]
    <3>1. v \in Verdict /\ v # "none" /\ read' = [read EXCEPT ![o].pc = "write", ![o].verdict = v]
      BY <1>4, <2>2 DEF Judge, ReadType, Verdict
    <3>2. v \in {chain[o], "none"} \/ row[o].stage # "failed" \/ (v = "unconfirmed" /\ Last(o))
      BY <1>4 DEF Judge
    <3> HIDE DEF v
    <3>3. /\ r \in ReadType /\ r.pc = "write" /\ r.verdict = v
          /\ r.fence = read[o].fence /\ r.at = read[o].at
      BY <3>1, Zenon DEF ReadType
    <3>4. Reads(o, r)
      BY <3>1, <3>3, UpdateRead, Zenon
    <3> HIDE DEF r
    <3>5. UNCHANGED <<now, row, chain, watches, loaded>>
      BY <1>4, <2>2 DEF Judge, store, starting
    <3>6. TypeOK' /\ WatchInv' /\ FenceInv'
      BY <1>4, <2>2, <3>3, <3>4 DEF Judge, Reads
    <3>7. VerdictOf(o)'
      <4>1. read'[o] = r /\ read[o].pc = "judge" /\ VerdictOf(o)
        BY <1>4, <3>4 DEF Judge, Reads
      <4>2. row[o].stage = "failed" => v = chain[o] \/ (v = "unconfirmed" /\ Last(o))
        BY <3>1, <3>2
      <4> QED
        BY <3>1, <3>3, <3>5, <4>1, <4>2 DEF Last
    <3>8. ASSUME NEW p \in Ops \ {o} PROVE VerdictOf(p)'
      BY <3>4, <3>5 DEF Reads
    <3> QED
      BY <3>6, <3>7, <3>8
  <2> QED
    BY <2>1, <2>2
<1>5. CASE Write(o)
  <2>1. Reads(o, NoRead) /\ NoRead.pc = "idle" /\ NoRead.at = 0
    BY <1>0, <1>5 DEF Write, NoRead
  <2>2. CASE Settable(o)
    <3> DEFINE r == [row[o] EXCEPT !.check = read[o].verdict]
    <3>1. r \in RowType /\ r.stage = row[o].stage /\ r.check = read[o].verdict
      BY DEF RowType, ReadType
    <3>2. row' = [row EXCEPT ![o] = r] /\ watches' = watches \ {o}
      BY <1>5, <2>2 DEF Write
    <3>3. row' \in [Ops -> RowType] /\ row'[o] = r /\ \A p \in Ops \ {o} : row'[p] = row[p]
      BY <3>1, <3>2
    <3>4. r.stage = "failed" /\ r.check # "none" /\ TypeOK' /\ FenceInv'
      BY <1>5, <2>2, <3>1, <2>1, <3>2, <3>3 DEF Write, Settable, Reads
    <3> HIDE DEF r
    <3>6. WatchInv'
      BY <1>5, <3>2, <3>3, <3>4 DEF Write
    <3>7. VerdictInv'
      <4>1. now' = now /\ chain' = chain /\ read'[o].pc = "idle" /\ read'[o].at <= now
        BY <1>5, <2>1 DEF Write, Reads
      <4>3. \A p \in Ops \ {o} : row'[p] = row[p] /\ read'[p] = read[p]
        BY <2>1, <3>3 DEF Reads
      <4>4. VerdictOf(o)'
        BY <3>1, <3>3, <3>4, <4>1, Zenon
      <4>5. ASSUME NEW p \in Ops \ {o} PROVE VerdictOf(p)'
        BY <4>1, <4>3
      <4> QED
        BY <4>4, <4>5
    <3> QED
      BY <3>4, <3>6, <3>7
  <2>3. CASE ~Settable(o)
    BY <1>5, <2>1, <2>3 DEF Write, Reads
  <2> QED
    BY <2>2, <2>3
<1>6. CASE ReadFails(o)
  BY <1>0, <1>6 DEF ReadFails, Reads, NoRead
<1> QED
  BY <1>1, <1>2, <1>3, <1>4, <1>5, <1>6, Zenon DEF ReadStep

\* CheckInv holds of every reachable state.
THEOREM CheckInvariant == Spec => []CheckInv
<1>1. CheckInv /\ [Next]_vars => CheckInv'
  <2> SUFFICES ASSUME CheckInv, [Next]_vars PROVE CheckInv'
    OBVIOUS
  <2>1. CASE Next
    BY <2>1, RowsPreserve, WorkerPreserves, ReadPreserves DEF Next
  <2>2. CASE UNCHANGED vars
    BY <2>2 DEF vars, store, wallet, starting, CheckInv, TypeOK, WatchInv, FenceInv, VerdictInv,
       VerdictOf
  <2> QED
    BY <2>1, <2>2
<1> QED
  BY <1>1, InitInv, PTL DEF Spec

\* No failed send is forgotten by the check, whatever fails while it starts
\* (send-check.ts start, watch).
THEOREM CheckNoAnswerLost == Spec => []NoAnswerLost
<1>1. CheckInv => NoAnswerLost
  BY DEF CheckInv, WatchInv, NoAnswerLost
<1> QED
  BY <1>1, CheckInvariant, PTL

\* Every answer is written once, is true, and is written in the session that
\* asked for it (send-check.ts readOnce, setSendCheck).
THEOREM CheckAnswerWhileLive == Spec => AnswerWhileLive
<1> DEFINE Answered(o) == row'[o].check # row[o].check /\ row'[o] # NoRow
           Honest(o) ==
             /\ row[o].check = "none" /\ session # 0 /\ own
             /\ read[o].fence = session
             /\ \/ row'[o].check = chain[o]
                \/ /\ row'[o].check = "unconfirmed"
                   /\ ~row[o].url \/ now - row[o].ended >= Window
<1>1. ASSUME CheckInv, Next, NEW o \in Ops, Answered(o) PROVE Honest(o)
  <2> USE DEF CheckInv, TypeOK, FenceInv, VerdictInv, VerdictOf
  <2>1. ASSUME NEW p \in Ops, Write(p) PROVE Honest(o)
    <3>1. p = o /\ Settable(o) /\ read[o].pc = "write"
      BY <1>1, <2>1 DEF Write
    <3>2. row'[o].check = read[o].verdict
      BY <1>1, <2>1, <3>1 DEF Write, RowType
    <3>3. row[o].check = "none" /\ row[o].stage = "failed" /\ read[o].fence = session
      BY <3>1 DEF Settable, Live, Unanswered
    <3>4. session # 0 /\ own
      BY <1>1, <3>1, <3>3
    <3>5. \/ read[o].verdict = chain[o]
          \/ /\ read[o].verdict = "unconfirmed"
             /\ ~row[o].url \/ now - row[o].ended >= Window
      <4>1. /\ read[o].at \in Nat /\ row[o].ended \in Nat /\ Window \in Nat
            /\ read[o].at <= now /\ now \in Nat
        BY <1>1, SendCheckAssumption DEF RowType, ReadType
      <4> QED
        BY <1>1, <3>1, <3>3, <4>1
    <3> QED
      BY <3>2, <3>3, <3>4, <3>5
  <2>2. ASSUME NEW p \in Ops, Submit(p) PROVE FALSE
    BY <1>1, <2>2 DEF Submit, NoRow
  <2>5. ASSUME NEW p \in Ops, Fail(p) PROVE FALSE
    <3>1. p = o
      BY <1>1, <2>5 DEF Fail
    <3> QED
      BY <1>1, <2>5, <3>1 DEF Fail, RowType
  <2>3. CASE Purge
    BY <1>1, <2>3 DEF Purge
  <2>4. CASE UNCHANGED row
    BY <1>1, <2>4
  <2> QED
    BY <1>1, <2>1, <2>2, <2>3, <2>4, <2>5, Zenon
    DEF Next, ReadStep, Mine, ReadStart, ReadRow, Ask, Judge, ReadFails, Load, WatchLoaded,
        Lock, Unlock, Kill, Tick, store
<1>2. CheckInv /\ [Next]_vars => [\A o \in Ops : Answered(o) => Honest(o)]_vars
  BY <1>1
<1> QED
  BY <1>2, CheckInvariant, PTL DEF Spec, AnswerWhileLive

-----------------------------------------------------------------------------
(* ReadWriteGuard.                                                         *)

GuardTypes ==
    /\ readerTokens \subseteq Readers
    /\ writeActive \in BOOLEAN
    /\ writeWaiters \in Seq(Writers)
    /\ readWaiters \subseteq Readers
    /\ age \in [Readers -> 0 .. Ceiling]
    /\ pc \in [Readers \cup Writers ->
                 {"idle", "parked", "woken", "reading", "queued", "writing", "done"}]

\* The writers in line are queued, each once; a woken call is a parked reader.
InLine ==
    /\ \A i \in 1 .. Len(writeWaiters) : pc[writeWaiters[i]] = "queued"
    /\ \A i, j \in 1 .. Len(writeWaiters) : writeWaiters[i] = writeWaiters[j] => i = j
    /\ \A r \in readWaiters : pc[r] = "parked"

\* Tokens are reads in progress; a read without one ran for the ceiling.
Tokens ==
    /\ \A r \in readerTokens : pc[r] = "reading"
    /\ \A r \in Readers : pc[r] = "reading" => r \in readerTokens \/ age[r] = Ceiling
    /\ writeActive => readerTokens = {}

\* writeActive is set exactly while one writer has the slot.
OneWriter ==
    /\ \A v, w \in Writers : pc[v] = "writing" /\ pc[w] = "writing" => v = w
    /\ writeActive <=> \E w \in Writers : pc[w] = "writing"

GuardInv == GuardTypes /\ InLine /\ Tokens /\ OneWriter

-----------------------------------------------------------------------------
\* drainWriteIfReady() hands a free slot to the first writer in line, or
\* leaves everything as the caller made it.
LEMMA DrainKeeps ==
    ASSUME NEW tokens, NEW where,
           GuardTypes, where \in [Readers \cup Writers ->
                 {"idle", "parked", "woken", "reading", "queued", "writing", "done"}],
           tokens \subseteq Readers,
           \A i \in 1 .. Len(writeWaiters) : where[writeWaiters[i]] = "queued",
           \A i, j \in 1 .. Len(writeWaiters) : writeWaiters[i] = writeWaiters[j] => i = j,
           \A r \in readWaiters : where[r] = "parked",
           \A r \in tokens : where[r] = "reading",
           \A r \in Readers : where[r] = "reading" => r \in tokens \/ age[r] = Ceiling,
           writeActive => tokens = {},
           \A v, w \in Writers : where[v] = "writing" /\ where[w] = "writing" => v = w,
           writeActive <=> \E w \in Writers : where[w] = "writing",
           DrainWriteIfReady(tokens, where),
           readerTokens' = tokens, UNCHANGED <<readWaiters, age>>
    PROVE  GuardInv'
<1> USE GuardAssumption
<1>1. CASE ~writeActive /\ tokens = {} /\ writeWaiters # <<>>
  <2> DEFINE w == Head(writeWaiters)
  <2>1. /\ w \in Writers /\ w = writeWaiters[1] /\ 1 \in 1 .. Len(writeWaiters)
        /\ Tail(writeWaiters) \in Seq(Writers)
        /\ \A i \in 1 .. Len(Tail(writeWaiters)) :
             Tail(writeWaiters)[i] = writeWaiters[i + 1] /\ i + 1 \in 1 .. Len(writeWaiters)
    BY <1>1 DEF GuardTypes
  <2>2. /\ writeActive' = TRUE /\ writeWaiters' = Tail(writeWaiters)
        /\ pc' = [where EXCEPT ![w] = "writing"]
    BY <1>1 DEF DrainWriteIfReady
  <2>3. w \notin Readers /\ GuardTypes' /\ OneWriter'
    BY <2>1, <2>2, <1>1 DEF GuardTypes, OneWriter
  <2>5. InLine'
    <3>1. \A i \in 1 .. Len(Tail(writeWaiters)) :
            Tail(writeWaiters)[i] # w /\ Tail(writeWaiters)[i] \in Writers
      BY <2>1 DEF GuardTypes
    <3>2. \A i \in 1 .. Len(writeWaiters') : pc'[writeWaiters'[i]] = "queued"
      BY <2>1, <2>2, <3>1
    <3>3. \A i, j \in 1 .. Len(writeWaiters') : writeWaiters'[i] = writeWaiters'[j] => i = j
      BY <2>1, <2>2
    <3>4. \A r \in readWaiters' : pc'[r] = "parked"
      BY <2>2, <2>3 DEF GuardTypes
    <3> QED
      BY <3>2, <3>3, <3>4 DEF InLine
  <2>6. Tokens'
    BY <1>1, <2>2, <2>3 DEF Tokens, GuardTypes
  <2> QED
    BY <2>3, <2>5, <2>6 DEF GuardInv
<1>2. CASE ~(~writeActive /\ tokens = {} /\ writeWaiters # <<>>)
  <2>1. writeActive' = writeActive /\ writeWaiters' = writeWaiters /\ pc' = where
    BY <1>2 DEF DrainWriteIfReady
  <2> QED
    BY <2>1 DEF GuardInv, GuardTypes, InLine, Tokens, OneWriter
<1> QED
  BY <1>1, <1>2

\* read() parks, or takes a token while no writer is active or in line.
LEMMA ReadKeeps == ASSUME GuardInv, NEW r \in Readers, Read(r) PROVE GuardInv'
<1> USE GuardAssumption DEF GuardInv, GuardTypes
<1>1. r \notin Writers /\ pc[r] \in {"idle", "woken"} /\ UNCHANGED <<writeActive, writeWaiters, age>>
  BY DEF Read
<1>2. \A i \in 1 .. Len(writeWaiters) : writeWaiters[i] \in Writers
  OBVIOUS
<1>3. CASE writeActive \/ writeWaiters # <<>>
  <2>1. /\ readWaiters' = readWaiters \cup {r} /\ pc' = [pc EXCEPT ![r] = "parked"]
        /\ readerTokens' = readerTokens
    BY <1>3 DEF Read
  <2>2. GuardTypes' /\ InLine' /\ Tokens' /\ OneWriter'
    BY <1>1, <2>1, <1>2 DEF InLine, Tokens, OneWriter
  <2> QED
    BY <2>2
<1>4. CASE ~(writeActive \/ writeWaiters # <<>>)
  <2>1. /\ readerTokens' = readerTokens \cup {r} /\ pc' = [pc EXCEPT ![r] = "reading"]
        /\ readWaiters' = readWaiters
    BY <1>4 DEF Read
  <2>2. GuardTypes' /\ Tokens' /\ InLine' /\ OneWriter'
    BY <1>1, <2>1, <1>4, <1>2 DEF Tokens, InLine, OneWriter
  <2> QED
    BY <2>2
<1> QED
  BY <1>3, <1>4

\* The finally of read() gives the token back, if the read still has it.
LEMMA ReadDoneKeeps == ASSUME GuardInv, NEW r \in Readers, ReadDone(r) PROVE GuardInv'
<1> DEFINE left == readerTokens \ {r}
           where == [pc EXCEPT ![r] = "done"]
<1> USE GuardAssumption DEF GuardInv, GuardTypes
<1>1. r \notin Writers /\ pc[r] = "reading" /\ readerTokens' = left /\ UNCHANGED <<readWaiters, age>>
  BY DEF ReadDone
<1>2. \A i \in 1 .. Len(writeWaiters) : writeWaiters[i] \in Writers /\ where[writeWaiters[i]] = "queued"
  BY <1>1 DEF InLine
<1>3. /\ \A p \in readWaiters : where[p] = "parked"
      /\ \A p \in left : where[p] = "reading"
      /\ \A p \in Readers : where[p] = "reading" => p \in left \/ age[p] = Ceiling
      /\ writeActive => left = {}
  BY <1>1 DEF InLine, Tokens
<1>4. /\ \A v, w \in Writers : where[v] = "writing" /\ where[w] = "writing" => v = w
      /\ writeActive <=> \E w \in Writers : where[w] = "writing"
  BY <1>1 DEF OneWriter
<1>5. \A i, j \in 1 .. Len(writeWaiters) : writeWaiters[i] = writeWaiters[j] => i = j
  BY DEF InLine
<1>6. CASE left = {}
  <2>1. DrainWriteIfReady(left, where) /\ GuardTypes
    BY <1>6 DEF ReadDone
  <2>2. /\ left \subseteq Readers
        /\ where \in [Readers \cup Writers ->
                 {"idle", "parked", "woken", "reading", "queued", "writing", "done"}]
    OBVIOUS
  <2> HIDE DEF left, where, GuardTypes, GuardInv
  <2> QED
    BY <1>1, <1>2, <1>3, <1>4, <1>5, <2>1, <2>2, DrainKeeps, Zenon
<1>7. CASE left # {}
  <2>1. pc' = where /\ UNCHANGED <<writeActive, writeWaiters>>
    BY <1>7 DEF ReadDone
  <2> HIDE DEF where
  <2>2. where \in [Readers \cup Writers ->
                 {"idle", "parked", "woken", "reading", "queued", "writing", "done"}]
    BY DEF where
  <2>3. GuardTypes' /\ InLine' /\ Tokens' /\ OneWriter'
    BY <1>1, <2>1, <2>2, <1>2, <1>3, <1>5, <1>4 DEF InLine, Tokens, OneWriter
  <2> QED
    BY <2>3
<1> QED
  BY <1>6, <1>7

\* acquireWrite() takes a slot nobody is in the way of, or joins the line.
LEMMA AcquireKeeps == ASSUME GuardInv, NEW w \in Writers, AcquireWrite(w) PROVE GuardInv'
<1> USE GuardAssumption DEF GuardInv, GuardTypes
<1>1. w \notin Readers /\ pc[w] = "idle" /\ UNCHANGED <<readerTokens, readWaiters, age>>
  BY DEF AcquireWrite
<1>2. \A i \in 1 .. Len(writeWaiters) : writeWaiters[i] \in Writers /\ writeWaiters[i] # w
  BY <1>1 DEF InLine
<1>3. CASE writeActive \/ writeWaiters # <<>> \/ readerTokens # {}
  <2>1. /\ writeWaiters' = Append(writeWaiters, w) /\ pc' = [pc EXCEPT ![w] = "queued"]
        /\ writeActive' = writeActive
    BY <1>3 DEF AcquireWrite
  <2>2. /\ Append(writeWaiters, w) \in Seq(Writers)
        /\ Len(Append(writeWaiters, w)) = Len(writeWaiters) + 1
        /\ \A i \in 1 .. Len(writeWaiters) + 1 :
             Append(writeWaiters, w)[i] = IF i <= Len(writeWaiters) THEN writeWaiters[i] ELSE w
    OBVIOUS
  <2>3. GuardTypes' /\ Tokens' /\ OneWriter' /\ InLine'
    BY <1>1, <2>1, <2>2, <1>2 DEF Tokens, OneWriter, InLine
  <2> QED
    BY <2>3
<1>4. CASE ~(writeActive \/ writeWaiters # <<>> \/ readerTokens # {})
  <2>1. writeActive' = TRUE /\ pc' = [pc EXCEPT ![w] = "writing"] /\ writeWaiters' = writeWaiters
    BY <1>4 DEF AcquireWrite
  <2>2. GuardTypes' /\ InLine' /\ Tokens' /\ OneWriter'
    BY <1>1, <2>1, <1>2, <1>4 DEF InLine, Tokens, OneWriter
  <2> QED
    BY <2>2
<1> QED
  BY <1>3, <1>4

\* releaseWrite() hands the slot on without freeing it, or frees it and wakes
\* the parked readers.
LEMMA ReleaseKeeps == ASSUME GuardInv, NEW w \in Writers, ReleaseWrite(w) PROVE GuardInv'
<1> USE GuardAssumption DEF GuardInv, GuardTypes
<1>1. w \notin Readers /\ pc[w] = "writing" /\ writeActive /\ UNCHANGED <<readerTokens, age>>
  BY DEF ReleaseWrite, OneWriter
<1>2. \A i \in 1 .. Len(writeWaiters) : writeWaiters[i] \in Writers /\ writeWaiters[i] # w
  BY <1>1 DEF InLine
<1>3. CASE writeWaiters # <<>>
  <2> DEFINE v == Head(writeWaiters)
  <2>1. /\ v \in Writers /\ v # w /\ v = writeWaiters[1] /\ 1 \in 1 .. Len(writeWaiters)
        /\ Tail(writeWaiters) \in Seq(Writers)
        /\ \A i \in 1 .. Len(Tail(writeWaiters)) :
             Tail(writeWaiters)[i] = writeWaiters[i + 1] /\ i + 1 \in 1 .. Len(writeWaiters)
    BY <1>2, <1>3
  <2>2. /\ writeWaiters' = Tail(writeWaiters)
        /\ pc' = [pc EXCEPT ![w] = "done", ![v] = "writing"]
        /\ UNCHANGED <<writeActive, readWaiters>>
    BY <1>3 DEF ReleaseWrite
  <2>3. GuardTypes'
    BY <1>1, <2>1, <2>2, Zenon
  <2>4. InLine'
    <3>1. \A i \in 1 .. Len(Tail(writeWaiters)) :
            Tail(writeWaiters)[i] \in Writers \ {v, w} /\ pc[Tail(writeWaiters)[i]] = "queued"
      BY <1>2, <2>1 DEF InLine
    <3>2. \A i \in 1 .. Len(writeWaiters') : pc'[writeWaiters'[i]] = "queued"
      BY <2>1, <2>2, <3>1
    <3>3. \A i, j \in 1 .. Len(writeWaiters') : writeWaiters'[i] = writeWaiters'[j] => i = j
      BY <2>1, <2>2 DEF InLine
    <3>4. \A r \in readWaiters' : pc'[r] = "parked"
      BY <1>1, <2>1, <2>2 DEF InLine
    <3> QED
      BY <3>2, <3>3, <3>4 DEF InLine
  <2>5. Tokens'
    BY <1>1, <2>1, <2>2 DEF Tokens
  <2>6. OneWriter'
    BY <1>1, <2>1, <2>2 DEF OneWriter
  <2> QED
    BY <2>3, <2>4, <2>5, <2>6
<1>4. CASE writeWaiters = <<>>
  <2>1. /\ writeActive' = FALSE /\ readWaiters' = {} /\ writeWaiters' = writeWaiters
        /\ pc' = [c \in DOMAIN pc |-> IF c = w THEN "done"
                                      ELSE IF c \in readWaiters THEN "woken" ELSE pc[c]]
    BY <1>4 DEF ReleaseWrite
  <2>2. GuardTypes'
    BY <1>1, <2>1, Zenon
  <2>3. InLine' /\ Tokens'
    BY <1>4, <2>1, <1>1 DEF InLine, Tokens
  <2>5. OneWriter'
    BY <1>1, <2>1, Zenon DEF OneWriter
  <2> QED
    BY <2>2, <2>3, <2>5
<1> QED
  BY <1>3, <1>4

\* The force-release timer takes the tokens of reads that ran for the ceiling
\* only, and drains when that was the last one.
LEMMA ForceReleaseKeeps == ASSUME GuardInv, ForceRelease PROVE GuardInv'
<1> DEFINE survivors == {r \in readerTokens : age[r] < Ceiling}
<1> USE GuardAssumption DEF GuardInv, GuardTypes
<1>1. readerTokens' = survivors /\ UNCHANGED <<readWaiters, age>>
  BY DEF ForceRelease
<1>2. /\ survivors \subseteq Readers
      /\ \A r \in survivors : pc[r] = "reading"
      /\ \A r \in Readers : pc[r] = "reading" => r \in survivors \/ age[r] = Ceiling
      /\ writeActive => survivors = {}
  BY DEF Tokens
<1>3. CASE survivors = {} /\ readerTokens # {}
  <2>1. DrainWriteIfReady({}, pc)
    BY <1>3 DEF ForceRelease
  <2> QED
    BY <1>1, <1>2, <1>3, <2>1, DrainKeeps, Zenon DEF InLine, OneWriter
<1>4. CASE survivors # {} \/ readerTokens = {}
  <2>1. UNCHANGED <<writeActive, writeWaiters, pc>>
    BY <1>4 DEF ForceRelease
  <2> HIDE DEF survivors
  <2> QED
    BY <1>1, <1>2, <2>1 DEF InLine, Tokens, OneWriter
<1> QED
  BY <1>3, <1>4

\* Time only ages the reads in progress, up to the ceiling.
LEMMA TickKeeps == ASSUME GuardInv, GuardTick PROVE GuardInv'
<1> USE GuardAssumption DEF GuardInv, GuardTypes
<1>1. /\ UNCHANGED <<readerTokens, writeActive, writeWaiters, readWaiters, pc>>
      /\ age' = [r \in Readers |-> IF pc[r] = "reading" /\ age[r] < Ceiling THEN age[r] + 1 ELSE age[r]]
  BY DEF GuardTick
<1>2. age' \in [Readers -> 0 .. Ceiling] /\ \A r \in Readers : age[r] = Ceiling => age'[r] = Ceiling
  BY <1>1
<1> QED
  BY <1>1, <1>2 DEF InLine, Tokens, OneWriter

-----------------------------------------------------------------------------
\* GuardInv holds of every reachable state, for any readers and writers.
THEOREM GuardInvariant == GuardSpec => []GuardInv
<1>1. GuardInit => GuardInv
  <2> SUFFICES ASSUME GuardInit PROVE GuardInv
    OBVIOUS
  <2>1. writeWaiters \in Seq(Writers) /\ Len(writeWaiters) = 0 /\ Tokens /\ OneWriter
    BY DEF GuardInit, Tokens, OneWriter
  <2>2. GuardTypes
    <3>1. 0 \in 0 .. Ceiling
      BY GuardAssumption
    <3>2. age \in [Readers -> 0 .. Ceiling]
      BY <3>1 DEF GuardInit
    <3>3. pc \in [Readers \cup Writers ->
                  {"idle", "parked", "woken", "reading", "queued", "writing", "done"}]
      BY DEF GuardInit
    <3> QED
      BY <2>1, <3>2, <3>3, Zenon DEF GuardInit, GuardTypes
  <2>3. InLine
    BY <2>1 DEF GuardInit, InLine
  <2> QED
    BY <2>2, <2>3, <2>1 DEF GuardInv
<1>2. GuardInv /\ [GuardNext]_guardVars => GuardInv'
  <2> SUFFICES ASSUME GuardInv, [GuardNext]_guardVars PROVE GuardInv'
    OBVIOUS
  <2>1. CASE GuardNext
    BY <2>1, ReadKeeps, ReadDoneKeeps, AcquireKeeps, ReleaseKeeps, ForceReleaseKeeps,
       TickKeeps DEF GuardNext
  <2>2. CASE UNCHANGED guardVars
    BY <2>2 DEF guardVars, GuardInv, GuardTypes, InLine, Tokens, OneWriter
  <2> QED
    BY <2>1, <2>2
<1> QED
  BY <1>1, <1>2, PTL DEF GuardSpec

\* A write overlaps no other write, and a read only when that read is stuck
\* (rw-guard.ts read, acquireWrite, releaseWrite, drainWriteIfReady).
THEOREM GuardExclusion == GuardSpec => []Exclusion
<1>1. GuardInv => Exclusion
  BY DEF GuardInv, Tokens, OneWriter, Exclusion
<1> QED
  BY <1>1, GuardInvariant, PTL

=============================================================================
