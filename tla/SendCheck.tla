------------------------------ MODULE SendCheck ------------------------------
(***************************************************************************)
(* The check of failed sends that may have reached the network             *)
(* (operation-journal/send-check.ts): it watches every failed row that has *)
(* a transaction hash, asks the endpoint the send went through, and writes *)
(* one answer on the row (setSendCheck of the journal).                    *)
(*                                                                         *)
(* Rows enter with the hash that submitting recorded and are failed by     *)
(* their job, by the reaper or by the boot sweep of the next worker        *)
(* (SendPipeline, JournalUpkeep).  A step is what the code does between    *)
(* two awaits; setSendCheck is one step, under the transition lock.        *)
(***************************************************************************)
EXTENDS Integers, FiniteSets

CONSTANTS
    Ops,          \* sends of one profile
    Window,       \* DROPPED_RESURRECTION_WINDOW_MS, in ticks of the clock
    MaxTime,      \* bound: the clock stands still from here on
    MaxSessions,  \* bound: unlocks
    MaxFaults,    \* bound: reads that throw
    MaxKills      \* bound: deaths of the worker

ASSUME SendCheckAssumption ==
    {Window, MaxTime, MaxSessions, MaxFaults, MaxKills} \subseteq Nat

NoRow == [stage |-> "none", url |-> FALSE, ended |-> 0, check |-> "none"]
NoRead == [pc |-> "idle", fence |-> 0, at |-> 0, verdict |-> "none"]

VARIABLES
    now,
    row,        \* the journal row of each send: stage, endpoint known, terminalAt, answer
    chain,      \* what the network holds of its transaction
    session,    \* the serial of the unlocked session, 0 when locked
    own,        \* the session is of the profile whose sends these are
    unlocks,
    started,    \* start(): "load", "watch" or "on"
    loaded,     \* the failed rows start() has read
    watches,
    nextAt,     \* nextAt of each watch
    read,       \* the read in flight of each
    faults, kills

store == <<row, chain>>
wallet == <<session, own, unlocks>>
starting == <<started, loaded>>
vars == <<now, store, wallet, starting, watches, nextAt, read, faults, kills>>

Init ==
    /\ now = 0
    /\ row = [o \in Ops |-> NoRow]
    /\ chain = [o \in Ops |-> "none"]
    /\ session = 1 /\ own = TRUE /\ unlocks = 1
    /\ started = "on" /\ loaded = {}
    /\ watches = {} /\ nextAt = [o \in Ops |-> 0]
    /\ read = [o \in Ops |-> NoRead]
    /\ faults = 0 /\ kills = 0

\* unanswered().
Unanswered(r) == r.stage = "failed" /\ r.check = "none"

-----------------------------------------------------------------------------
(* The rows and the network.                                               *)

\* submitting records the hash and, unless the row is an old one, the endpoint.
Submit(o) ==
    /\ row[o].stage = "none" /\ chain[o] = "none"
    /\ \E url \in BOOLEAN : row' = [row EXCEPT ![o] = [NoRow EXCEPT !.stage = "submitting", !.url = url]]
    /\ UNCHANGED <<now, chain, wallet, starting, watches, nextAt, read, faults, kills>>

\* Mutant: the listeners are added once the failed rows are loaded.
WatchLate(o) == started = "on" /\ o \notin watches

\* onUpdated: a watch that is there is kept.
Watch(o) == o \notin watches

\* The row fails (failedFrom keeps the hash) and onOperationUpdated is heard.
\* Bound: its window is over before the clock stands still.
Fail(o) ==
    /\ row[o].stage = "submitting" /\ now + Window <= MaxTime
    /\ row' = [row EXCEPT ![o].stage = "failed", ![o].ended = now]
    /\ IF Watch(o)
       THEN watches' = watches \cup {o} /\ nextAt' = [nextAt EXCEPT ![o] = now]
       ELSE UNCHANGED <<watches, nextAt>>
    /\ UNCHANGED <<now, chain, wallet, starting, read, faults, kills>>

\* The transaction is included in a block.
Mine(o) ==
    /\ row[o].stage \in {"submitting", "failed"} /\ chain[o] = "none"
    /\ \E result \in {"sent", "reverted"} : chain' = [chain EXCEPT ![o] = result]
    /\ UNCHANGED <<now, row, wallet, starting, watches, nextAt, read, faults, kills>>

\* The network of the rows is removed: onDeleted drops their watches.
Purge ==
    /\ \E o \in Ops : row[o] # NoRow
    /\ row' = [o \in Ops |-> NoRow]
    /\ chain' = [o \in Ops |-> IF row[o] = NoRow THEN chain[o] ELSE "gone"]
    /\ watches' = {o \in watches : row[o] = NoRow}
    /\ UNCHANGED <<now, wallet, starting, nextAt, read, faults, kills>>

-----------------------------------------------------------------------------
(* start().                                                                *)

Load ==
    /\ started = "load"
    /\ started' = "watch"
    /\ loaded' = {o \in Ops : Unanswered(row[o])}
    /\ UNCHANGED <<now, store, wallet, watches, nextAt, read, faults, kills>>

WatchLoaded ==
    /\ started = "watch"
    /\ started' = "on" /\ loaded' = {}
    /\ watches' = watches \cup loaded
    /\ nextAt' = [o \in Ops |-> IF o \in loaded \ watches THEN now ELSE nextAt[o]]
    /\ UNCHANGED <<now, store, wallet, read, faults, kills>>

-----------------------------------------------------------------------------
(* One read of one row.                                                    *)

\* live(): the session that was captured is the one that is unlocked, and the
\* row is still watched.
Live(o) == read[o].fence = session /\ o \in watches

\* tick().
ReadStart(o) ==
    /\ session # 0 /\ own
    /\ o \in watches /\ nextAt[o] <= now /\ read[o].pc = "idle"
    /\ read' = [read EXCEPT ![o] = [NoRead EXCEPT !.pc = "row", !.fence = session, !.at = now]]
    /\ UNCHANGED <<now, store, wallet, starting, watches, nextAt, faults, kills>>

ReadEnd(o) == read' = [read EXCEPT ![o] = NoRead]

\* nextReadAt; the clock of the model stands still at MaxTime.
Postpone(o) ==
    nextAt' = [nextAt EXCEPT ![o] = IF read[o].at < MaxTime THEN read[o].at + 1 ELSE MaxTime]

\* readOnce: a row that is gone or answered is not watched any more.
ReadRow(o) ==
    /\ read[o].pc = "row"
    /\ IF Unanswered(row[o])
       THEN /\ read' = [read EXCEPT ![o].pc = IF row[o].url THEN "ask" ELSE "judge"]
            /\ UNCHANGED watches
       ELSE ReadEnd(o) /\ watches' = watches \ {o}
    /\ UNCHANGED <<now, store, wallet, starting, nextAt, faults, kills>>

\* minedVerdict: what the node reports, if it is asked and if it answers.
Ask(o) ==
    /\ read[o].pc = "ask"
    /\ \/ Live(o) /\ read' = [read EXCEPT ![o].pc = "judge", ![o].verdict = chain[o]] /\ UNCHANGED faults
       \/ Live(o) /\ faults < MaxFaults /\ faults' = faults + 1 /\ read' = [read EXCEPT ![o].pc = "judge"]
       \/ ~Live(o) /\ read' = [read EXCEPT ![o].pc = "judge"] /\ UNCHANGED faults
    /\ UNCHANGED <<now, store, wallet, starting, watches, nextAt, kills>>

\* Mutant: a row is read again however long ago it failed.
LastNever(o) == ~row[o].url

\* The first look past the window is the last one, and so is one without endpoint.
Last(o) == ~row[o].url \/ read[o].at - row[o].ended >= Window

Judge(o) ==
    /\ read[o].pc = "judge"
    /\ LET verdict == IF read[o].verdict = "none" /\ Last(o) THEN "unconfirmed" ELSE read[o].verdict IN
         \/ /\ ~Live(o)
            /\ ReadEnd(o) /\ UNCHANGED nextAt
         \/ /\ Live(o) /\ verdict = "none"
            /\ ReadEnd(o) /\ Postpone(o)
         \/ /\ Live(o) /\ verdict # "none"
            /\ read' = [read EXCEPT ![o].pc = "write", ![o].verdict = verdict]
            /\ UNCHANGED nextAt
    /\ UNCHANGED <<now, store, wallet, starting, watches, faults, kills>>

\* Mutant: the row is answered whatever became of the session.
SettableAnyway(o) == Unanswered(row[o])

\* The conditions of setSendCheck.
Settable(o) == Unanswered(row[o]) /\ Live(o)

\* record(): a refused write keeps the row watched and due.
Write(o) ==
    /\ read[o].pc = "write"
    /\ IF Settable(o)
       THEN row' = [row EXCEPT ![o].check = read[o].verdict] /\ watches' = watches \ {o}
       ELSE UNCHANGED <<row, watches>>
    /\ ReadEnd(o)
    /\ UNCHANGED <<now, chain, wallet, starting, nextAt, faults, kills>>

\* The catch of read(): storage or the node's client threw.
ReadFails(o) ==
    /\ read[o].pc \in {"row", "ask", "write"}
    /\ faults < MaxFaults /\ faults' = faults + 1
    /\ ReadEnd(o) /\ Postpone(o)
    /\ UNCHANGED <<now, store, wallet, starting, watches, kills>>

-----------------------------------------------------------------------------
(* The session, the worker and the clock.                                  *)

Lock ==
    /\ session # 0
    /\ session' = 0
    /\ UNCHANGED <<now, store, own, unlocks, starting, watches, nextAt, read, faults, kills>>

Unlock ==
    /\ session = 0 /\ unlocks < MaxSessions
    /\ unlocks' = unlocks + 1 /\ session' = unlocks' /\ own' \in BOOLEAN
    /\ UNCHANGED <<now, store, starting, watches, nextAt, read, faults, kills>>

\* The worker dies; the next one starts the check anew, locked until the
\* session is restored or opened.
Kill ==
    /\ kills < MaxKills /\ kills' = kills + 1
    /\ session' = 0
    /\ started' = "load" /\ loaded' = {}
    /\ watches' = {} /\ nextAt' = [o \in Ops |-> 0] /\ read' = [o \in Ops |-> NoRead]
    /\ UNCHANGED <<now, store, own, unlocks, faults>>

Tick ==
    /\ now < MaxTime
    /\ now' = now + 1
    /\ UNCHANGED <<store, wallet, starting, watches, nextAt, read, faults, kills>>

ReadStep(o) == ReadStart(o) \/ ReadRow(o) \/ Ask(o) \/ Judge(o) \/ Write(o)

Next ==
    \/ \E o \in Ops : Submit(o) \/ Fail(o) \/ Mine(o) \/ ReadStep(o) \/ ReadFails(o)
    \/ Purge \/ Load \/ WatchLoaded \/ Lock \/ Unlock \/ Kill \/ Tick

\* The interval keeps firing, a read goes on until it returns (one attempt
\* with the transport's timeout), and time passes.
Fairness ==
    /\ \A o \in Ops : WF_vars(ReadStep(o))
    /\ WF_vars(Load) /\ WF_vars(WatchLoaded) /\ WF_vars(Tick)

Spec == Init /\ [][Next]_vars /\ Fairness

-----------------------------------------------------------------------------
(* Properties.                                                             *)

\* A failed send gets one answer, only while the session that asked is the
\* unlocked one: the network's, or "unconfirmed" once the window is over or
\* when there is no endpoint to ask (setSendCheck, readOnce).
AnswerWhileLive ==
    [][\A o \in Ops :
         (row'[o].check # row[o].check /\ row'[o] # NoRow)
         => /\ row[o].check = "none" /\ session # 0 /\ own
            /\ read[o].fence = session
            /\ \/ row'[o].check = chain[o]
               \/ /\ row'[o].check = "unconfirmed"
                  /\ ~row[o].url \/ now - row[o].ended >= Window]_vars

\* Once the check has started, every failed send without an answer is
\* watched, the ones that failed while it was starting included (start, watch).
NoAnswerLost ==
    started = "on" => \A o \in Ops : Unanswered(row[o]) => o \in watches

\* While its profile stays unlocked, a failed send gets its answer or its row
\* goes: reads that throw, refused writes and reads begun in an earlier
\* session do not keep it from being read again (read, record).
AnsweredInTheEnd ==
    \A o \in Ops :
        Unanswered(row[o]) ~> (~Unanswered(row[o]) \/ session = 0 \/ ~own)

=============================================================================
