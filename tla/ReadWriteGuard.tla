--------------------------- MODULE ReadWriteGuard ---------------------------
(***************************************************************************)
(* The reader/writer guard of packages/wallet-core/src/utils/rw-guard.ts,  *)
(* which keeps profile deletion and PXE teardown (writers) apart from      *)
(* proofs and simulations (readers).                                       *)
(*                                                                         *)
(* Time is counted in ticks; a reader that has run for Ceiling ticks       *)
(* (MAX_READER_DRAIN_MS) loses its token to the force-release timer and    *)
(* runs on as an orphan.  A timeout may run later than its delay.          *)
(***************************************************************************)
EXTENDS Integers, Sequences, FiniteSets, FiniteSetsExt

CONSTANTS
    Readers,   \* calls of read(), each made at most once
    Writers,   \* calls of write() or enterWrite()/leaveWrite() pairs
    Ceiling    \* MAX_READER_DRAIN_MS in ticks; Math.max(1_000, ..) is one tick

ASSUME GuardAssumption ==
    /\ Readers \cap Writers = {}
    /\ Ceiling \in Nat \ {0}

VARIABLES
    readerTokens,       \* the readers that count as live
    writeActive,
    writeWaiters,       \* writers in line, in order of arrival
    readWaiters,        \* readers parked until a writer leaves
    forceReleaseTimer,  \* ticks until the timeout is due, Off when there is none
    age,                \* how long each read has been running, at most Ceiling
    pc                  \* where each call is

guardVars == <<readerTokens, writeActive, writeWaiters, readWaiters,
               forceReleaseTimer, age, pc>>

Off == -1

GuardInit ==
    /\ readerTokens = {}
    /\ writeActive = FALSE
    /\ writeWaiters = <<>>
    /\ readWaiters = {}
    /\ forceReleaseTimer = Off
    /\ age = [r \in Readers |-> 0]
    /\ pc = [c \in Readers \cup Writers |-> "idle"]

-----------------------------------------------------------------------------
\* drainWriteIfReady(), run with the reader tokens that are left: pass the
\* write slot to the first writer in line.
DrainWriteIfReady(tokens, where) ==
    IF ~writeActive /\ tokens = {} /\ writeWaiters # <<>>
    THEN /\ writeActive' = TRUE
         /\ writeWaiters' = Tail(writeWaiters)
         /\ pc' = [where EXCEPT ![Head(writeWaiters)] = "writing"]
    ELSE /\ UNCHANGED <<writeActive, writeWaiters>>
         /\ pc' = where

\* Mutant: an awakened reader installs its token without looking again.
ReadNoRecheck(r) ==
    /\ pc[r] \in {"idle", "woken"}
    /\ IF pc[r] = "idle" /\ (writeActive \/ writeWaiters # <<>>)
       THEN /\ readWaiters' = readWaiters \cup {r}
            /\ pc' = [pc EXCEPT ![r] = "parked"]
            /\ UNCHANGED <<readerTokens, forceReleaseTimer>>
       ELSE /\ forceReleaseTimer' = IF readerTokens = {} THEN Ceiling ELSE forceReleaseTimer
            /\ readerTokens' = readerTokens \cup {r}
            /\ pc' = [pc EXCEPT ![r] = "reading"]
            /\ UNCHANGED readWaiters
    /\ UNCHANGED <<writeActive, writeWaiters, age>>

\* The head of read(): park behind an active or waiting writer, otherwise start.
\* A parked reader comes back here when it is woken and looks again.
Read(r) ==
    /\ pc[r] \in {"idle", "woken"}
    /\ IF writeActive \/ writeWaiters # <<>>
       THEN /\ readWaiters' = readWaiters \cup {r}
            /\ pc' = [pc EXCEPT ![r] = "parked"]
            /\ UNCHANGED <<readerTokens, forceReleaseTimer>>
       ELSE /\ forceReleaseTimer' = IF readerTokens = {} THEN Ceiling ELSE forceReleaseTimer
            /\ readerTokens' = readerTokens \cup {r}
            /\ pc' = [pc EXCEPT ![r] = "reading"]
            /\ UNCHANGED readWaiters
    /\ UNCHANGED <<writeActive, writeWaiters, age>>

\* The finally of read().  For an orphan the delete finds no token.
ReadDone(r) ==
    LET left == readerTokens \ {r}
        where == [pc EXCEPT ![r] = "done"]
    IN  /\ pc[r] = "reading"
        /\ readerTokens' = left
        /\ IF left = {}
           THEN /\ forceReleaseTimer' = Off
                /\ DrainWriteIfReady(left, where)
           ELSE /\ pc' = where
                /\ UNCHANGED <<forceReleaseTimer, writeActive, writeWaiters>>
        /\ UNCHANGED <<readWaiters, age>>

\* acquireWrite(): take the slot when nobody is in the way, otherwise queue; a
\* queued writer is handed the slot with writeActive already set.
AcquireWrite(w) ==
    /\ pc[w] = "idle"
    /\ IF writeActive \/ writeWaiters # <<>> \/ readerTokens # {}
       THEN /\ writeWaiters' = Append(writeWaiters, w)
            /\ pc' = [pc EXCEPT ![w] = "queued"]
            /\ UNCHANGED writeActive
       ELSE /\ writeActive' = TRUE
            /\ pc' = [pc EXCEPT ![w] = "writing"]
            /\ UNCHANGED writeWaiters
    /\ UNCHANGED <<readerTokens, readWaiters, forceReleaseTimer, age>>

\* releaseWrite(): hand the slot to the next writer, otherwise wake all readers.
ReleaseWrite(w) ==
    /\ pc[w] = "writing"
    /\ IF writeWaiters # <<>>
       THEN /\ writeWaiters' = Tail(writeWaiters)
            /\ pc' = [pc EXCEPT ![w] = "done", ![Head(writeWaiters)] = "writing"]
            /\ UNCHANGED <<writeActive, readWaiters>>
       ELSE /\ writeActive' = FALSE
            /\ readWaiters' = {}
            /\ pc' = [c \in DOMAIN pc |-> IF c = w THEN "done"
                                          ELSE IF c \in readWaiters THEN "woken" ELSE pc[c]]
            /\ UNCHANGED writeWaiters
    /\ UNCHANGED <<readerTokens, forceReleaseTimer, age>>

\* Mutant: the timer finds readers, rearms itself and expires nobody.
ForceReleaseRearms ==
    /\ forceReleaseTimer = 0
    /\ forceReleaseTimer' = IF readerTokens = {} THEN Off ELSE 1
    /\ UNCHANGED <<readerTokens, writeActive, writeWaiters, readWaiters, age, pc>>

\* The force-release timer: drop the tokens of the readers that ran for the
\* ceiling; drain if none is left, otherwise wait for the oldest survivor.
ForceRelease ==
    LET survivors == {r \in readerTokens : age[r] < Ceiling}
        oldest == Max({age[r] : r \in survivors})
    IN  /\ forceReleaseTimer = 0
        /\ readerTokens' = survivors
        /\ IF survivors = {}
           THEN /\ forceReleaseTimer' = Off
                /\ IF readerTokens = {} THEN UNCHANGED <<writeActive, writeWaiters, pc>>
                                        ELSE DrainWriteIfReady({}, pc)
           ELSE /\ forceReleaseTimer' = Max({1, Ceiling - oldest})
                /\ UNCHANGED <<writeActive, writeWaiters, pc>>
        /\ UNCHANGED <<readWaiters, age>>

\* Time passes for the reads in progress and the timeout.
GuardTick ==
    /\ forceReleaseTimer # Off
    /\ forceReleaseTimer' = Max({0, forceReleaseTimer - 1})
    /\ age' = [r \in Readers |-> IF pc[r] = "reading" /\ age[r] < Ceiling
                                 THEN age[r] + 1 ELSE age[r]]
    /\ UNCHANGED <<readerTokens, writeActive, writeWaiters, readWaiters, pc>>

GuardNext ==
    \/ \E r \in Readers : Read(r) \/ ReadDone(r)
    \/ \E w \in Writers : AcquireWrite(w) \/ ReleaseWrite(w)
    \/ ForceRelease
    \/ GuardTick

GuardSpec == GuardInit /\ [][GuardNext]_guardVars

\* Microtasks and timeouts run, and every write ends; a read may hang for ever.
GuardFairness ==
    /\ \A r \in Readers : WF_guardVars(pc[r] = "woken" /\ Read(r))
    /\ \A w \in Writers : WF_guardVars(ReleaseWrite(w))
    /\ WF_guardVars(ForceRelease) /\ WF_guardVars(GuardTick)

-----------------------------------------------------------------------------
\* A write overlaps a read only when that read has been stuck for the whole
\* ceiling, and two writes never overlap: hand-over of the slot, readers that are
\* woken while another writer slips in, and orphans that finish late included
\* (rw-guard.ts read, releaseWrite, drainWriteIfReady).
Exclusion ==
    /\ \A w \in Writers : pc[w] = "writing" =>
          /\ writeActive
          /\ \A v \in Writers : pc[v] = "writing" => v = w
          /\ \A r \in Readers : pc[r] = "reading" => age[r] = Ceiling
    /\ writeActive => \E w \in Writers : pc[w] = "writing"

\* A writer in line gets the slot although the reads before it may hang, and a
\* parked reader gets its turn (rw-guard.ts force-release).
EveryoneServed ==
    /\ \A w \in Writers : pc[w] = "queued" ~> pc[w] = "writing"
    /\ \A r \in Readers : pc[r] \in {"parked", "woken"} ~> pc[r] = "reading"
=============================================================================
