------------------------------ MODULE FifoMutex ------------------------------
(***************************************************************************)
(* What the wallet's two mutexes promise: a Lock                           *)
(* (wallet-core/src/utils/lock.ts) and one key of the                      *)
(* ExecutionMutex (execution/execution-mutex.ts).  At most one client      *)
(* holds, waiters are served in the order in which they asked, and only a  *)
(* waiter that gives up leaves the line.  The mutex may pass from client   *)
(* to client in one step or be free for a moment in between.               *)
(***************************************************************************)
EXTENDS Naturals, Sequences

CONSTANTS Clients, NoClient

VARIABLES waiting, holder

fifoVars == <<waiting, holder>>

FifoInit ==
    /\ waiting = <<>>
    /\ holder = NoClient

InLine(c) == \E i \in 1 .. Len(waiting) : waiting[i] = c

Request(c) ==
    /\ ~InLine(c)
    /\ holder # c
    /\ \/ waiting' = Append(waiting, c) /\ UNCHANGED holder
       \/ /\ holder = NoClient /\ waiting = <<>>
          /\ holder' = c /\ UNCHANGED waiting

Grant ==
    /\ holder = NoClient
    /\ waiting # <<>>
    /\ holder' = Head(waiting)
    /\ waiting' = Tail(waiting)

Release ==
    /\ holder # NoClient
    /\ \/ holder' = NoClient /\ UNCHANGED waiting
       \/ /\ waiting # <<>>
          /\ holder' = Head(waiting)
          /\ waiting' = Tail(waiting)

\* The line q without its i-th place: the others move up (RemoveAt of SequencesExt).
Without(q, i) == SubSeq(q, 1, i - 1) \o SubSeq(q, i + 1, Len(q))

\* A waiter gives up; the others keep their order.
Abandon(c) ==
    /\ \E i \in 1 .. Len(waiting) : waiting[i] = c /\ waiting' = Without(waiting, i)
    /\ UNCHANGED holder

FifoNext == Grant \/ Release \/ \E c \in Clients : Request(c) \/ Abandon(c)

FifoSafety == FifoInit /\ [][FifoNext]_fifoVars

FifoSpec == FifoSafety /\ WF_fifoVars(Release) /\ WF_fifoVars(Grant)
=============================================================================
