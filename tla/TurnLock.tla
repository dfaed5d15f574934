------------------------------ MODULE TurnLock ------------------------------
(***************************************************************************)
(* What SessionBusyTracker promises for one session: a lock with a FIFO    *)
(* queue of waiters.  While a turn waits, only the head of the queue can   *)
(* get the slot; a new arrival never takes it from under the queue.        *)
(***************************************************************************)
EXTENDS Sequences

CONSTANTS Turns, NoTurn   \* NoTurn: a value that is no turn

VARIABLES holder, waiting

lockVars == <<holder, waiting>>

Init == holder = NoTurn /\ waiting = <<>>

Acquire(t) ==
  /\ holder = NoTurn /\ waiting = <<>>
  /\ holder' = t
  /\ UNCHANGED waiting

Wait(t) ==
  /\ holder # NoTurn
  /\ waiting' = Append(waiting, t)
  /\ UNCHANGED holder

\* The holder leaves: to the head of the queue if there is one, else the slot is
\* free or goes to a turn that was to be told of the idle session.
HandOver ==
  /\ holder # NoTurn
  /\ IF waiting # <<>>
       THEN holder' = Head(waiting) /\ waiting' = Tail(waiting)
       ELSE holder' \in Turns \cup {NoTurn} /\ UNCHANGED waiting

\* The process restarts: the lock lives in memory.
Reset == holder' = NoTurn /\ waiting' = <<>>

Next == (\E t \in Turns : Acquire(t) \/ Wait(t)) \/ HandOver \/ Reset

Spec == Init /\ [][Next]_lockVars
=============================================================================
