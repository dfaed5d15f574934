-------------------------- MODULE RuntimeDispatcher -------------------------
(***************************************************************************)
(* RuntimeDispatcher.dispatch: save the action's row, answer a duplicate   *)
(* of an idempotency key from the first row with that key, ask the         *)
(* permission hook, run the target's adapter against a timer, write the    *)
(* outcome into the row.  The rows are in SQLite and survive a restart;    *)
(* the stale sweep at startup closes old 'dispatching' rows.               *)
(*                                                                         *)
(* One dispatch per action.  An action of the model is one synchronous     *)
(* block of the code, from an await to the next.                           *)
(***************************************************************************)
EXTENDS Integers, FiniteSets

CONSTANTS
  Actions,      \* runtime actions, each dispatched once
  Keys, NoKey,  \* idempotency keys, and none
  KeyOf,        \* the idempotencyKey of each action
  Writes,       \* actions whose targetAction is write, delete, send or execute
  MaxRestarts   \* bound: process restarts

None == "none"

ASSUME ActionsAssumption == None \notin Actions /\ Writes \subseteq Actions
ASSUME KeysAssumption == NoKey \notin Keys /\ KeyOf \in [Actions -> Keys \cup {NoKey}]
ASSUME BoundAssumption == MaxRestarts \in Nat

VARIABLES
  hasHook,      \* is a permissionHook configured?  Fixed.
  uniqueKeys,   \* is idempotency_key UNIQUE in the action store?  Fixed.
  row,          \* status column of each action's row; None: there is no row
  first,        \* the first row saved with a key: findByIdempotencyKey
  pc,           \* where each dispatch is
  answer,       \* status of its DispatchResult; "thrown": the promise rejected
  duplicateOf,  \* idempotency.duplicateOfActionId of the result
  adapter,      \* the adapter call of each action
  aborted,      \* actions whose caller aborted its signal
  signalled,    \* actions whose adapter sees an aborted signal
  restarts      \* process restarts so far (history)

config == <<hasHook, uniqueKeys>>
vars == <<hasHook, uniqueKeys, row, first, pc, answer, duplicateOf, adapter,
          aborted, signalled, restarts>>

Outcomes == {"completed", "failed", "timeout"}
Terminal == Outcomes \cup {"denied", "duplicate"}
Behaviors == {"return_previous", "drop", "fail"}

\* "permission": awaits the hook; "executing": awaits the adapter or the timer;
\* "lost": the process ended under it.
Places == {"new", "permission", "executing", "answered", "lost"}

TypeOK ==
  /\ hasHook \in BOOLEAN /\ uniqueKeys \in BOOLEAN
  /\ row \in [Actions -> Terminal \cup {None, "created", "dispatching"}]
  /\ first \in [Keys -> Actions \cup {None}]
  /\ pc \in [Actions -> Places]
  /\ answer \in [Actions -> Terminal \cup {None, "thrown"}]
  /\ duplicateOf \in [Actions -> Actions \cup {None}]
  /\ adapter \in [Actions -> {None, "running", "ended"}]
  /\ aborted \subseteq Actions /\ signalled \subseteq Actions
  /\ restarts \in 0..MaxRestarts

\* The dispatcher's store and hook are injected: the application has no hook and
\* the SQLite store, whose schema makes the key UNIQUE.
Init ==
  /\ hasHook \in BOOLEAN /\ uniqueKeys \in BOOLEAN
  /\ row = [a \in Actions |-> None] /\ first = [k \in Keys |-> None]
  /\ pc = [a \in Actions |-> "new"] /\ answer = [a \in Actions |-> None]
  /\ duplicateOf = [a \in Actions |-> None] /\ adapter = [a \in Actions |-> None]
  /\ aborted = {} /\ signalled = {} /\ restarts = 0

-----------------------------------------------------------------------------
(* Pieces of dispatch *)

\* dispatch returns (or rejects) with status s.
Answer(a, s) ==
  /\ pc' = [pc EXCEPT ![a] = "answered"]
  /\ answer' = [answer EXCEPT ![a] = s]

\* The row and the answer get the same status.
Close(a, s) == row' = [row EXCEPT ![a] = s] /\ Answer(a, s)

\* Is there an earlier row with a's key?
IsDuplicate(a) == KeyOf[a] # NoKey /\ first[KeyOf[a]] # None

\* The adapter's lookup: without one the action fails, else its row becomes
\* 'dispatching' and the adapter runs, with the signal the caller may already
\* have aborted.
Launch(a, hasAdapter) ==
  IF hasAdapter
    THEN /\ row' = [row EXCEPT ![a] = "dispatching"]
         /\ pc' = [pc EXCEPT ![a] = "executing"]
         /\ adapter' = [adapter EXCEPT ![a] = "running"]
         /\ signalled' = IF a \in aborted THEN signalled \cup {a} ELSE signalled
         /\ UNCHANGED answer
    ELSE /\ Close(a, "failed")
         /\ UNCHANGED <<adapter, signalled>>

\* After save and the duplicate check: to the hook, or straight to the adapter.
Proceed(a, hasAdapter) ==
  IF hasHook
    THEN /\ row' = [row EXCEPT ![a] = "created"]
         /\ pc' = [pc EXCEPT ![a] = "permission"]
         /\ UNCHANGED <<answer, adapter, signalled>>
    ELSE Launch(a, hasAdapter)

\* findByIdempotencyKey returns the first row saved with the key.
RememberKey(a) ==
  IF IsDuplicate(a) THEN first ELSE [first EXCEPT ![KeyOf[a]] = a]

\* A write is never answered with a previous result.
EffectiveBehavior(a, behavior) ==
  IF a \in Writes /\ behavior = "return_previous" THEN "fail" ELSE behavior

\* resolveIdempotencyDuplicate.  return_previous leaves the new row as saved.
ResolveDuplicate(a, behavior) ==
  LET effective == EffectiveBehavior(a, behavior)
  IN /\ duplicateOf' = [duplicateOf EXCEPT ![a] = first[KeyOf[a]]]
     /\ \/ /\ effective = "return_previous"
           /\ row' = [row EXCEPT ![a] = "created"] /\ Answer(a, "duplicate")
        \/ effective = "drop" /\ Close(a, "duplicate")
        \/ effective = "fail" /\ Close(a, "failed")

-----------------------------------------------------------------------------
(* dispatch, up to its first await *)

\* validateRuntimeAction fails: no row.
DispatchInvalid(a) ==
  /\ pc[a] = "new"
  /\ Answer(a, "failed")
  /\ UNCHANGED <<config, row, first, duplicateOf, adapter, aborted, signalled, restarts>>

\* The INSERT violates the UNIQUE constraint: save throws out of dispatch.
DispatchRejectedByStore(a) ==
  /\ pc[a] = "new" /\ uniqueKeys /\ IsDuplicate(a)
  /\ Answer(a, "thrown")
  /\ UNCHANGED <<config, row, first, duplicateOf, adapter, aborted, signalled, restarts>>

DispatchDuplicate(a, behavior) ==
  /\ pc[a] = "new" /\ ~uniqueKeys /\ IsDuplicate(a)
  /\ first' = RememberKey(a)
  /\ ResolveDuplicate(a, behavior)
  /\ UNCHANGED <<config, adapter, aborted, signalled, restarts>>

FaultyDispatch(a, hasAdapter) ==
  /\ pc[a] = "new"
  /\ IF IsDuplicate(a) THEN row[first[KeyOf[a]]] # "completed" ELSE TRUE
  /\ first' = IF KeyOf[a] = NoKey THEN first ELSE RememberKey(a)
  /\ Proceed(a, hasAdapter)
  /\ UNCHANGED <<config, duplicateOf, aborted, restarts>>

Dispatch(a, hasAdapter) ==
  /\ pc[a] = "new" /\ ~IsDuplicate(a)
  /\ first' = IF KeyOf[a] = NoKey THEN first ELSE RememberKey(a)
  /\ Proceed(a, hasAdapter)
  /\ UNCHANGED <<config, duplicateOf, aborted, restarts>>

-----------------------------------------------------------------------------
(* dispatch, after an await *)

PermissionAllowed(a, hasAdapter) ==
  /\ pc[a] = "permission"
  /\ Launch(a, hasAdapter)
  /\ UNCHANGED <<config, first, duplicateOf, aborted, restarts>>

FaultyPermissionDenied(a) ==
  /\ pc[a] = "permission"
  /\ Answer(a, "denied")
  /\ UNCHANGED <<config, row, first, duplicateOf, adapter, aborted, signalled, restarts>>

PermissionDenied(a) ==
  /\ pc[a] = "permission"
  /\ Close(a, "denied")
  /\ UNCHANGED <<config, first, duplicateOf, adapter, aborted, signalled, restarts>>

\* The hook is not inside the try: its exception leaves dispatch and the row.
PermissionThrows(a) ==
  /\ pc[a] = "permission"
  /\ Answer(a, "thrown")
  /\ UNCHANGED <<config, row, first, duplicateOf, adapter, aborted, signalled, restarts>>

\* The adapter resolves or rejects; its result counts if the timer has not
\* settled the promise.  An adapter that rejects with the message 'Timeout' is
\* taken for one.
AdapterEnds(a, outcome) ==
  /\ adapter[a] = "running"
  /\ adapter' = [adapter EXCEPT ![a] = "ended"]
  /\ IF pc[a] = "executing" THEN Close(a, outcome) ELSE UNCHANGED <<row, pc, answer>>
  /\ UNCHANGED <<config, first, duplicateOf, aborted, signalled, restarts>>

FaultyTimerWaits(a) ==
  /\ pc[a] = "executing"
  /\ signalled' = signalled \cup {a}
  /\ UNCHANGED <<config, row, first, pc, answer, duplicateOf, adapter, aborted, restarts>>

\* The timer aborts the adapter's signal and settles; the adapter may run on.
TimerFires(a) ==
  /\ pc[a] = "executing"
  /\ signalled' = signalled \cup {a}
  /\ Close(a, "timeout")
  /\ UNCHANGED <<config, first, duplicateOf, adapter, aborted, restarts>>

\* The caller aborts: the adapter's signal follows, nothing is settled.
CallerAborts(a) ==
  /\ pc[a] \in {"permission", "executing"} /\ a \notin aborted
  /\ aborted' = aborted \cup {a}
  /\ signalled' = IF pc[a] = "executing" THEN signalled \cup {a} ELSE signalled
  /\ UNCHANGED <<config, row, first, pc, answer, duplicateOf, adapter, restarts>>

-----------------------------------------------------------------------------
FaultySwept == {a \in Actions : row[a] \notin {None, "created"}}

\* The rows the startup sweep looks at.
Swept == {a \in Actions : row[a] = "dispatching"}

\* The process ends and starts again; the sweep closes the rows that are older
\* than its threshold, any of them.
Restart ==
  /\ restarts < MaxRestarts
  /\ restarts' = restarts + 1
  /\ pc' = [a \in Actions |-> IF pc[a] \in {"permission", "executing"} THEN "lost" ELSE pc[a]]
  /\ adapter' = [a \in Actions |-> IF adapter[a] = "running" THEN "ended" ELSE adapter[a]]
  /\ \E old \in SUBSET Swept :
       row' = [a \in Actions |-> IF a \in old THEN "timeout" ELSE row[a]]
  /\ UNCHANGED <<config, first, answer, duplicateOf, aborted, signalled>>

DispatchBegins(a) ==
  \/ DispatchInvalid(a)
  \/ DispatchRejectedByStore(a)
  \/ \E behavior \in Behaviors : DispatchDuplicate(a, behavior)
  \/ \E hasAdapter \in BOOLEAN : Dispatch(a, hasAdapter)

DispatchGoesOn(a) ==
  \/ \E hasAdapter \in BOOLEAN : PermissionAllowed(a, hasAdapter)
  \/ PermissionDenied(a)
  \/ PermissionThrows(a)
  \/ \E outcome \in Outcomes : AdapterEnds(a, outcome)
  \/ TimerFires(a)
  \/ CallerAborts(a)

Next ==
  \/ \E a \in Actions : DispatchBegins(a) \/ DispatchGoesOn(a)
  \/ Restart

Spec == Init /\ [][Next]_vars

\* Timers fire.  Adapters and the hook owe nothing.
Fairness == \A a \in Actions : WF_vars(TimerFires(a))
FairSpec == Spec /\ Fairness

-----------------------------------------------------------------------------
(* Properties *)

\* At most one of the actions that share an idempotency key reaches an adapter,
\* also when the first is still in flight, was denied, timed out or was lost in
\* a restart.
OneExecutionPerKey ==
  \A a, b \in Actions :
    /\ KeyOf[a] # NoKey /\ KeyOf[a] = KeyOf[b]
    /\ adapter[a] # None /\ adapter[b] # None
    => a = b

\* What the caller was told is what the row says, whatever came after.
AnswerMatchesRow ==
  \A a \in Actions :
    /\ answer[a] \in {"completed", "timeout", "denied"} => row[a] = answer[a]
    /\ answer[a] = "failed" => row[a] \in {"failed", None}
    /\ answer[a] = "duplicate" => row[a] \in {"duplicate", "created"}
    /\ answer[a] = "thrown" => row[a] \in {"created", None}

\* A duplicate refers to an original, never to another duplicate, and never
\* reaches an adapter itself.
DuplicatesPointToOriginal ==
  \A a \in Actions :
    duplicateOf[a] # None => /\ duplicateOf[duplicateOf[a]] = None
                             /\ KeyOf[duplicateOf[a]] = KeyOf[a]
                             /\ adapter[a] = None

\* A duplicate write never gets the previous result back as its own.
WritesAreNotReplayed ==
  \A a \in Writes : answer[a] = "duplicate" => row[a] = "duplicate"

\* An adapter that outlives its dispatch has seen an aborted signal.
StragglersAreSignalled ==
  \A a \in Actions : pc[a] = "answered" /\ adapter[a] = "running" => a \in signalled

\* A row that reached an outcome keeps it: not a late adapter, not the sweep of
\* a later start changes it.
FinalStatusKept ==
  [][\A a \in Actions : row[a] \in Terminal => row'[a] = row[a]]_vars

\* Unless the process restarts, a dispatch that reached its adapter is answered,
\* whatever the adapter does.
ExecutingIsAnswered ==
  \A a \in Actions :
    pc[a] = "executing" /\ restarts = MaxRestarts ~> pc[a] = "answered"

-----------------------------------------------------------------------------
(* What a test says of the program and the store does not allow *)

\* "should return previous result for duplicate idempotencyKey": a dispatch whose
\* key another action has is answered with status 'duplicate' or 'failed'.
DuplicateIsAnswered ==
  \A a \in Actions : KeyOf[a] # NoKey /\ first[KeyOf[a]] # a => answer[a] # "thrown"
=============================================================================
