--------------------------- MODULE WaitConditions ---------------------------
(***************************************************************************)
(* Wait conditions beside the triggers of EventTriggers: registered by the *)
(* trigger runtime, by the async integration or by the connector event     *)
(* bridge for an operation of a connector, and ended by the runtime's scan *)
(* for timeouts or by the operation's events, which may be delivered late, *)
(* twice, or after a restart has emptied the maps of tracked operations.   *)
(*                                                                         *)
(* The scan gives its evaluator nothing but the time, so it satisfies no   *)
(* condition; it only times conditions out.                                *)
(***************************************************************************)
EXTENDS EventTriggers

CONSTANTS
  Waits, Owner,  \* conditions and who registers them: "runtime", "bridge" or "async"
  TimeoutAt,     \* timeoutAt (Never: none)
  Stamps,        \* timestamps of operation events
  Casts          \* which triggers and conditions take part

ASSUME WaitsAssumption ==
  /\ Owner \in [Waits -> {"runtime", "bridge", "async"}] /\ TimeoutAt \in [Waits -> 0..Never]
  /\ \A w \in Waits : Owner[w] = "async" => TimeoutAt[w] = Never
  /\ Casts \subseteq SUBSET (AllTriggers \cup Waits)

VARIABLES
  wait,     \* status of each row ("absent": not in the cast, "none": no row yet)
  resumes,  \* the outcomes its resume actions were created for, in order
  tracked,  \* operationIndex and trackedOperations
  handled,  \* handledEvents of the async integration
  torn      \* conditions marked by a process that ended before it saved the action

waitVars == <<wait, resumes, tracked, handled, torn>>
vars == <<now, triggerVars, waitVars>>

Outcomes == {"satisfied", "failed", "timeout", "cancelled"}
Open(w) == wait[w] \in {"active", "registered"}

TypeOK ==
  /\ TriggersTypeOK
  /\ wait \in [Waits -> {"absent", "none", "registered", "active"} \cup Outcomes]
  /\ resumes \in [Waits -> Seq(Outcomes)] /\ tracked \cup torn \subseteq Waits
  /\ handled \subseteq Waits \X Outcomes \X Stamps

Init ==
  \E cast \in Casts :
    /\ TriggersInit(cast)
    /\ wait = [w \in Waits |-> IF w \in cast THEN "none" ELSE "absent"]
    /\ resumes = [w \in Waits |-> <<>>] /\ tracked = {} /\ handled = {} /\ torn = {}

-----------------------------------------------------------------------------

Created(w, status) == wait[w] = "none" /\ wait' = [wait EXCEPT ![w] = status] /\ UNCHANGED <<resumes, handled, torn>>

RegisterWaitCondition(w) ==
  /\ Owner[w] = "runtime" /\ Created(w, IF TimeoutAt[w] = Never THEN "registered" ELSE "active")
  /\ UNCHANGED tracked

TrackAsyncOperation(w) == Owner[w] = "bridge" /\ Created(w, "active") /\ tracked' = tracked \cup {w}
RegisterWaitForOperation(w) == Owner[w] = "async" /\ Created(w, "active") /\ tracked' = tracked \cup {w}

Resume(set, outcome) == resumes' = [w \in Waits |-> IF w \in set THEN Append(resumes[w], outcome) ELSE resumes[w]]
Mark(set, outcome) == wait' = [w \in Waits |-> IF w \in set THEN outcome ELSE wait[w]]

\* findExpired.
Expired == {w \in Waits : Open(w) /\ TimeoutAt[w] < now}

\* The tracked operation of a bridge stays in its index.
EvaluateWaitConditions ==
  /\ Expired # {}
  /\ Mark(Expired, "timeout") /\ Resume(Expired, "timeout")
  /\ UNCHANGED <<tracked, handled, torn>>

\* Mutant: the bridge does not look at the row.
FaultyBridgeTakes(w) == w \in tracked

BridgeTakes(w) == w \in tracked /\ Open(w)

\* handleConnectorEvent, handleTimeout and handleCancellation of the bridge.
BridgeEvent(w, outcome) ==
  /\ Owner[w] = "bridge" /\ BridgeTakes(w)
  /\ Mark({w}, outcome) /\ Resume({w}, outcome)
  /\ tracked' = tracked \ {w}
  /\ UNCHANGED <<handled, torn>>

\* A tracked operation whatever its row says, an unknown one while it is active.
AsyncTakes(w, outcome, stamp) ==
  /\ Owner[w] = "async" /\ outcome # "cancelled" /\ <<w, outcome, stamp>> \notin handled
  /\ w \in tracked \/ wait[w] = "active"

\* Mutant: the key of the action is the operation's.
FaultyHasAction(w, outcome) == resumes[w] # <<>>

\* findByIdempotencyKey(async:<operation>:<event type>).
HasAction(w, outcome) == \E k \in DOMAIN resumes[w] : resumes[w][k] = outcome

\* handleOperationEvent.  The code marks the condition by the event's status and keys
\* the action by its eventType; both are outcome here, as every test sends them,
\* although the types let them differ.  Operation ids of different owners differ
\* here, too: the lookup of an untracked operation takes any active condition whose
\* pattern is the id.
AsyncEvent(w, outcome, stamp) ==
  /\ AsyncTakes(w, outcome, stamp)
  /\ Mark({w}, outcome) /\ handled' = handled \cup {<<w, outcome, stamp>>}
  /\ Resume(IF HasAction(w, outcome) THEN {} ELSE {w}, outcome)
  /\ UNCHANGED <<tracked, torn>>

-----------------------------------------------------------------------------
(* The end of the process.                                                 *)

ForgetWaits == tracked' = {} /\ handled' = {}

\* Some of the expired conditions were done and one was only marked.
ScanBreaks ==
  \E done \in SUBSET Expired : \E w \in Expired \ done :
    /\ Mark(done \cup {w}, "timeout") /\ Resume(done, "timeout")
    /\ torn' = torn \cup {w} /\ ForgetWaits

\* The condition was marked, its action is missing.
EventBreaks(w, outcome) ==
  /\ \/ Owner[w] = "bridge" /\ BridgeTakes(w)
     \/ \E stamp \in Stamps : AsyncTakes(w, outcome, stamp)
  /\ Mark({w}, outcome) /\ torn' = torn \cup {w} /\ ForgetWaits
  /\ UNCHANGED resumes

\* A pass over the triggers and the handlers of waits are synchronous.
WaitsNext ==
  \/ EvaluateWaitConditions
  \/ \E w \in Waits : \/ RegisterWaitCondition(w) \/ TrackAsyncOperation(w) \/ RegisterWaitForOperation(w)
                      \/ \E outcome \in Outcomes : BridgeEvent(w, outcome)
                      \/ \E outcome \in Outcomes, stamp \in Stamps : AsyncEvent(w, outcome, stamp)

WaitsBreak == ScanBreaks \/ \E w \in Waits, outcome \in Outcomes : EventBreaks(w, outcome)

Tick == now < MaxTime /\ pass = NoPass /\ now' = now + 1 /\ UNCHANGED <<triggerVars, waitVars>>

Next ==
  \/ TriggersNext /\ UNCHANGED waitVars
  \/ pass = NoPass /\ WaitsNext /\ UNCHANGED <<now, triggerVars>>
  \/ \E t \in AllTriggers, n \in 0..3 : PassBreaks(t, n) /\ ForgetWaits /\ UNCHANGED <<wait, resumes, torn>>
  \/ TriggersRestart /\ WaitsBreak /\ UNCHANGED now
  \/ TriggersRestart /\ ForgetWaits /\ UNCHANGED <<now, wait, resumes, torn>>
  \/ Tick

Spec == Init /\ [][Next]_vars

-----------------------------------------------------------------------------
(* Properties.                                                             *)

\* A condition of the runtime or the bridge is resumed once at most, and its row
\* still shows the outcome its target was resumed with: a late, repeated or
\* contradicting event, or one that races the timeout scan, changes nothing.
WaitResumedOnce ==
  /\ TypeOK
  /\ \A w \in Waits : Owner[w] # "async" /\ resumes[w] # <<>> => Len(resumes[w]) = 1 /\ wait[w] = resumes[w][1]

\* The target of an ended condition has a resume action for the outcome in the
\* row, also when an event overwrites an earlier outcome, unless the process
\* ended right between the two writes.
EndedWaitIsResumed ==
  \A w \in Waits : wait[w] \in Outcomes /\ w \notin torn => \E k \in DOMAIN resumes[w] : resumes[w][k] = wait[w]
=============================================================================
