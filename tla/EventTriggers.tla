---------------------------- MODULE EventTriggers ----------------------------
(***************************************************************************)
(* Schedule and event triggers of the event trigger runtime: registrations *)
(* with a budget of firings, the evaluation of what is due, and events     *)
(* from webhooks, connectors and MCP servers that may be delivered again.  *)
(*                                                                         *)
(* An evaluation or a delivery is one synchronous pass over the active     *)
(* triggers, so nothing comes between its steps but the end of the process *)
(* (PassBreaks), which may fall between any two of a trigger's writes.     *)
(* Rows survive it; the cache of firings and the pass do not.              *)
(***************************************************************************)
EXTENDS Naturals, Sequences, FiniteSets

CONSTANTS
  Schedules, Kind,    \* schedule triggers: "interval", "once" (a time) or "cron"
  Interval, Times,    \* intervalMs; the times a schedule asks for (the first one of an interval)
  ExpiresAt,          \* expiresAt (Never: none)
  Listeners,          \* triggers on events
  MaxFires,           \* maxTriggers (0: none)
  Events,             \* deliveries with an id of their own
  MaxTime, MaxCrashes \* bounds

AllTriggers == Schedules \cup Listeners
Never == MaxTime + 1

ASSUME TriggersAssumption ==
  /\ MaxTime \in Nat /\ MaxCrashes \in Nat /\ MaxFires \in [AllTriggers -> Nat]
  /\ Kind \in [Schedules -> {"interval", "once", "cron"}] /\ Interval \in [Schedules -> Nat \ {0}]
  /\ Times \in [Schedules -> SUBSET Nat] /\ \A t \in Schedules : Times[t] # {}
  /\ ExpiresAt \in [Schedules -> 0..Never]
  /\ Schedules \cap Listeners = {} /\ {"none", "schedule"} \cap Events = {}

VARIABLES
  now,
  trig,       \* registrations: status, triggerCount, nextRunAt
  fired,      \* the due times of the resume actions of each schedule, in order
  cache,      \* firedTriggerCache: <<trigger, due time>>
  eventRows,  \* stored trigger events with a deterministic id: <<event, listener>>
  resumed,    \* resume actions of listeners: <<event, listener>>
  heard,      \* what a delivery that returned had matched: <<event, listener>>
  pass,       \* the pass under way: what it is for and the triggers left
  crashes

triggerVars == <<trig, fired, cache, eventRows, resumed, heard, pass, crashes>>

NoPass == [for |-> "none", matched |-> {}, todo |-> {}]
FirstTime(t) == CHOOSE d \in Times[t] : \A e \in Times[t] : d <= e
Active == {t \in AllTriggers : trig[t].status = "active"}

TriggersTypeOK ==
  /\ now \in 0..MaxTime /\ crashes \in 0..MaxCrashes
  /\ \A t \in AllTriggers : trig[t].status \in {"none", "active", "completed", "expired"} /\ trig[t].count \in Nat
  /\ \A t \in Schedules : \A k \in DOMAIN fired[t] : fired[t][k] <= now
  /\ eventRows \cup resumed \cup heard \subseteq Events \X Listeners
  /\ pass.for \in {"none", "schedule"} \cup Events /\ pass.todo \subseteq pass.matched /\ pass.matched \subseteq AllTriggers

\* The triggers of cast are registered.
TriggersInit(cast) ==
  /\ now = 0 /\ cache = {} /\ eventRows = {} /\ resumed = {} /\ heard = {} /\ pass = NoPass /\ crashes = 0
  /\ fired = [t \in Schedules |-> <<>>]
  /\ trig = [t \in AllTriggers |-> [status |-> IF t \in cast THEN "active" ELSE "none", count |-> 0,
                                    next |-> IF t \in Schedules THEN FirstTime(t) ELSE 0]]

-----------------------------------------------------------------------------
(* A pass.                                                                 *)

StartPass(what, triggers) ==
  /\ pass = NoPass /\ triggers # {}
  /\ pass' = [for |-> what, matched |-> triggers, todo |-> triggers]
  /\ UNCHANGED <<now, trig, fired, cache, eventRows, resumed, heard, crashes>>

EvaluateScheduleTriggers == StartPass("schedule", Active \cap Schedules)

\* fireEventTriggers for an event, also one that was delivered before.
HandleEvent(e) == StartPass(e, Active \cap Listeners)

\* The pass goes on behind t, or returns.
Advance(t) ==
  IF pass.todo = {t}
  THEN /\ pass' = NoPass
       /\ heard' = IF pass.for \in Events THEN heard \cup ({pass.for} \X pass.matched) ELSE heard
  ELSE pass' = [pass EXCEPT !.todo = @ \ {t}] /\ UNCHANGED heard

-----------------------------------------------------------------------------
(* Schedules.                                                              *)

\* getScheduleDueInfo and isDue.  The due time of a cron or of a single time is its
\* pattern, and with the trigger's id the key of the cache: a cron fires once in the
\* life of a process, however often its pattern matches.
Due(t) ==
  \/ Kind[t] = "interval" /\ trig[t].next <= now
  \/ Kind[t] = "once" /\ FirstTime(t) <= now
  \/ Kind[t] = "cron" /\ now \in Times[t]
DueAt(t) == IF Kind[t] = "interval" THEN trig[t].next ELSE FirstTime(t)

\* incrementTriggerCount: the count and the end of the budget in one write.
Counted(r, t) ==
  [r EXCEPT !.count = @ + 1, !.status = IF MaxFires[t] > 0 /\ r.count + 1 >= MaxFires[t] THEN "completed" ELSE @]

\* Mutant: an interval that fell behind skips to the future.
FaultyRescheduled(r, t) ==
  IF r.status = "active" /\ Kind[t] = "interval" THEN [r EXCEPT !.next = now + Interval[t]] ELSE r

\* One interval behind the due time, however late the evaluation.
Rescheduled(r, t) ==
  IF r.status = "active" /\ Kind[t] = "interval" THEN [r EXCEPT !.next = @ + Interval[t]] ELSE r

\* The first n writes of a firing: the action, the count, nextRunAt.
FireWrites(t, n) ==
  /\ fired' = IF n >= 1 THEN [fired EXCEPT ![t] = Append(@, DueAt(t))] ELSE fired
  /\ trig' = [trig EXCEPT ![t] = IF n = 3 THEN Rescheduled(Counted(@, t), t) ELSE IF n = 2 THEN Counted(@, t) ELSE @]

Fires(t) == ExpiresAt[t] > now /\ Due(t) /\ <<t, DueAt(t)>> \notin cache

ScheduleFires(t) ==
  /\ pass.for = "schedule" /\ t \in pass.todo /\ Fires(t)
  /\ FireWrites(t, 3) /\ cache' = cache \cup {<<t, DueAt(t)>>}
  /\ Advance(t)
  /\ UNCHANGED <<now, eventRows, resumed, crashes>>

\* Expired, not due, or answered from the cache.
ScheduleRests(t) ==
  /\ pass.for = "schedule" /\ t \in pass.todo /\ ~Fires(t)
  /\ trig' = IF ExpiresAt[t] <= now THEN [trig EXCEPT ![t].status = "expired"] ELSE trig
  /\ Advance(t)
  /\ UNCHANGED <<now, fired, cache, eventRows, resumed, crashes>>

-----------------------------------------------------------------------------
(* Events.                                                                 *)

\* The first n writes: the event, the action, the count.
ListenerWrites(e, t, n) ==
  /\ eventRows' = IF n >= 1 THEN eventRows \cup {<<e, t>>} ELSE eventRows
  /\ resumed' = IF n >= 2 THEN resumed \cup {<<e, t>>} ELSE resumed
  /\ trig' = IF n >= 3 THEN [trig EXCEPT ![t] = Counted(@, t)] ELSE trig

ListenerFires(t) ==
  /\ pass.for \in Events /\ t \in pass.todo /\ <<pass.for, t>> \notin eventRows \cup resumed
  /\ ListenerWrites(pass.for, t, 3)
  /\ Advance(t)
  /\ UNCHANGED <<now, fired, cache, crashes>>

\* Mutant: a stored event counts as handled.
FaultyHandled(e, t) == <<e, t>> \in eventRows

\* The action of this event and trigger exists.
Handled(e, t) == <<e, t>> \in resumed

ListenerSkips(t) ==
  /\ pass.for \in Events /\ t \in pass.todo /\ Handled(pass.for, t)
  /\ Advance(t)
  /\ UNCHANGED <<now, trig, fired, cache, eventRows, resumed, crashes>>

\* The id of the event is taken but there is no action: append throws, and the
\* triggers behind this one are not looked at.
ListenerThrows(t) ==
  /\ pass.for \in Events /\ t \in pass.todo /\ <<pass.for, t>> \in eventRows /\ ~Handled(pass.for, t)
  /\ pass' = NoPass
  /\ UNCHANGED <<now, trig, fired, cache, eventRows, resumed, heard, crashes>>

-----------------------------------------------------------------------------
(* The end of the process inside a firing.                                 *)

Forget ==
  /\ crashes < MaxCrashes /\ crashes' = crashes + 1
  /\ cache' = {} /\ pass' = NoPass

PassBreaks(t, n) ==
  /\ Forget
  /\ \/ pass.for = "schedule" /\ t \in pass.todo /\ Fires(t) /\ FireWrites(t, n)
        /\ UNCHANGED <<eventRows, resumed>>
     \/ pass.for \in Events /\ t \in pass.todo /\ <<pass.for, t>> \notin eventRows /\ ListenerWrites(pass.for, t, n)
        /\ UNCHANGED fired
  /\ UNCHANGED <<now, heard>>

\* The process ends between two passes.
TriggersRestart ==
  /\ pass = NoPass /\ Forget
  /\ UNCHANGED <<trig, fired, eventRows, resumed, heard>>

TriggersNext ==
  \/ EvaluateScheduleTriggers
  \/ \E e \in Events : HandleEvent(e)
  \/ \E t \in Schedules : ScheduleFires(t) \/ ScheduleRests(t)
  \/ \E t \in Listeners : ListenerFires(t) \/ ListenerSkips(t) \/ ListenerThrows(t)

-----------------------------------------------------------------------------
(* Properties.                                                             *)

FiringsFor(t, d) == {k \in DOMAIN fired[t] : fired[t][k] = d}
AskedTimes(t) == IF Kind[t] = "interval" THEN {d \in 0..MaxTime : \E k \in 0..MaxTime : d = FirstTime(t) + k * Interval[t]}
                 ELSE {FirstTime(t)}

\* Every due time of an interval before its nextRunAt was fired, and it fired for its
\* own times only.  No due time, be it of an interval or the one that a cron or a
\* single time has, was fired more often than once and once per end of the process,
\* and a budget is overdrawn at most by what such ends lost of the count.
ScheduleFirings ==
  \A t \in Schedules :
    /\ \A d \in AskedTimes(t) :
         /\ Cardinality(FiringsFor(t, d)) <= 1 + crashes
         /\ Kind[t] = "interval" /\ d < trig[t].next => FiringsFor(t, d) # {}
    /\ \A k \in DOMAIN fired[t] : fired[t][k] \in AskedTimes(t)
    /\ trig[t].count <= Len(fired[t]) /\ Len(fired[t]) <= trig[t].count + crashes
    /\ MaxFires[t] > 0 => Len(fired[t]) <= MaxFires[t] + crashes

ResumedFor(t) == {e \in Events : <<e, t>> \in resumed}

\* A delivery that returned has resumed the target of every trigger it matched,
\* first or repeated, before or after an end of the process, and a trigger has
\* counted what it resumed up to what such ends lost.
EventFirings ==
  /\ heard \subseteq resumed
  /\ \A t \in Listeners :
       /\ trig[t].count <= Cardinality(ResumedFor(t)) /\ Cardinality(ResumedFor(t)) <= trig[t].count + crashes
       /\ MaxFires[t] > 0 => Cardinality(ResumedFor(t)) <= MaxFires[t] + crashes
=============================================================================
