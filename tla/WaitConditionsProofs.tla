------------------------ MODULE WaitConditionsProofs ------------------------
(***************************************************************************)
(* Proofs about WaitConditions and EventTriggers, for any triggers, events *)
(* and wait conditions, any times and any number of ends of the process.   *)
(*                                                                         *)
(* The firings of a schedule need three more facts than the property says: *)
(* the due times that are in the cache were fired at most once more than   *)
(* the process ended, the others at most as often as it ended; nextRunAt   *)
(* is a time the interval asks for; an active trigger has budget left.     *)
(* Those of a listener need that a stored action has its stored event, and *)
(* that a pass has resumed what it matched and left behind.                *)
(***************************************************************************)
EXTENDS WaitConditions, SequenceTheorems, FiniteSetTheorems, WellFoundedInduction, TLAPS

-----------------------------------------------------------------------------
(* The invariant *)

Registration == [status : {"none", "active", "completed", "expired"}, count : Nat, next : Nat]

\* The types a step relies on.
TriggersTypes ==
  /\ now \in 0..MaxTime /\ crashes \in 0..MaxCrashes
  /\ trig \in [AllTriggers -> Registration]
  /\ fired \in [Schedules -> Seq(Nat)]
  /\ eventRows \cup resumed \cup heard \subseteq Events \X Listeners
  /\ pass \in [for : {"none", "schedule"} \cup Events, matched : SUBSET AllTriggers, todo : SUBSET AllTriggers]

FiredInTime == \A t \in Schedules : \A k \in 1..Len(fired[t]) : fired[t][k] <= now

\* A pass looks at active triggers of its kind and has resumed what it left behind.
PassInv ==
  /\ pass.todo \subseteq pass.matched /\ pass.todo \subseteq Active
  /\ pass.for = "schedule" => pass.matched \subseteq Schedules
  /\ pass.for \in Events => pass.matched \subseteq Listeners
  /\ pass.for \in Events => \A t \in pass.matched \ pass.todo : <<pass.for, t>> \in resumed
  /\ heard \subseteq resumed /\ resumed \subseteq eventRows

BudgetInv ==
  \A t \in AllTriggers :
    MaxFires[t] > 0 => trig[t].count <= MaxFires[t] /\ (trig[t].status = "active" => trig[t].count < MaxFires[t])

\* What a trigger counted and what it did, of which there are n.
CountTells(t, n) == trig[t].count <= n /\ n <= trig[t].count + crashes

ListenerInv ==
  \A t \in Listeners : IsFiniteSet(ResumedFor(t)) /\ CountTells(t, Cardinality(ResumedFor(t)))

\* The times an interval asks for, without the bound of the clock.
Grid(t) == {d \in Nat : \E k \in Nat : d = FirstTime(t) + k * Interval[t]}

\* What a schedule fired, how often, and what it skipped.
FiringsOf(t) ==
  /\ CountTells(t, Len(fired[t]))
  /\ \A d \in Nat : LET n == Cardinality(FiringsFor(t, d)) IN n <= crashes + 1 /\ (<<t, d>> \in cache \/ n <= crashes)
  /\ Kind[t] = "interval" => trig[t].next \in Grid(t)
  /\ Kind[t] = "interval" => \A d \in Grid(t) : d < trig[t].next => FiringsFor(t, d) # {}
  /\ \A k \in 1..Len(fired[t]) :
       IF Kind[t] = "interval" THEN fired[t][k] \in Grid(t) ELSE fired[t][k] = FirstTime(t)

ScheduleInv == \A t \in Schedules : FiringsOf(t)

TriggersInv == TriggersTypes /\ FiredInTime /\ PassInv /\ BudgetInv /\ ListenerInv /\ ScheduleInv

WaitTypes ==
  /\ wait \in [Waits -> {"absent", "none", "registered", "active"} \cup Outcomes]
  /\ resumes \in [Waits -> Seq(Outcomes)] /\ tracked \subseteq Waits /\ torn \subseteq Waits
  /\ handled \subseteq Waits \X Outcomes \X Stamps

ResumedOnce ==
  \A w \in Waits : Owner[w] # "async" /\ resumes[w] # <<>> => Len(resumes[w]) = 1 /\ wait[w] = resumes[w][1]

WaitsInv == WaitTypes /\ ResumedOnce /\ EndedWaitIsResumed

-----------------------------------------------------------------------------
(* Times *)

\* The first time of a schedule.
LEMMA FirstTimeProperties ==
  ASSUME NEW t \in Schedules
  PROVE  FirstTime(t) \in Nat /\ FirstTime(t) \in Times[t] /\ \A e \in Times[t] : FirstTime(t) <= e
<1>1. Times[t] \subseteq Nat /\ Times[t] # {}
  BY TriggersAssumption
<1>2. \E x \in Times[t] : \A y \in Times[t] : <<y, x>> \notin OpToRel(<, Nat)
  BY <1>1, WFMin, NatLessThanWellFounded
<1>3. PICK x \in Times[t] : \A y \in Times[t] : ~ (y < x)
  BY <1>1, <1>2 DEF OpToRel
<1>4. \A y \in Times[t] : x <= y
  BY <1>1, <1>3
<1> QED BY <1>1, <1>4 DEF FirstTime

\* Multiples keep their order.
LEMMA Multiples ==
  ASSUME NEW i \in Nat \ {0}, NEW k \in Nat, NEW m \in Nat
  PROVE  /\ k * i \in Nat /\ (m + 1) * i = m * i + i /\ k <= k * i
         /\ k * i < m * i + i => k * i <= m * i
<1>1. k * i \in Nat /\ (m + 1) * i = m * i + i /\ k <= k * i
  OBVIOUS
<1>2. ASSUME k > m PROVE k * i >= (m + 1) * i
  BY <1>2
<1>3. ASSUME k <= m PROVE k * i <= m * i
  BY <1>3
<1> QED BY <1>1, <1>2, <1>3

\* Rescheduling by one interval stays on the grid and skips nothing.
LEMMA GridStep ==
  ASSUME NEW t \in Schedules, NEW n \in Grid(t)
  PROVE  /\ n + Interval[t] \in Grid(t)
         /\ \A d \in Grid(t) : d < n + Interval[t] => d <= n
<1>1. FirstTime(t) \in Nat /\ Interval[t] \in Nat \ {0}
  BY FirstTimeProperties, TriggersAssumption
<1>2. PICK m \in Nat : n = FirstTime(t) + m * Interval[t]
  BY DEF Grid
<1>3. n + Interval[t] \in Grid(t)
  <2>1. m * Interval[t] \in Nat /\ (m + 1) * Interval[t] = m * Interval[t] + Interval[t]
    BY <1>1, Multiples
  <2>2. n + Interval[t] = FirstTime(t) + (m + 1) * Interval[t] /\ m + 1 \in Nat
    BY <1>1, <1>2, <2>1
  <2>3. n + Interval[t] \in Nat
    BY <1>1, <1>2, <2>1
  <2> QED BY <2>2, <2>3 DEF Grid
<1>4. ASSUME NEW d \in Grid(t), d < n + Interval[t] PROVE d <= n
  <2>1. PICK k \in Nat : d = FirstTime(t) + k * Interval[t]
    BY DEF Grid
  <2>2. k * Interval[t] \in Nat /\ m * Interval[t] \in Nat
        /\ (k * Interval[t] < m * Interval[t] + Interval[t] => k * Interval[t] <= m * Interval[t])
    BY <1>1, Multiples
  <2> QED BY <1>1, <1>2, <1>4, <2>1, <2>2
<1> QED BY <1>3, <1>4

\* The times asked for are those of the grid that the clock reaches.
LEMMA AskedProperties ==
  ASSUME NEW t \in Schedules
  PROVE  IF Kind[t] = "interval" THEN AskedTimes(t) = Grid(t) \cap 0..MaxTime ELSE AskedTimes(t) = {FirstTime(t)}
<1>1. CASE Kind[t] = "interval"
  <2>1. FirstTime(t) \in Nat /\ Interval[t] \in Nat \ {0} /\ MaxTime \in Nat
    BY FirstTimeProperties, TriggersAssumption
  <2>2. ASSUME NEW k \in Nat, FirstTime(t) + k * Interval[t] \in 0..MaxTime PROVE k \in 0..MaxTime
    <3>1. k <= k * Interval[t] /\ k * Interval[t] \in Nat
      BY <2>1, Multiples
    <3> QED BY <2>1, <2>2, <3>1
  <2>3. AskedTimes(t) = {d \in 0..MaxTime : \E k \in 0..MaxTime : d = FirstTime(t) + k * Interval[t]}
    BY <1>1 DEF AskedTimes
  <2> QED BY <1>1, <2>1, <2>2, <2>3 DEF Grid
<1>2. CASE Kind[t] # "interval"
  BY <1>2 DEF AskedTimes
<1> QED BY <1>1, <1>2

\* What a schedule that fires is due for.
LEMMA DueProperties ==
  ASSUME TriggersTypes, NEW t \in Schedules, Fires(t)
  PROVE  /\ DueAt(t) \in Nat /\ DueAt(t) <= now
         /\ DueAt(t) = IF Kind[t] = "interval" THEN trig[t].next ELSE FirstTime(t)
<1>1. FirstTime(t) \in Nat /\ (now \in Times[t] => FirstTime(t) <= now) /\ trig[t].next \in Nat
  BY FirstTimeProperties DEF TriggersTypes, Registration, AllTriggers
<1> QED BY <1>1 DEF Fires, Due, DueAt

\* A firing more.
LEMMA FiringsAppend ==
  ASSUME NEW t \in Schedules, fired[t] \in Seq(Nat), NEW e \in Nat, fired'[t] = Append(fired[t], e), NEW d \in Nat
  PROVE  /\ FiringsFor(t, d)' = IF d = e THEN FiringsFor(t, d) \cup {Len(fired[t]) + 1} ELSE FiringsFor(t, d)
         /\ IsFiniteSet(FiringsFor(t, d)) /\ Cardinality(FiringsFor(t, d)) \in Nat
         /\ Cardinality(FiringsFor(t, d)') = Cardinality(FiringsFor(t, d)) + (IF d = e THEN 1 ELSE 0)
<1> DEFINE s == fired[t]  a == fired'[t]
<1>1. /\ DOMAIN s = 1..Len(s) /\ DOMAIN a = 1..(Len(s) + 1) /\ Len(s) \in Nat
      /\ \A i \in 1..Len(s) : a[i] = s[i]
      /\ a[Len(s) + 1] = e
  <2>1. s \in Seq(Nat) /\ a = Append(s, e)
    OBVIOUS
  <2> HIDE DEF s, a
  <2>2. a \in Seq(Nat) /\ Len(a) = Len(s) + 1
    BY <2>1, AppendProperties
  <2> QED BY <2>1, <2>2, AppendProperties, LenProperties
<1>2. FiringsFor(t, d)' = {k \in DOMAIN a : a[k] = d} /\ FiringsFor(t, d) = {k \in DOMAIN s : s[k] = d}
  BY DEF FiringsFor
<1> HIDE DEF s, a
<1>3. FiringsFor(t, d)' = IF d = e THEN FiringsFor(t, d) \cup {Len(s) + 1} ELSE FiringsFor(t, d)
  BY <1>1, <1>2
<1>4. FiringsFor(t, d) \subseteq 1..Len(s) /\ Len(s) + 1 \notin FiringsFor(t, d)
  BY <1>1, <1>2
<1>5. IsFiniteSet(FiringsFor(t, d))
  <2>1. 1 \in Int /\ Len(s) \in Int
    BY <1>1
  <2>2. IsFiniteSet(1..Len(s))
    BY <2>1, FS_Interval
  <2> QED BY <1>4, <2>2, FS_Subset
<1>6. Cardinality(FiringsFor(t, d)) \in Nat
        /\ Cardinality(FiringsFor(t, d) \cup {Len(s) + 1}) = Cardinality(FiringsFor(t, d)) + 1
  BY <1>4, <1>5, FS_CardinalityType, FS_AddElement
<1> QED BY <1>3, <1>5, <1>6 DEF s

-----------------------------------------------------------------------------
(* What a step does to the triggers *)

\* Schedule t, due, writes the first n of its three writes.
Firing(t, n) ==
  /\ t \in Schedules /\ n \in 0..3 /\ Fires(t) /\ FireWrites(t, n)
  /\ trig[t].status = "active"
  /\ UNCHANGED <<now, eventRows, resumed>>

\* Listener t writes the first n of its three writes for event e.
Hearing(e, t, n) ==
  /\ e \in Events /\ t \in Listeners /\ n \in 0..3 /\ <<e, t>> \notin eventRows /\ ListenerWrites(e, t, n)
  /\ trig[t].status = "active"
  /\ UNCHANGED <<now, fired>>

FireStep == \E t \in Schedules : Firing(t, 3) /\ cache' = cache \cup {<<t, DueAt(t)>>} /\ UNCHANGED crashes

HearStep == \E e \in Events, t \in Listeners : Hearing(e, t, 3) /\ UNCHANGED <<cache, crashes>>

ExpireStep ==
  \E t \in Schedules : /\ trig' = [trig EXCEPT ![t].status = "expired"]
                       /\ UNCHANGED <<now, fired, cache, eventRows, resumed, crashes>>

BreakStep ==
  /\ crashes < MaxCrashes /\ crashes' = crashes + 1 /\ cache' = {}
  /\ \/ \E t \in Schedules, n \in 0..3 : Firing(t, n)
     \/ \E e \in Events, t \in Listeners, n \in 0..3 : Hearing(e, t, n)
     \/ UNCHANGED <<now, trig, fired, eventRows, resumed>>

QuietStep == now' \in now..MaxTime /\ UNCHANGED <<trig, fired, cache, eventRows, resumed, crashes>>

Step == FireStep \/ HearStep \/ ExpireStep \/ BreakStep \/ QuietStep

\* Every step of the system is one of these.
LEMMA StepShape ==
  ASSUME TriggersTypes, PassInv, [Next]_vars
  PROVE  Step
<1>0. /\ now \in Nat /\ MaxTime \in Nat /\ now <= MaxTime
      /\ \A t \in pass.todo : trig[t].status = "active" /\ t \in AllTriggers
      /\ pass.for = "schedule" => pass.todo \subseteq Schedules
      /\ pass.for \in Events => pass.todo \subseteq Listeners
      /\ resumed \subseteq eventRows
  BY TriggersAssumption DEF TriggersTypes, PassInv, Active
<1>1. ASSUME UNCHANGED <<now, trig, fired, cache, eventRows, resumed, crashes>> PROVE Step
  BY <1>0, <1>1 DEF Step, QuietStep
<1>2. ASSUME NEW what, NEW triggers, StartPass(what, triggers) PROVE Step
  BY <1>1, <1>2 DEF StartPass
<1>3. ASSUME NEW t \in Schedules, ScheduleFires(t) PROVE Step
  <2>1. Firing(t, 3) /\ cache' = cache \cup {<<t, DueAt(t)>>} /\ UNCHANGED crashes
    BY <1>0, <1>3 DEF ScheduleFires, Firing
  <2> QED BY <2>1 DEF Step, FireStep
<1>4. ASSUME NEW t \in Schedules, ScheduleRests(t) PROVE Step
  <2>1. CASE ExpiresAt[t] <= now
    BY <1>4, <2>1 DEF ScheduleRests, Step, ExpireStep
  <2>2. CASE ~(ExpiresAt[t] <= now)
    BY <1>1, <1>4, <2>2 DEF ScheduleRests
  <2> QED BY <2>1, <2>2
<1>5. ASSUME NEW t \in Listeners, ListenerFires(t) PROVE Step
  <2>1. Hearing(pass.for, t, 3) /\ pass.for \in Events /\ UNCHANGED <<cache, crashes>>
    BY <1>0, <1>5 DEF ListenerFires, Hearing
  <2> QED BY <2>1 DEF Step, HearStep
<1>6. ASSUME NEW t \in Listeners, ListenerSkips(t) \/ ListenerThrows(t) PROVE Step
  BY <1>1, <1>6 DEF ListenerSkips, ListenerThrows
<1>7. ASSUME NEW t \in AllTriggers, NEW n \in 0..3, PassBreaks(t, n) PROVE Step
  <2>1. crashes < MaxCrashes /\ crashes' = crashes + 1 /\ cache' = {}
    BY <1>7 DEF PassBreaks, Forget
  <2>2. (t \in Schedules /\ Firing(t, n)) \/ (pass.for \in Events /\ t \in Listeners /\ Hearing(pass.for, t, n))
    BY <1>0, <1>7 DEF PassBreaks, Firing, Hearing
  <2> QED BY <2>1, <2>2 DEF Step, BreakStep
<1>8. ASSUME TriggersRestart, UNCHANGED now PROVE Step
  BY <1>8 DEF TriggersRestart, Forget, Step, BreakStep
<1>9. ASSUME Tick PROVE Step
  BY <1>0, <1>9 DEF Tick, triggerVars, Step, QuietStep
<1>10. ASSUME TriggersNext PROVE Step
  BY <1>2, <1>3, <1>4, <1>5, <1>6, <1>10 DEF TriggersNext, EvaluateScheduleTriggers, HandleEvent
<1> QED
  BY <1>1, <1>7, <1>8, <1>9, <1>10 DEF Next, vars, triggerVars

\* incrementTriggerCount.
LEMMA CountedProperties ==
  ASSUME NEW r \in Registration, NEW t \in AllTriggers
  PROVE  /\ Counted(r, t) \in Registration
         /\ Counted(r, t).count = r.count + 1 /\ Counted(r, t).next = r.next
         /\ Counted(r, t).status = IF MaxFires[t] > 0 /\ r.count + 1 >= MaxFires[t] THEN "completed" ELSE r.status
<1> DEFINE st == IF MaxFires[t] > 0 /\ r.count + 1 >= MaxFires[t] THEN "completed" ELSE r.status
<1>1. st \in {"none", "active", "completed", "expired"} /\ r.count + 1 \in Nat
  BY DEF Registration
<1>2. Counted(r, t) = [r EXCEPT !.count = r.count + 1, !.status = st]
  BY DEF Counted
<1> HIDE DEF st
<1>3. /\ Counted(r, t) \in Registration
      /\ Counted(r, t).count = r.count + 1 /\ Counted(r, t).next = r.next /\ Counted(r, t).status = st
  BY <1>1, <1>2 DEF Registration
<1> QED BY <1>3 DEF st

\* The row of a schedule after n writes, and its firings.
LEMMA FiringEffect ==
  ASSUME TriggersTypes, NEW t \in Schedules, NEW n \in 0..3, Firing(t, n)
  PROVE  /\ trig' \in [AllTriggers -> Registration] /\ fired' \in [Schedules -> Seq(Nat)]
         /\ \A q \in AllTriggers : q # t => trig'[q] = trig[q]
         /\ \A q \in Schedules : q # t => fired'[q] = fired[q]
         /\ fired'[t] = IF n >= 1 THEN Append(fired[t], DueAt(t)) ELSE fired[t]
         /\ trig'[t].count = trig[t].count + (IF n >= 2 THEN 1 ELSE 0)
         /\ trig'[t].status = IF n >= 2 /\ MaxFires[t] > 0 /\ trig[t].count + 1 >= MaxFires[t]
                              THEN "completed" ELSE trig[t].status
         /\ trig'[t].next = trig[t].next
                           + (IF n = 3 /\ trig'[t].status = "active" /\ Kind[t] = "interval" THEN Interval[t] ELSE 0)
<1>1. /\ t \in AllTriggers /\ trig[t] \in Registration /\ Interval[t] \in Nat /\ MaxFires[t] \in Nat
      /\ fired[t] \in Seq(Nat) /\ DueAt(t) \in Nat
  BY DueProperties, TriggersAssumption DEF TriggersTypes, AllTriggers, Firing
<1>2. /\ fired' = IF n >= 1 THEN [fired EXCEPT ![t] = Append(fired[t], DueAt(t))] ELSE fired
      /\ fired \in [Schedules -> Seq(Nat)]
  BY DEF Firing, FireWrites, TriggersTypes
<1>3. /\ fired' \in [Schedules -> Seq(Nat)]
      /\ \A q \in Schedules : q # t => fired'[q] = fired[q]
      /\ fired'[t] = IF n >= 1 THEN Append(fired[t], DueAt(t)) ELSE fired[t]
  <2>1. Append(fired[t], DueAt(t)) \in Seq(Nat)
    BY <1>1, AppendProperties
  <2> QED BY <1>2, <2>1
<1> DEFINE counted == Counted(trig[t], t)
           row == IF n = 3 THEN Rescheduled(counted, t) ELSE IF n = 2 THEN counted ELSE trig[t]
<1>4. /\ counted \in Registration /\ counted.count = trig[t].count + 1 /\ counted.next = trig[t].next
      /\ counted.status = IF MaxFires[t] > 0 /\ trig[t].count + 1 >= MaxFires[t] THEN "completed" ELSE trig[t].status
  BY <1>1, CountedProperties
<1>5. trig' = [trig EXCEPT ![t] = row] /\ trig \in [AllTriggers -> Registration]
  BY DEF Firing, FireWrites, TriggersTypes
<1> HIDE DEF counted
<1>6. /\ row \in Registration
      /\ row.count = trig[t].count + (IF n >= 2 THEN 1 ELSE 0)
      /\ row.status = IF n >= 2 THEN counted.status ELSE trig[t].status
      /\ row.next = trig[t].next + (IF n = 3 /\ row.status = "active" /\ Kind[t] = "interval" THEN Interval[t] ELSE 0)
  <2>1. CASE n = 3
    BY <1>1, <1>4, <2>1 DEF Rescheduled, Registration
  <2>2. CASE n # 3
    BY <1>1, <1>4, <2>2 DEF Registration
  <2> QED BY <2>1, <2>2
<1> HIDE DEF row
<1>7. trig' \in [AllTriggers -> Registration] /\ trig'[t] = row /\ \A q \in AllTriggers : q # t => trig'[q] = trig[q]
  BY <1>1, <1>5, <1>6
<1> QED BY <1>3, <1>4, <1>6, <1>7

\* The rows after n writes of a listener.
LEMMA HearingEffect ==
  ASSUME TriggersTypes, NEW e \in Events, NEW t \in Listeners, NEW n \in 0..3, Hearing(e, t, n)
  PROVE  /\ trig' \in [AllTriggers -> Registration]
         /\ \A q \in AllTriggers : q # t => trig'[q] = trig[q]
         /\ trig'[t].count = trig[t].count + (IF n = 3 THEN 1 ELSE 0)
         /\ trig'[t].status = IF n = 3 /\ MaxFires[t] > 0 /\ trig[t].count + 1 >= MaxFires[t]
                              THEN "completed" ELSE trig[t].status
         /\ eventRows' = IF n >= 1 THEN eventRows \cup {<<e, t>>} ELSE eventRows
         /\ resumed' = IF n >= 2 THEN resumed \cup {<<e, t>>} ELSE resumed
<1>1. t \in AllTriggers /\ trig[t] \in Registration /\ MaxFires[t] \in Nat /\ trig \in [AllTriggers -> Registration]
  BY TriggersAssumption DEF TriggersTypes, AllTriggers
<1>2. /\ eventRows' = IF n >= 1 THEN eventRows \cup {<<e, t>>} ELSE eventRows
      /\ resumed' = IF n >= 2 THEN resumed \cup {<<e, t>>} ELSE resumed
      /\ trig' = IF n = 3 THEN [trig EXCEPT ![t] = Counted(trig[t], t)] ELSE trig
  BY DEF Hearing, ListenerWrites
<1> DEFINE counted == Counted(trig[t], t)
<1>3. /\ counted \in Registration /\ counted.count = trig[t].count + 1
      /\ counted.status = IF MaxFires[t] > 0 /\ trig[t].count + 1 >= MaxFires[t] THEN "completed" ELSE trig[t].status
  BY <1>1, CountedProperties
<1> HIDE DEF counted
<1>4. CASE n = 3
  <2>1. trig' = [trig EXCEPT ![t] = counted]
    BY <1>2, <1>4 DEF counted
  <2>2. trig' \in [AllTriggers -> Registration] /\ trig'[t] = counted /\ \A q \in AllTriggers : q # t => trig'[q] = trig[q]
    BY <1>1, <1>3, <2>1
  <2> QED BY <1>2, <1>3, <1>4, <2>2
<1>5. CASE n # 3
  BY <1>1, <1>2, <1>5 DEF Registration
<1> QED BY <1>4, <1>5

-----------------------------------------------------------------------------
(* The invariant is kept *)

PassTypes == [for : {"none", "schedule"} \cup Events, matched : SUBSET AllTriggers, todo : SUBSET AllTriggers]

\* The pass goes on behind a trigger it has dealt with.
LEMMA AdvanceKeeps ==
  ASSUME TriggersTypes, PassInv, NEW t \in pass.todo, Advance(t),
         \A q \in AllTriggers : q # t => trig'[q] = trig[q],
         resumed \subseteq resumed', resumed' \subseteq eventRows',
         pass.for \in Events => <<pass.for, t>> \in resumed'
  PROVE  PassInv' /\ pass' \in PassTypes /\ heard' \subseteq Events \X Listeners
<1>0. /\ pass \in PassTypes /\ heard \subseteq Events \X Listeners /\ heard \subseteq resumed
      /\ pass.todo \subseteq pass.matched /\ pass.todo \subseteq Active
      /\ pass.for = "schedule" => pass.matched \subseteq Schedules
      /\ pass.for \in Events => pass.matched \subseteq Listeners
      /\ pass.for \in Events => \A q \in pass.matched \ pass.todo : <<pass.for, q>> \in resumed
  BY DEF TriggersTypes, PassInv, PassTypes
<1>1. CASE pass.todo = {t}
  <2>1. /\ pass' = NoPass
        /\ heard' = IF pass.for \in Events THEN heard \cup ({pass.for} \X pass.matched) ELSE heard
    BY <1>1 DEF Advance
  <2>2. pass'.for = "none" /\ pass'.todo = {} /\ pass'.matched = {} /\ pass' \in PassTypes
    BY <2>1 DEF NoPass, PassTypes
  <2>3. pass.for \in Events => {pass.for} \X pass.matched \subseteq resumed'
    BY <1>0, <1>1
  <2>4. heard' \subseteq resumed'
    BY <1>0, <2>1, <2>3
  <2>5. heard' \subseteq Events \X Listeners
    BY <1>0, <2>1
  <2> QED BY <2>2, <2>4, <2>5, TriggersAssumption DEF PassInv
<1>2. CASE pass.todo # {t}
  <2>1. pass' = [pass EXCEPT !.todo = pass.todo \ {t}] /\ heard' = heard
    BY <1>2 DEF Advance
  <2>2. /\ pass'.for = pass.for /\ pass'.matched = pass.matched /\ pass'.todo = pass.todo \ {t}
        /\ pass' \in PassTypes
    BY <1>0, <2>1 DEF PassTypes
  <2>3. pass'.todo \subseteq Active'
    BY <1>0, <2>2 DEF Active, PassTypes
  <2>4. pass.for \in Events => \A q \in pass'.matched \ pass'.todo : <<pass.for, q>> \in resumed'
    BY <1>0, <2>2
  <2> QED BY <1>0, <2>1, <2>2, <2>3, <2>4 DEF PassInv
<1> QED BY <1>1, <1>2

\* The pass ends without an answer, or there is none.
LEMMA NoPassKeeps ==
  ASSUME TriggersTypes, PassInv, pass' = NoPass, UNCHANGED heard,
         resumed \subseteq resumed', resumed' \subseteq eventRows'
  PROVE  PassInv' /\ pass' \in PassTypes /\ heard' \subseteq Events \X Listeners
<1>1. pass'.for = "none" /\ pass'.todo = {} /\ pass'.matched = {} /\ pass' \in PassTypes
  BY DEF NoPass, PassTypes
<1> QED BY <1>1, TriggersAssumption DEF PassInv, TriggersTypes

\* Every step keeps what is known of the pass under way.
LEMMA PassKeeps ==
  ASSUME TriggersTypes, PassInv, [Next]_vars
  PROVE  PassInv' /\ pass' \in PassTypes /\ heard' \subseteq Events \X Listeners
<1> DEFINE Goal == PassInv' /\ pass' \in PassTypes /\ heard' \subseteq Events \X Listeners
<1>0. /\ pass \in PassTypes /\ heard \subseteq Events \X Listeners /\ resumed \subseteq eventRows
      /\ \A t \in pass.todo : trig[t].status = "active" /\ t \in AllTriggers
      /\ pass.for = "schedule" => pass.todo \subseteq Schedules
      /\ pass.for \in Events => pass.todo \subseteq Listeners
      /\ trig \in [AllTriggers -> Registration]
      /\ Schedules \subseteq AllTriggers /\ Listeners \subseteq AllTriggers
  BY DEF TriggersTypes, PassInv, PassTypes, Active, AllTriggers
<1> SUFFICES Goal
  OBVIOUS
<1>1. ASSUME UNCHANGED <<trig, eventRows, resumed, heard, pass>> PROVE Goal
  BY <1>0, <1>1 DEF PassInv, Active
<1>2. ASSUME NEW what \in {"schedule"} \cup Events, NEW triggers \in SUBSET Active, StartPass(what, triggers),
             what = "schedule" => triggers \subseteq Schedules, what \in Events => triggers \subseteq Listeners
      PROVE  Goal
  <2>1. pass' = [for |-> what, matched |-> triggers, todo |-> triggers] /\ UNCHANGED <<trig, eventRows, resumed, heard>>
    BY <1>2 DEF StartPass
  <2>2. Active' = Active /\ Active \subseteq AllTriggers
    BY <2>1 DEF Active
  <2> QED BY <1>0, <1>2, <2>1, <2>2 DEF PassInv, PassTypes
<1>3. ASSUME NEW t \in Schedules, ScheduleFires(t) PROVE Goal
  <2>1. /\ Firing(t, 3) /\ t \in pass.todo /\ pass.for = "schedule" /\ Advance(t) /\ UNCHANGED <<eventRows, resumed>>
    BY <1>0, <1>3 DEF ScheduleFires, Firing
  <2>2. \A q \in AllTriggers : q # t => trig'[q] = trig[q]
    BY <2>1, FiringEffect
  <2> QED BY <1>0, <2>1, <2>2, AdvanceKeeps, TriggersAssumption
<1>4. ASSUME NEW t \in Schedules, ScheduleRests(t) PROVE Goal
  <2>1. /\ t \in pass.todo /\ pass.for = "schedule" /\ Advance(t) /\ UNCHANGED <<eventRows, resumed>>
        /\ trig' = [trig EXCEPT ![t].status = "expired"] \/ trig' = trig
    BY <1>4 DEF ScheduleRests
  <2>2. \A q \in AllTriggers : q # t => trig'[q] = trig[q]
    BY <1>0, <2>1
  <2> QED BY <1>0, <2>1, <2>2, AdvanceKeeps, TriggersAssumption
<1>5. ASSUME NEW t \in Listeners, ListenerFires(t) PROVE Goal
  <2>1. Hearing(pass.for, t, 3) /\ pass.for \in Events /\ t \in pass.todo /\ Advance(t)
    BY <1>0, <1>5 DEF ListenerFires, Hearing
  <2>2. /\ \A q \in AllTriggers : q # t => trig'[q] = trig[q]
        /\ eventRows' = eventRows \cup {<<pass.for, t>>} /\ resumed' = resumed \cup {<<pass.for, t>>}
    BY <2>1, HearingEffect
  <2> QED BY <1>0, <2>1, <2>2, AdvanceKeeps
<1>6. ASSUME NEW t \in Listeners, ListenerSkips(t) PROVE Goal
  <2>1. /\ t \in pass.todo /\ Advance(t) /\ UNCHANGED <<trig, eventRows, resumed>> /\ <<pass.for, t>> \in resumed
    BY <1>6 DEF ListenerSkips, Handled
  <2> QED BY <1>0, <2>1, AdvanceKeeps
<1>7. ASSUME NEW t \in Listeners, ListenerThrows(t) PROVE Goal
  BY <1>0, <1>7, NoPassKeeps DEF ListenerThrows
<1>8. ASSUME NEW t \in AllTriggers, NEW n \in 0..3, PassBreaks(t, n) PROVE Goal
  <2>1. pass' = NoPass /\ UNCHANGED heard
    BY <1>8 DEF PassBreaks, Forget
  <2>2. resumed \subseteq resumed' /\ resumed' \subseteq eventRows'
    BY <1>0, <1>8 DEF PassBreaks, ListenerWrites
  <2> QED BY <2>1, <2>2, NoPassKeeps
<1>9. ASSUME TriggersRestart PROVE Goal
  BY <1>0, <1>9, NoPassKeeps DEF TriggersRestart, Forget
<1>10. ASSUME TriggersNext PROVE Goal
  <2>1. ASSUME EvaluateScheduleTriggers PROVE Goal
    BY <1>2, <2>1, TriggersAssumption DEF EvaluateScheduleTriggers
  <2>2. ASSUME NEW e \in Events, HandleEvent(e) PROVE Goal
    BY <1>2, <2>2, TriggersAssumption DEF HandleEvent
  <2> QED BY <1>3, <1>4, <1>5, <1>6, <1>7, <1>10, <2>1, <2>2 DEF TriggersNext
<1> QED BY <1>1, <1>8, <1>9, <1>10 DEF Next, Tick, vars, triggerVars

\* Every step keeps the types, and the times of firings in the past.
LEMMA TypesKeep ==
  ASSUME TriggersTypes, FiredInTime, PassInv, [Next]_vars
  PROVE  TriggersTypes' /\ FiredInTime'
<1>0. /\ now \in 0..MaxTime /\ crashes \in 0..MaxCrashes /\ MaxTime \in Nat /\ MaxCrashes \in Nat
      /\ trig \in [AllTriggers -> Registration] /\ fired \in [Schedules -> Seq(Nat)]
      /\ eventRows \subseteq Events \X Listeners /\ resumed \subseteq Events \X Listeners
      /\ Schedules \subseteq AllTriggers
  BY TriggersAssumption DEF TriggersTypes, AllTriggers
<1>1. pass' \in PassTypes /\ heard' \subseteq Events \X Listeners
  BY PassKeeps
<1> DEFINE Rest == /\ now' \in now..MaxTime /\ crashes' \in 0..MaxCrashes
                   /\ trig' \in [AllTriggers -> Registration] /\ fired' \in [Schedules -> Seq(Nat)]
                   /\ eventRows' \subseteq Events \X Listeners /\ resumed' \subseteq Events \X Listeners
                   /\ FiredInTime'
<1>2. ASSUME NEW t \in Schedules, NEW n \in 0..3, Firing(t, n), crashes' \in 0..MaxCrashes PROVE Rest
  <2>1. UNCHANGED <<now, eventRows, resumed>> /\ DueAt(t) \in Nat /\ DueAt(t) <= now
    BY <1>2, DueProperties DEF Firing
  <2>2. /\ trig' \in [AllTriggers -> Registration] /\ fired' \in [Schedules -> Seq(Nat)]
        /\ \A q \in Schedules : q # t => fired'[q] = fired[q]
        /\ fired'[t] = IF n >= 1 THEN Append(fired[t], DueAt(t)) ELSE fired[t]
    BY <1>2, FiringEffect
  <2>3. \A k \in 1..Len(fired'[t]) : fired'[t][k] <= now
    <3>1. CASE n >= 1
      <4>1. fired[t] \in Seq(Nat) /\ fired'[t] = Append(fired[t], DueAt(t))
        BY <1>0, <2>2, <3>1
      <4>2. /\ Len(fired'[t]) = Len(fired[t]) + 1 /\ Len(fired[t]) \in Nat
            /\ \A i \in 1..Len(fired[t]) : fired'[t][i] = fired[t][i]
            /\ fired'[t][Len(fired[t]) + 1] = DueAt(t)
        BY <2>1, <4>1, AppendProperties, LenProperties
      <4> QED BY <2>1, <4>2 DEF FiredInTime
    <3>2. CASE ~(n >= 1)
      BY <2>2, <3>2 DEF FiredInTime
    <3> QED BY <3>1, <3>2
  <2>4. FiredInTime'
    BY <2>1, <2>2, <2>3 DEF FiredInTime
  <2> QED BY <1>0, <1>2, <2>1, <2>2, <2>4
<1>3. ASSUME NEW e \in Events, NEW t \in Listeners, NEW n \in 0..3, Hearing(e, t, n), crashes' \in 0..MaxCrashes PROVE Rest
  <2>1. UNCHANGED <<now, fired>>
    BY <1>3 DEF Hearing
  <2>2. /\ trig' \in [AllTriggers -> Registration]
        /\ eventRows' = IF n >= 1 THEN eventRows \cup {<<e, t>>} ELSE eventRows
        /\ resumed' = IF n >= 2 THEN resumed \cup {<<e, t>>} ELSE resumed
    BY <1>3, HearingEffect
  <2>3. FiredInTime'
    BY <2>1 DEF FiredInTime
  <2> QED BY <1>0, <1>3, <2>1, <2>2, <2>3
<1>4. ASSUME FireStep PROVE Rest
  BY <1>0, <1>2, <1>4 DEF FireStep
<1>5. ASSUME HearStep PROVE Rest
  BY <1>0, <1>3, <1>5 DEF HearStep
<1>6. ASSUME ExpireStep PROVE Rest
  <2>1. PICK t \in Schedules : /\ trig' = [trig EXCEPT ![t].status = "expired"]
                              /\ UNCHANGED <<now, fired, eventRows, resumed, crashes>>
    BY <1>6 DEF ExpireStep
  <2>2. trig' \in [AllTriggers -> Registration]
    BY <1>0, <2>1 DEF Registration
  <2> QED BY <1>0, <2>1, <2>2 DEF FiredInTime
<1>7. ASSUME BreakStep PROVE Rest
  <2>1. crashes' \in 0..MaxCrashes
    BY <1>0, <1>7 DEF BreakStep
  <2>2. CASE UNCHANGED <<now, trig, fired, eventRows, resumed>>
    BY <1>0, <2>1, <2>2 DEF FiredInTime
  <2> QED BY <1>2, <1>3, <1>7, <2>1, <2>2 DEF BreakStep
<1>8. ASSUME QuietStep PROVE Rest
  <2>1. FiredInTime'
    <3> SUFFICES ASSUME NEW t \in Schedules, NEW k \in 1..Len(fired[t]) PROVE fired[t][k] <= now'
      BY <1>8 DEF QuietStep, FiredInTime
    <3>1. fired[t][k] \in Nat /\ fired[t][k] <= now
      BY <1>0, LenProperties DEF FiredInTime
    <3> QED BY <1>0, <1>8, <3>1 DEF QuietStep
  <2> QED BY <1>0, <1>8, <2>1 DEF QuietStep
<1>9. Rest
  BY <1>4, <1>5, <1>6, <1>7, <1>8, StepShape DEF Step
<1> QED BY <1>0, <1>1, <1>9 DEF TriggersTypes, PassTypes

\* Every step keeps the count of a trigger within its maxTriggers.
LEMMA BudgetKeeps ==
  ASSUME TriggersTypes, PassInv, BudgetInv, [Next]_vars
  PROVE  BudgetInv'
<1>0. /\ trig \in [AllTriggers -> Registration] /\ Schedules \subseteq AllTriggers /\ Listeners \subseteq AllTriggers
      /\ \A t \in AllTriggers : MaxFires[t] \in Nat /\ trig[t].count \in Nat
  BY TriggersAssumption DEF TriggersTypes, AllTriggers, Registration
<1>1. ASSUME NEW t \in Schedules, NEW n \in 0..3, Firing(t, n) PROVE BudgetInv'
  <2>1. /\ \A q \in AllTriggers : q # t => trig'[q] = trig[q]
        /\ trig'[t].count = trig[t].count + (IF n >= 2 THEN 1 ELSE 0)
        /\ trig'[t].status = IF n >= 2 /\ MaxFires[t] > 0 /\ trig[t].count + 1 >= MaxFires[t]
                              THEN "completed" ELSE trig[t].status
    BY <1>1, FiringEffect
  <2>2. trig[t].status = "active"
    BY <1>1 DEF Firing
  <2> QED BY <1>0, <2>1, <2>2 DEF BudgetInv
<1>2. ASSUME NEW e \in Events, NEW t \in Listeners, NEW n \in 0..3, Hearing(e, t, n) PROVE BudgetInv'
  <2>1. /\ \A q \in AllTriggers : q # t => trig'[q] = trig[q]
        /\ trig'[t].count = trig[t].count + (IF n = 3 THEN 1 ELSE 0)
        /\ trig'[t].status = IF n = 3 /\ MaxFires[t] > 0 /\ trig[t].count + 1 >= MaxFires[t]
                              THEN "completed" ELSE trig[t].status
    BY <1>2, HearingEffect
  <2>2. trig[t].status = "active"
    BY <1>2 DEF Hearing
  <2> QED BY <1>0, <2>1, <2>2 DEF BudgetInv
<1>3. ASSUME ExpireStep PROVE BudgetInv'
  BY <1>0, <1>3 DEF ExpireStep, BudgetInv, Registration
<1>4. ASSUME UNCHANGED trig PROVE BudgetInv'
  BY <1>4 DEF BudgetInv
<1> QED
  BY <1>1, <1>2, <1>3, <1>4, StepShape DEF Step, FireStep, HearStep, BreakStep, QuietStep

\* Every step keeps the count of a listener in step with its resume actions.
LEMMA ListenerKeeps ==
  ASSUME TriggersTypes, PassInv, ListenerInv, [Next]_vars
  PROVE  ListenerInv'
<1>0. /\ trig \in [AllTriggers -> Registration] /\ Schedules \subseteq AllTriggers /\ Listeners \subseteq AllTriggers
      /\ \A t \in AllTriggers : trig[t].count \in Nat
      /\ crashes \in Nat /\ resumed \subseteq eventRows /\ Schedules \cap Listeners = {}
      /\ \A t \in Listeners : Cardinality(ResumedFor(t)) \in Nat
  BY TriggersAssumption, FS_CardinalityType DEF TriggersTypes, AllTriggers, Registration, PassInv, ListenerInv
<1>1. ASSUME crashes' \in {crashes, crashes + 1}, UNCHANGED resumed,
             \A t \in Listeners : trig'[t].count = trig[t].count
      PROVE  ListenerInv'
  <2>1. \A t \in Listeners : ResumedFor(t)' = ResumedFor(t)
    BY <1>1 DEF ResumedFor
  <2> QED BY <1>0, <1>1, <2>1 DEF ListenerInv, CountTells
<1>2. ASSUME NEW e \in Events, NEW t \in Listeners, NEW n \in 0..3, Hearing(e, t, n),
             crashes' = crashes + 1 \/ (n = 3 /\ crashes' = crashes)
      PROVE  ListenerInv'
  <2>1. /\ \A q \in AllTriggers : q # t => trig'[q] = trig[q]
        /\ trig'[t].count = trig[t].count + (IF n = 3 THEN 1 ELSE 0)
        /\ resumed' = IF n >= 2 THEN resumed \cup {<<e, t>>} ELSE resumed
    BY <1>2, HearingEffect
  <2>2. CASE n < 2
    BY <1>0, <1>1, <1>2, <2>1, <2>2
  <2>3. CASE n >= 2
    <3>1. \A q \in Listeners : q # t => ResumedFor(q)' = ResumedFor(q)
      BY <2>1, <2>3 DEF ResumedFor
    <3>2. ResumedFor(t)' = ResumedFor(t) \cup {e} /\ e \notin ResumedFor(t)
      BY <1>0, <1>2, <2>1, <2>3 DEF ResumedFor, Hearing
    <3>3. IsFiniteSet(ResumedFor(t)') /\ Cardinality(ResumedFor(t)') = Cardinality(ResumedFor(t)) + 1
      BY <3>2, FS_AddElement DEF ListenerInv
    <3>4. CountTells(t, Cardinality(ResumedFor(t)))'
      BY <1>0, <1>2, <2>1, <2>3, <3>3 DEF ListenerInv, CountTells
    <3>5. \A q \in Listeners : q # t => CountTells(q, Cardinality(ResumedFor(q)))'
      BY <1>0, <1>2, <2>1, <3>1 DEF ListenerInv, CountTells
    <3> QED BY <3>1, <3>3, <3>4, <3>5 DEF ListenerInv
  <2> QED BY <2>2, <2>3
<1>3. ASSUME NEW t \in Schedules, NEW n \in 0..3, Firing(t, n), crashes' \in {crashes, crashes + 1}
      PROVE  ListenerInv'
  <2>1. \A q \in Listeners : q # t /\ trig'[q] = trig[q]
    BY <1>0, <1>3, FiringEffect
  <2> QED BY <1>1, <1>3, <2>1 DEF Firing
<1>4. ASSUME ExpireStep PROVE ListenerInv'
  BY <1>0, <1>1, <1>4 DEF ExpireStep, Registration
<1>5. ASSUME FireStep PROVE ListenerInv'
  BY <1>3, <1>5 DEF FireStep
<1>6. ASSUME HearStep PROVE ListenerInv'
  BY <1>2, <1>6 DEF HearStep
<1>7. ASSUME BreakStep PROVE ListenerInv'
  BY <1>1, <1>2, <1>3, <1>7 DEF BreakStep
<1>8. ASSUME QuietStep PROVE ListenerInv'
  BY <1>1, <1>8 DEF QuietStep
<1> QED BY <1>4, <1>5, <1>6, <1>7, <1>8, StepShape DEF Step

\* A schedule that does not fire, whether or not the process ends.
LEMMA RestingKeeps ==
  ASSUME TriggersTypes, NEW t \in Schedules, FiringsOf(t), fired'[t] = fired[t],
         trig'[t].count = trig[t].count, trig'[t].next = trig[t].next,
         \/ crashes' = crashes + 1 /\ cache' = {}
         \/ crashes' = crashes /\ \A d \in Nat : <<t, d>> \in cache => <<t, d>> \in cache'
  PROVE  FiringsOf(t)'
<1>0. /\ fired[t] \in Seq(Nat) /\ Len(fired[t]) \in Nat /\ crashes \in Nat /\ trig[t].count \in Nat
  BY LenProperties DEF TriggersTypes, Registration, AllTriggers
<1>1. \A d \in Nat : FiringsFor(t, d)' = FiringsFor(t, d)
  BY DEF FiringsFor
<1>2. \A d \in Nat : Cardinality(FiringsFor(t, d)) \in Nat
  <2> SUFFICES ASSUME NEW d \in Nat PROVE Cardinality(FiringsFor(t, d)) \in Nat
    OBVIOUS
  <2>1. FiringsFor(t, d) \subseteq 1..Len(fired[t]) /\ 1 \in Int /\ Len(fired[t]) \in Int
    BY <1>0, LenProperties DEF FiringsFor
  <2>2. IsFiniteSet(1..Len(fired[t]))
    BY <2>1, FS_Interval
  <2> QED BY <2>1, <2>2, FS_Subset, FS_CardinalityType
<1>3. \A d \in Nat : LET n == Cardinality(FiringsFor(t, d)) IN n <= crashes' + 1 /\ (<<t, d>> \in cache' \/ n <= crashes')
  <2> SUFFICES ASSUME NEW d \in Nat
               PROVE  LET n == Cardinality(FiringsFor(t, d)) IN n <= crashes' + 1 /\ (<<t, d>> \in cache' \/ n <= crashes')
    OBVIOUS
  <2> DEFINE n == Cardinality(FiringsFor(t, d))
  <2>1. n \in Nat /\ n <= crashes + 1 /\ (<<t, d>> \in cache \/ n <= crashes)
    BY <1>2 DEF FiringsOf
  <2> HIDE DEF n
  <2>2. n <= crashes' + 1 /\ (<<t, d>> \in cache' \/ n <= crashes')
    BY <1>0, <2>1
  <2> QED BY <2>2 DEF n
<1>4. CountTells(t, Len(fired[t]))'
  BY <1>0 DEF FiringsOf, CountTells
<1>5. Grid(t) \subseteq Nat
  BY DEF Grid
<1> QED BY <1>1, <1>3, <1>4, <1>5 DEF FiringsOf

\* A schedule that fires, whether or not the process ends within.
LEMMA FiringKeeps ==
  ASSUME TriggersTypes, NEW t \in Schedules, NEW n \in 0..3, Firing(t, n), FiringsOf(t),
         \/ crashes' = crashes + 1 /\ cache' = {}
         \/ n = 3 /\ crashes' = crashes /\ cache' = cache \cup {<<t, DueAt(t)>>}
  PROVE  FiringsOf(t)'
<1>0. /\ fired[t] \in Seq(Nat) /\ Len(fired[t]) \in Nat /\ crashes \in Nat
      /\ trig[t].count \in Nat /\ trig[t].next \in Nat
      /\ DueAt(t) \in Nat /\ DueAt(t) = (IF Kind[t] = "interval" THEN trig[t].next ELSE FirstTime(t))
      /\ <<t, DueAt(t)>> \notin cache
      /\ Grid(t) \subseteq Nat /\ Interval[t] \in Nat
  BY LenProperties, DueProperties, TriggersAssumption
  DEF TriggersTypes, Registration, AllTriggers, Firing, Fires, Grid
<1>1. /\ fired'[t] = IF n >= 1 THEN Append(fired[t], DueAt(t)) ELSE fired[t]
      /\ trig'[t].count = trig[t].count + (IF n >= 2 THEN 1 ELSE 0)
      /\ trig'[t].next = trig[t].next
                        + (IF n = 3 /\ trig'[t].status = "active" /\ Kind[t] = "interval" THEN Interval[t] ELSE 0)
  BY FiringEffect
<1>2. CASE n = 0
  BY <1>0, <1>1, <1>2, RestingKeeps
<1>3. CASE n >= 1
  <2>1. fired'[t] = Append(fired[t], DueAt(t))
    BY <1>1, <1>3
  <2>2. /\ Len(fired'[t]) = Len(fired[t]) + 1
        /\ \A i \in 1..Len(fired[t]) : fired'[t][i] = fired[t][i]
        /\ fired'[t][Len(fired[t]) + 1] = DueAt(t)
    BY <1>0, <2>1, AppendProperties, LenProperties
  <2>3. ASSUME NEW d \in Nat
        PROVE  /\ FiringsFor(t, d)' = IF d = DueAt(t) THEN FiringsFor(t, d) \cup {Len(fired[t]) + 1} ELSE FiringsFor(t, d)
               /\ Cardinality(FiringsFor(t, d)) \in Nat
               /\ Cardinality(FiringsFor(t, d)') = Cardinality(FiringsFor(t, d)) + (IF d = DueAt(t) THEN 1 ELSE 0)
    <3> DEFINE e == DueAt(t)
    <3>1. e \in Nat /\ fired[t] \in Seq(Nat) /\ fired'[t] = Append(fired[t], e)
      BY <1>0, <2>1
    <3> HIDE DEF e
    <3>2. /\ FiringsFor(t, d)' = IF d = e THEN FiringsFor(t, d) \cup {Len(fired[t]) + 1} ELSE FiringsFor(t, d)
          /\ Cardinality(FiringsFor(t, d)) \in Nat
          /\ Cardinality(FiringsFor(t, d)') = Cardinality(FiringsFor(t, d)) + (IF d = e THEN 1 ELSE 0)
      BY <3>1, FiringsAppend
    <3> QED BY <3>2 DEF e
  <2>4. CountTells(t, Len(fired[t]))'
    <3>1. trig[t].count <= Len(fired[t]) /\ Len(fired[t]) <= trig[t].count + crashes
      BY DEF FiringsOf, CountTells
    <3>2. CASE n = 1
      <4>1. crashes' = crashes + 1 /\ trig'[t].count = trig[t].count
        BY <1>0, <1>1, <3>2
      <4> QED BY <1>0, <2>2, <3>1, <4>1 DEF CountTells
    <3>3. CASE n >= 2
      <4>1. crashes' \in {crashes, crashes + 1} /\ trig'[t].count = trig[t].count + 1
        BY <1>0, <1>1, <3>3
      <4>2. Len(fired[t]) \in Nat /\ trig[t].count \in Nat /\ crashes \in Nat /\ Len(fired'[t]) = Len(fired[t]) + 1
        BY <1>0, <2>2, LenProperties
      <4> QED BY SMTT(20), <3>1, <4>1, <4>2 DEF CountTells
    <3> QED BY <1>3, <3>2, <3>3
  <2>5. ASSUME NEW d \in Nat
        PROVE  LET m == Cardinality(FiringsFor(t, d)') IN m <= crashes' + 1 /\ (<<t, d>> \in cache' \/ m <= crashes')
    <3> DEFINE c == Cardinality(FiringsFor(t, d))
               m == Cardinality(FiringsFor(t, d)')
    <3>1. c \in Nat /\ c <= crashes + 1 /\ (<<t, d>> \in cache \/ c <= crashes)
          /\ m = (IF d = DueAt(t) THEN c + 1 ELSE c)
      BY <2>3 DEF FiringsOf
    <3> HIDE DEF c, m
    <3>2. CASE d = DueAt(t)
      BY <1>0, <3>1, <3>2 DEF m
    <3>3. CASE d # DueAt(t)
      BY <1>0, <3>1, <3>3 DEF m
    <3> QED BY <3>2, <3>3
  <2>6. Kind[t] = "interval" => trig'[t].next \in Grid(t)
    BY <1>0, <1>1, GridStep DEF FiringsOf
  <2>7. ASSUME Kind[t] = "interval", NEW d \in Grid(t), d < trig'[t].next PROVE FiringsFor(t, d)' # {}
    <3>1. d \in Nat /\ trig[t].next \in Grid(t)
      BY <1>0, <2>7 DEF FiringsOf
    <3>2. d <= trig[t].next
      <4>1. d < trig[t].next + Interval[t] => d <= trig[t].next
        BY <3>1, GridStep
      <4> QED BY <1>0, <1>1, <2>7, <3>1, <4>1
    <3>3. CASE d = trig[t].next
      BY <1>0, <2>3, <2>7, <3>1, <3>3
    <3>4. CASE d < trig[t].next
      BY <2>3, <2>7, <3>1, <3>4 DEF FiringsOf
    <3> QED BY <1>0, <3>1, <3>2, <3>3, <3>4
  <2>8. \A k \in 1..Len(fired'[t]) :
          IF Kind[t] = "interval" THEN fired'[t][k] \in Grid(t) ELSE fired'[t][k] = FirstTime(t)
    <3>1. Kind[t] = "interval" => DueAt(t) \in Grid(t)
      BY <1>0 DEF FiringsOf
    <3>2. \A k \in 1..Len(fired[t]) :
            IF Kind[t] = "interval" THEN fired[t][k] \in Grid(t) ELSE fired[t][k] = FirstTime(t)
      BY DEF FiringsOf
    <3>3. \A k \in 1..Len(fired'[t]) : k \in 1..Len(fired[t]) \/ k = Len(fired[t]) + 1
      BY <1>0, <2>2
    <3> QED BY <1>0, <2>2, <3>1, <3>2, <3>3
  <2>9. Grid(t)' = Grid(t) /\ FirstTime(t)' = FirstTime(t)
    BY DEF Grid, FirstTime
  <2> QED BY <2>4, <2>5, <2>6, <2>7, <2>8 DEF FiringsOf
<1> QED BY <1>2, <1>3

\* Every step keeps the firings of a schedule in step with its count and its next time.
LEMMA ScheduleKeeps ==
  ASSUME TriggersTypes, PassInv, ScheduleInv, [Next]_vars
  PROVE  ScheduleInv'
<1>0. /\ trig \in [AllTriggers -> Registration] /\ Schedules \subseteq AllTriggers /\ Listeners \subseteq AllTriggers
      /\ Schedules \cap Listeners = {}
      /\ \A t \in Schedules : FiringsOf(t)
  BY TriggersAssumption DEF TriggersTypes, AllTriggers, ScheduleInv
<1> SUFFICES ASSUME NEW q \in Schedules PROVE FiringsOf(q)'
  BY DEF ScheduleInv
<1>1. ASSUME NEW t \in Schedules, NEW n \in 0..3, Firing(t, n),
             \/ crashes' = crashes + 1 /\ cache' = {}
             \/ n = 3 /\ crashes' = crashes /\ cache' = cache \cup {<<t, DueAt(t)>>}
      PROVE  FiringsOf(q)'
  <2>1. CASE q = t
    BY <1>0, <1>1, <2>1, FiringKeeps
  <2>2. CASE q # t
    <3>1. trig'[q] = trig[q] /\ fired'[q] = fired[q]
      BY <1>0, <1>1, <2>2, FiringEffect
    <3> QED BY <1>0, <1>1, <3>1, RestingKeeps
  <2> QED BY <2>1, <2>2
<1>2. ASSUME NEW e \in Events, NEW t \in Listeners, NEW n \in 0..3, Hearing(e, t, n),
             \/ crashes' = crashes + 1 /\ cache' = {}
             \/ UNCHANGED <<crashes, cache>>
      PROVE  FiringsOf(q)'
  <2>1. trig'[q] = trig[q] /\ fired' = fired
    BY <1>0, <1>2, HearingEffect DEF Hearing
  <2> QED BY <1>0, <1>2, <2>1, RestingKeeps
<1>3. ASSUME ExpireStep PROVE FiringsOf(q)'
  <2>1. /\ trig'[q].count = trig[q].count /\ trig'[q].next = trig[q].next
        /\ UNCHANGED <<fired, cache, crashes>>
    BY <1>0, <1>3 DEF ExpireStep, Registration
  <2> QED BY <1>0, <2>1, RestingKeeps
<1>4. ASSUME UNCHANGED <<trig, fired>>,
             \/ crashes' = crashes + 1 /\ cache' = {}
             \/ UNCHANGED <<crashes, cache>>
      PROVE  FiringsOf(q)'
  BY <1>0, <1>4, RestingKeeps
<1>5. ASSUME FireStep PROVE FiringsOf(q)'
  BY <1>1, <1>5 DEF FireStep
<1>6. ASSUME HearStep PROVE FiringsOf(q)'
  BY <1>2, <1>6 DEF HearStep
<1>7. ASSUME BreakStep PROVE FiringsOf(q)'
  BY <1>1, <1>2, <1>4, <1>7 DEF BreakStep
<1>8. ASSUME QuietStep PROVE FiringsOf(q)'
  BY <1>4, <1>8 DEF QuietStep
<1> QED BY <1>3, <1>5, <1>6, <1>7, <1>8, StepShape DEF Step

\* The initial states satisfy the invariant of the triggers.
LEMMA TriggersInitially == Init => TriggersInv
<1> SUFFICES ASSUME Init PROVE TriggersInv
  OBVIOUS
<1>1. PICK cast \in Casts : TriggersInit(cast)
  BY DEF Init
<1>2. /\ now = 0 /\ cache = {} /\ eventRows = {} /\ resumed = {} /\ heard = {} /\ pass = NoPass /\ crashes = 0
      /\ fired = [t \in Schedules |-> <<>>]
      /\ trig = [t \in AllTriggers |-> [status |-> IF t \in cast THEN "active" ELSE "none", count |-> 0,
                                        next |-> IF t \in Schedules THEN FirstTime(t) ELSE 0]]
  BY <1>1 DEF TriggersInit
<1>3. \A t \in Schedules : FirstTime(t) \in Nat
  BY FirstTimeProperties
<1>4. /\ trig \in [AllTriggers -> Registration]
      /\ \A t \in AllTriggers : trig[t].count = 0
      /\ \A t \in Schedules : trig[t].next = FirstTime(t)
  BY <1>2, <1>3 DEF Registration, AllTriggers
<1>5. pass.for = "none" /\ pass.matched = {} /\ pass.todo = {} /\ pass \in PassTypes
  BY <1>2 DEF NoPass, PassTypes
<1>6. \A t \in Schedules : fired[t] = <<>> /\ fired[t] \in Seq(Nat) /\ Len(fired[t]) = 0
  BY <1>2, EmptySeq
<1>7. TriggersTypes
  BY <1>2, <1>4, <1>5, <1>6, TriggersAssumption DEF TriggersTypes, PassTypes
<1>8. FiredInTime
  BY <1>6 DEF FiredInTime
<1>9. PassInv
  BY <1>2, <1>5, TriggersAssumption DEF PassInv
<1>10. BudgetInv
  BY <1>4, TriggersAssumption DEF BudgetInv
<1>11. ListenerInv
  <2> SUFFICES ASSUME NEW t \in Listeners PROVE IsFiniteSet(ResumedFor(t)) /\ CountTells(t, Cardinality(ResumedFor(t)))
    BY DEF ListenerInv
  <2>1. ResumedFor(t) = {} /\ t \in AllTriggers
    BY <1>2 DEF ResumedFor, AllTriggers
  <2>2. IsFiniteSet(ResumedFor(t)) /\ Cardinality(ResumedFor(t)) = 0
    BY <2>1, FS_EmptySet
  <2> QED BY <1>2, <1>4, <2>1, <2>2 DEF CountTells
<1>12. ASSUME NEW t \in Schedules PROVE FiringsOf(t)
  <2>1. CountTells(t, Len(fired[t]))
    BY <1>2, <1>4, <1>6 DEF CountTells, AllTriggers
  <2>2. ASSUME NEW d \in Nat
        PROVE  LET n == Cardinality(FiringsFor(t, d)) IN n <= crashes + 1 /\ (<<t, d>> \in cache \/ n <= crashes)
    <3>1. FiringsFor(t, d) = {}
      BY <1>6 DEF FiringsFor
    <3>2. Cardinality(FiringsFor(t, d)) = 0
      BY <3>1, FS_EmptySet
    <3> QED BY <1>2, <3>2
  <2>3. trig[t].next \in Grid(t)
    BY <1>3, <1>4, TriggersAssumption DEF Grid
  <2>4. \A d \in Grid(t) : d \in Nat /\ ~(d < trig[t].next)
    <3> SUFFICES ASSUME NEW d \in Grid(t) PROVE d \in Nat /\ ~(d < trig[t].next)
      OBVIOUS
    <3>1. PICK k \in Nat : d = FirstTime(t) + k * Interval[t]
      BY DEF Grid
    <3>2. k * Interval[t] \in Nat /\ FirstTime(t) \in Nat
      BY <1>3, Multiples, TriggersAssumption
    <3> QED BY <1>4, <3>1, <3>2
  <2> QED BY SMTT(20), <1>2, <1>6, <2>1, <2>2, <2>3, <2>4 DEF FiringsOf
<1> QED BY <1>7, <1>8, <1>9, <1>10, <1>11, <1>12 DEF TriggersInv, ScheduleInv

\* The triggers' invariant holds in every reachable state.
THEOREM TriggersInvariance == Spec => []TriggersInv
<1>1. TriggersInv /\ [Next]_vars => TriggersInv'
  BY PassKeeps, TypesKeep, BudgetKeeps, ListenerKeeps, ScheduleKeeps DEF TriggersInv
<1> QED BY TriggersInitially, <1>1, PTL DEF Spec

\* However late a schedule is evaluated and wherever in a firing the process ends, an
\* interval skips none of its due times, a due time is fired at most once more than
\* the process ended, nothing is fired that was not asked for, and a budget is
\* overdrawn at most by what such ends lost of the count (event-trigger-runtime.ts).
THEOREM SchedulesFire == Spec => []ScheduleFirings
<1>1. TriggersInv => ScheduleFirings
  <2> SUFFICES ASSUME TriggersInv, NEW t \in Schedules
               PROVE  /\ \A d \in AskedTimes(t) :
                           /\ Cardinality(FiringsFor(t, d)) <= 1 + crashes
                           /\ Kind[t] = "interval" /\ d < trig[t].next => FiringsFor(t, d) # {}
                      /\ \A k \in DOMAIN fired[t] : fired[t][k] \in AskedTimes(t)
                      /\ trig[t].count <= Len(fired[t]) /\ Len(fired[t]) <= trig[t].count + crashes
                      /\ MaxFires[t] > 0 => Len(fired[t]) <= MaxFires[t] + crashes
    BY DEF ScheduleFirings
  <2>0. /\ FiringsOf(t) /\ t \in AllTriggers /\ trig[t].count \in Nat /\ MaxFires[t] \in Nat
        /\ crashes \in Nat /\ now \in Nat /\ now <= MaxTime /\ MaxTime \in Nat
        /\ fired[t] \in Seq(Nat) /\ Len(fired[t]) \in Nat /\ DOMAIN fired[t] = 1..Len(fired[t])
        /\ \A k \in 1..Len(fired[t]) : fired[t][k] \in Nat /\ fired[t][k] <= now
    <3>1. t \in AllTriggers /\ TriggersTypes /\ FiredInTime /\ ScheduleInv
      BY DEF TriggersInv, AllTriggers
    <3>2. MaxFires[t] \in Nat /\ MaxTime \in Nat /\ MaxCrashes \in Nat
      BY <3>1, TriggersAssumption
    <3>3. trig[t].count \in Nat
      BY <3>1 DEF TriggersTypes, Registration
    <3>4. crashes \in Nat /\ now \in Nat /\ now <= MaxTime
      BY <3>1, <3>2 DEF TriggersTypes
    <3>5. fired[t] \in Seq(Nat)
      BY <3>1 DEF TriggersTypes
    <3>6. Len(fired[t]) \in Nat /\ DOMAIN fired[t] = 1..Len(fired[t]) /\ \A k \in 1..Len(fired[t]) : fired[t][k] \in Nat
      BY <3>5, LenProperties
    <3>7. FiringsOf(t) /\ \A k \in 1..Len(fired[t]) : fired[t][k] <= now
      BY <3>1 DEF FiredInTime, ScheduleInv
    <3> QED BY <3>1, <3>2, <3>3, <3>4, <3>5, <3>6, <3>7
  <2>1. IF Kind[t] = "interval" THEN AskedTimes(t) = Grid(t) \cap 0..MaxTime ELSE AskedTimes(t) = {FirstTime(t)}
    BY AskedProperties
  <2>2. AskedTimes(t) \subseteq Nat
    BY <2>1, FirstTimeProperties DEF Grid
  <2>3. ASSUME NEW d \in AskedTimes(t)
        PROVE  /\ Cardinality(FiringsFor(t, d)) <= 1 + crashes
               /\ Kind[t] = "interval" /\ d < trig[t].next => FiringsFor(t, d) # {}
    <3>1. d \in Nat /\ (Kind[t] = "interval" => d \in Grid(t))
      BY <2>1, <2>2
    <3>2. Cardinality(FiringsFor(t, d)) <= crashes + 1
      BY <2>0, <3>1 DEF FiringsOf
    <3>3. Kind[t] = "interval" /\ d < trig[t].next => FiringsFor(t, d) # {}
      BY <2>0, <3>1 DEF FiringsOf
    <3>4. crashes + 1 = 1 + crashes
      BY <2>0
    <3> QED BY <3>2, <3>3, <3>4
  <2>4. ASSUME NEW k \in DOMAIN fired[t] PROVE fired[t][k] \in AskedTimes(t)
    BY <2>0, <2>1 DEF FiringsOf
  <2>5. trig[t].count <= Len(fired[t]) /\ Len(fired[t]) <= trig[t].count + crashes
    BY <2>0 DEF FiringsOf, CountTells
  <2>6. MaxFires[t] > 0 => trig[t].count <= MaxFires[t]
    BY <2>0 DEF TriggersInv, BudgetInv
  <2> QED BY <2>0, <2>3, <2>4, <2>5, <2>6
<1> QED BY TriggersInvariance, <1>1, PTL

\* A delivery that returned has resumed the target of every trigger it matched,
\* first or repeated, and a trigger's count and budget miss at most what the ends of
\* the process lost (fireEventTriggers).
THEOREM DeliveriesResume == Spec => []EventFirings
<1>1. TriggersInv => EventFirings
  <2> SUFFICES ASSUME TriggersInv, NEW t \in Listeners
               PROVE  /\ trig[t].count <= Cardinality(ResumedFor(t))
                      /\ Cardinality(ResumedFor(t)) <= trig[t].count + crashes
                      /\ MaxFires[t] > 0 => Cardinality(ResumedFor(t)) <= MaxFires[t] + crashes
    BY DEF EventFirings, TriggersInv, PassInv
  <2>1. /\ t \in AllTriggers /\ trig[t].count \in Nat /\ MaxFires[t] \in Nat /\ crashes \in Nat
        /\ Cardinality(ResumedFor(t)) \in Nat
    BY FS_CardinalityType, TriggersAssumption DEF TriggersInv, TriggersTypes, AllTriggers, Registration, ListenerInv
  <2>2. trig[t].count <= Cardinality(ResumedFor(t)) /\ Cardinality(ResumedFor(t)) <= trig[t].count + crashes
    BY DEF TriggersInv, ListenerInv, CountTells
  <2>3. MaxFires[t] > 0 => trig[t].count <= MaxFires[t]
    BY <2>1 DEF TriggersInv, BudgetInv
  <2> QED BY <2>1, <2>2, <2>3
<1> QED BY TriggersInvariance, <1>1, PTL

-----------------------------------------------------------------------------
(* Wait conditions *)

\* Conditions are marked with an outcome and some of them get an action for it.  A
\* condition whose owner looks at the row was open; one without a new action has an
\* action for the outcome already, or the process ended in between.
LEMMA MarkKeeps ==
  ASSUME WaitsInv, NEW outcome \in Outcomes, NEW marked \in SUBSET Waits, NEW done \in SUBSET marked,
         Mark(marked, outcome), Resume(done, outcome), torn \subseteq torn',
         \A w \in marked : Owner[w] # "async" => Open(w),
         \A w \in marked : w \in done \/ HasAction(w, outcome) \/ w \in torn'
  PROVE  /\ wait' \in [Waits -> {"absent", "none", "registered", "active"} \cup Outcomes]
         /\ resumes' \in [Waits -> Seq(Outcomes)]
         /\ ResumedOnce' /\ EndedWaitIsResumed'
<1>0. /\ wait \in [Waits -> {"absent", "none", "registered", "active"} \cup Outcomes]
      /\ resumes \in [Waits -> Seq(Outcomes)] /\ ResumedOnce /\ EndedWaitIsResumed
  BY DEF WaitsInv, WaitTypes
<1>1. /\ wait' \in [Waits -> {"absent", "none", "registered", "active"} \cup Outcomes]
      /\ \A w \in Waits : wait'[w] = IF w \in marked THEN outcome ELSE wait[w]
  BY <1>0 DEF Mark
<1>2. \A w \in Waits : resumes'[w] = IF w \in done THEN Append(resumes[w], outcome) ELSE resumes[w]
  BY DEF Resume
<1>3. resumes' \in [Waits -> Seq(Outcomes)]
  <2>1. \A w \in Waits : Append(resumes[w], outcome) \in Seq(Outcomes)
    BY <1>0, AppendProperties
  <2> QED BY <1>0, <2>1 DEF Resume
<1>4. ASSUME NEW w \in Waits
      PROVE  /\ resumes[w] \in Seq(Outcomes) /\ Len(resumes[w]) \in Nat /\ DOMAIN resumes[w] = 1..Len(resumes[w])
             /\ w \in done => /\ Len(resumes'[w]) = Len(resumes[w]) + 1 /\ DOMAIN resumes'[w] = 1..(Len(resumes[w]) + 1)
                              /\ resumes'[w][Len(resumes[w]) + 1] = outcome
             /\ w \notin done => resumes'[w] = resumes[w]
  <2>1. resumes[w] \in Seq(Outcomes) /\ resumes'[w] \in Seq(Outcomes)
    BY <1>0, <1>3
  <2>2. Len(resumes[w]) \in Nat /\ DOMAIN resumes[w] = 1..Len(resumes[w]) /\ DOMAIN resumes'[w] = 1..Len(resumes'[w])
    BY <2>1, LenProperties
  <2>3. CASE w \in done
    <3>1. resumes'[w] = Append(resumes[w], outcome)
      BY <1>2, <2>3
    <3>2. Len(resumes'[w]) = Len(resumes[w]) + 1 /\ resumes'[w][Len(resumes[w]) + 1] = outcome
      BY <2>1, <3>1, AppendProperties
    <3> QED BY <2>1, <2>2, <2>3, <3>2
  <2>4. CASE w \notin done
    BY <1>2, <2>1, <2>2, <2>4
  <2> QED BY <2>3, <2>4
<1>5. ResumedOnce'
  <2> SUFFICES ASSUME NEW w \in Waits, Owner[w] # "async", resumes'[w] # <<>>
               PROVE  Len(resumes'[w]) = 1 /\ wait'[w] = resumes'[w][1]
    BY DEF ResumedOnce
  <2>1. CASE w \in done
    <3>1. Open(w)
      BY <2>1
    <3>2. wait[w] \notin Outcomes
      BY <3>1 DEF Open, Outcomes
    <3>3. resumes[w] = <<>>
      <4>1. SUFFICES ASSUME resumes[w] # <<>> PROVE FALSE
        OBVIOUS
      <4>2. Len(resumes[w]) = 1 /\ wait[w] = resumes[w][1]
        BY <1>0, <4>1 DEF ResumedOnce
      <4>3. resumes[w][1] \in Outcomes
        BY <1>4, <4>2, LenProperties
      <4> QED BY <3>2, <4>2, <4>3
    <3>4. Len(resumes[w]) = 0
      BY <3>3, EmptySeq
    <3>5. Len(resumes'[w]) = 1 /\ resumes'[w][1] = outcome
      <4>1. Len(resumes'[w]) = Len(resumes[w]) + 1 /\ resumes'[w][Len(resumes[w]) + 1] = outcome
        BY <1>4, <2>1
      <4> QED BY <3>4, <4>1
    <3>6. w \in marked
      BY <2>1
    <3> QED BY <1>1, <3>5, <3>6
  <2>2. CASE w \notin done
    <3>1. resumes'[w] = resumes[w]
      BY <1>4, <2>2
    <3>2. Len(resumes[w]) = 1 /\ wait[w] = resumes[w][1]
      BY <1>0, <3>1 DEF ResumedOnce
    <3>3. wait[w] \in Outcomes
      BY <1>4, <3>2, LenProperties
    <3>4. w \notin marked
      BY <3>3 DEF Open, Outcomes
    <3> QED BY <1>1, <3>1, <3>2, <3>4
  <2> QED BY <2>1, <2>2
<1>6. EndedWaitIsResumed'
  <2> SUFFICES ASSUME NEW w \in Waits, wait'[w] \in Outcomes, w \notin torn'
               PROVE  \E k \in DOMAIN resumes'[w] : resumes'[w][k] = wait'[w]
    BY DEF EndedWaitIsResumed
  <2>1. CASE w \in done
    BY <1>1, <1>4, <2>1
  <2>2. CASE w \in marked \ done
    BY <1>1, <1>4, <2>2 DEF HasAction
  <2>3. CASE w \notin marked
    BY <1>0, <1>1, <1>4, <2>3 DEF EndedWaitIsResumed
  <2> QED BY <2>1, <2>2, <2>3
<1> QED BY <1>1, <1>3, <1>5, <1>6

\* Every step keeps the invariant of the waits.
LEMMA WaitsKeep ==
  ASSUME WaitsInv, TriggersTypes, [Next]_vars
  PROVE  WaitsInv'
<1>0. /\ wait \in [Waits -> {"absent", "none", "registered", "active"} \cup Outcomes]
      /\ resumes \in [Waits -> Seq(Outcomes)] /\ tracked \subseteq Waits /\ torn \subseteq Waits
      /\ handled \subseteq Waits \X Outcomes \X Stamps /\ ResumedOnce /\ EndedWaitIsResumed
  BY DEF WaitsInv, WaitTypes
<1>1. ASSUME UNCHANGED <<wait, resumes, torn>>, tracked' \in {tracked, {}}, handled' \in {handled, {}}
      PROVE  WaitsInv'
  BY <1>0, <1>1 DEF WaitsInv, WaitTypes, ResumedOnce, EndedWaitIsResumed
<1>2. ASSUME NEW w \in Waits, NEW status \in {"registered", "active"}, Created(w, status), tracked' \subseteq Waits
      PROVE  WaitsInv'
  <2>1. /\ wait[w] = "none" /\ wait' = [wait EXCEPT ![w] = status] /\ UNCHANGED <<resumes, handled, torn>>
    BY <1>2 DEF Created
  <2>2. WaitTypes'
    BY <1>0, <1>2, <2>1 DEF WaitTypes
  <2>3. wait'[w] \notin Outcomes /\ \A q \in Waits : q # w => wait'[q] = wait[q]
    BY <1>0, <2>1 DEF Outcomes
  <2>4. EndedWaitIsResumed'
    BY <1>0, <2>1, <2>3 DEF EndedWaitIsResumed
  <2>5. ResumedOnce'
    <3>1. Owner[w] # "async" => resumes[w] = <<>>
      <4>1. SUFFICES ASSUME Owner[w] # "async", resumes[w] # <<>> PROVE FALSE
        OBVIOUS
      <4>2. Len(resumes[w]) = 1 /\ wait[w] = resumes[w][1] /\ resumes[w] \in Seq(Outcomes)
        BY <1>0, <4>1 DEF ResumedOnce
      <4>3. resumes[w][1] \in Outcomes
        BY <4>2, LenProperties
      <4> QED BY <2>1, <4>2, <4>3 DEF Outcomes
    <3> QED BY <1>0, <2>1, <2>3, <3>1 DEF ResumedOnce
  <2> QED BY <2>2, <2>4, <2>5 DEF WaitsInv
<1>3. ASSUME NEW w \in Waits,
             RegisterWaitCondition(w) \/ TrackAsyncOperation(w) \/ RegisterWaitForOperation(w)
      PROVE  WaitsInv'
  BY <1>0, <1>2, <1>3 DEF RegisterWaitCondition, TrackAsyncOperation, RegisterWaitForOperation
<1> DEFINE Kept == /\ wait' \in [Waits -> {"absent", "none", "registered", "active"} \cup Outcomes]
                   /\ resumes' \in [Waits -> Seq(Outcomes)]
                   /\ ResumedOnce' /\ EndedWaitIsResumed'
<1>4. Expired \subseteq Waits /\ \A w \in Expired : Open(w)
  BY DEF Expired
<1>5. "timeout" \in Outcomes
  BY DEF Outcomes
<1>6. ASSUME EvaluateWaitConditions PROVE WaitsInv'
  BY <1>0, <1>4, <1>5, <1>6, MarkKeeps DEF EvaluateWaitConditions, WaitsInv, WaitTypes
<1>7. ASSUME NEW w \in Waits, NEW outcome \in Outcomes, BridgeEvent(w, outcome) PROVE WaitsInv'
  <2>1. Open(w) /\ Mark({w}, outcome) /\ Resume({w}, outcome) /\ tracked' = tracked \ {w} /\ UNCHANGED <<handled, torn>>
    BY <1>7 DEF BridgeEvent, BridgeTakes
  <2>2. {w} \in SUBSET Waits /\ torn \subseteq torn'
        /\ (\A q \in {w} : Owner[q] # "async" => Open(q))
        /\ (\A q \in {w} : q \in {w} \/ HasAction(q, outcome) \/ q \in torn')
    BY <2>1
  <2>3. Kept
    BY <2>1, <2>2, MarkKeeps
  <2> QED BY <1>0, <2>1, <2>3 DEF WaitsInv, WaitTypes
<1>8. ASSUME NEW w \in Waits, NEW outcome \in Outcomes, NEW stamp \in Stamps, AsyncEvent(w, outcome, stamp)
      PROVE  WaitsInv'
  <2>1. /\ Owner[w] = "async" /\ Mark({w}, outcome) /\ handled' = handled \cup {<<w, outcome, stamp>>}
        /\ Resume(IF HasAction(w, outcome) THEN {} ELSE {w}, outcome) /\ UNCHANGED <<tracked, torn>>
    BY <1>8 DEF AsyncEvent, AsyncTakes
  <2> DEFINE done == IF HasAction(w, outcome) THEN {} ELSE {w}
  <2>2. {w} \in SUBSET Waits /\ done \in SUBSET {w} /\ torn \subseteq torn'
        /\ (\A q \in {w} : Owner[q] # "async" => Open(q))
        /\ (\A q \in {w} : q \in done \/ HasAction(q, outcome) \/ q \in torn')
    BY <2>1
  <2> HIDE DEF done
  <2>3. Resume(done, outcome)
    BY <2>1 DEF done
  <2>4. Kept
    BY <2>1, <2>2, <2>3, MarkKeeps
  <2>5. <<w, outcome, stamp>> \in Waits \X Outcomes \X Stamps
    OBVIOUS
  <2> QED BY <1>0, <2>1, <2>4, <2>5 DEF WaitsInv, WaitTypes
<1>9. ASSUME ScanBreaks PROVE WaitsInv'
  <2>1. PICK done \in SUBSET Expired, w \in Expired :
          /\ Mark(done \cup {w}, "timeout") /\ Resume(done, "timeout")
          /\ torn' = torn \cup {w} /\ ForgetWaits
    BY <1>9 DEF ScanBreaks
  <2> DEFINE marked == done \cup {w}
  <2>2. marked \in SUBSET Waits /\ done \in SUBSET marked /\ \A q \in marked : Open(q)
    BY <1>4
  <2> HIDE DEF marked
  <2>3. Mark(marked, "timeout") /\ \A q \in marked : q \in done \/ q \in torn'
    BY <2>1 DEF marked
  <2> QED BY <1>0, <1>4, <1>5, <2>1, <2>2, <2>3, MarkKeeps DEF WaitsInv, WaitTypes, ForgetWaits
<1>10. ASSUME NEW w \in Waits, NEW outcome \in Outcomes, EventBreaks(w, outcome) PROVE WaitsInv'
  <2>1. /\ Owner[w] # "async" => Open(w)
        /\ Mark({w}, outcome) /\ torn' = torn \cup {w} /\ ForgetWaits /\ UNCHANGED resumes
    BY <1>10 DEF EventBreaks, BridgeTakes, AsyncTakes
  <2>2. Resume({}, outcome)
    BY <1>0, <2>1 DEF Resume
  <2> QED BY <1>0, <2>1, <2>2, MarkKeeps DEF WaitsInv, WaitTypes, ForgetWaits
<1>11. ASSUME WaitsNext PROVE WaitsInv'
  BY <1>3, <1>6, <1>7, <1>8, <1>11 DEF WaitsNext
<1>12. ASSUME UNCHANGED waitVars PROVE WaitsInv'
  BY <1>1, <1>12 DEF waitVars
<1>13. ASSUME ForgetWaits, UNCHANGED <<wait, resumes, torn>> PROVE WaitsInv'
  BY <1>1, <1>13 DEF ForgetWaits
<1> QED BY <1>9, <1>10, <1>11, <1>12, <1>13 DEF Next, Tick, WaitsBreak, vars

\* The invariant of the conditions holds in every reachable state.
THEOREM WaitsInvariance == Spec => []WaitsInv
<1>1. Init => WaitsInv
  <2>1. <<>> \in Seq(Outcomes)
    BY EmptySeq
  <2> QED BY <2>1 DEF Init, WaitsInv, WaitTypes, ResumedOnce, EndedWaitIsResumed, Outcomes
<1>2. WaitsInv /\ TriggersInv /\ [Next]_vars => WaitsInv'
  BY WaitsKeep DEF TriggersInv
<1> QED BY TriggersInvariance, <1>1, <1>2, PTL DEF Spec

\* A condition of the runtime or the bridge is resumed once at most and its row keeps
\* the outcome it was resumed with, whatever late, repeated or contradicting event
\* races the timeout scan (connector-event-bridge.ts, event-trigger-runtime.ts).
THEOREM WaitsResumeOnce == Spec => []WaitResumedOnce
<1>1. TriggersInv => TriggersTypeOK
  <2> SUFFICES ASSUME TriggersInv PROVE TriggersTypeOK
    OBVIOUS
  <2>1. \A t \in Schedules : DOMAIN fired[t] = 1..Len(fired[t])
    BY LenProperties DEF TriggersInv, TriggersTypes
  <2>2. \A t \in Schedules : \A k \in DOMAIN fired[t] : fired[t][k] <= now
    BY <2>1 DEF TriggersInv, FiredInTime
  <2>3. pass.todo \subseteq pass.matched
    BY DEF TriggersInv, PassInv
  <2> QED BY <2>2, <2>3 DEF TriggersInv, TriggersTypes, TriggersTypeOK, Registration
<1>2. TriggersTypeOK /\ WaitsInv => WaitResumedOnce
  BY DEF WaitsInv, WaitTypes, ResumedOnce, WaitResumedOnce, TypeOK
<1> QED BY TriggersInvariance, WaitsInvariance, <1>1, <1>2, PTL

\* The target of an ended condition has an action for the outcome in the row, also
\* when an event overwrites an earlier outcome, unless the process ended between the
\* two writes (async-integration.ts).
THEOREM EndedWaitsResume == Spec => []EndedWaitIsResumed
<1>1. WaitsInv => EndedWaitIsResumed
  BY DEF WaitsInv
<1> QED BY WaitsInvariance, <1>1, PTL
=============================================================================
