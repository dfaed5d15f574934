-------------------------- MODULE ChildTasksProofs --------------------------
(***************************************************************************)
(* Proofs about ChildTasks and PlannerRun, for any attempts, turns, plans, *)
(* launch limits and restarts.                                             *)
(*                                                                         *)
(* cancelRun writes the row and the memory flag together, and executeRun   *)
(* decides by the flag alone.  So the invariant ties the flag to the row   *)
(* of every attempt whose executeRun is still under way, and the signal to *)
(* the flag of every foreground kernel: only a planner child can be        *)
(* cancelled before it has a controller.                                   *)
(***************************************************************************)
EXTENDS ChildTasks, TLAPS

UnderWay == {"planning", "kernel"}

\* executeRun is under way only for a launched attempt, and its flag says whether
\* the row was cancelled under it.
FlagTellsTheRow ==
  /\ \A a \in isCancelled : row[a] = "cancelled"
  /\ \A a \in Attempts :
       place[a] \in UnderWay => row[a] = "running" \/ (row[a] = "cancelled" /\ a \in isCancelled)

\* A kernel that runs has its controller, only planner children plan, a wait is
\* for a kernel, and a foreground kernel under a cancelled row sees its signal.
KernelsAreReachable ==
  /\ \A a \in Attempts : place[a] = "kernel" => a \in controllers
  /\ \A a \in Attempts : place[a] = "planning" => a \in Planners
  /\ \A a \in Foreground : waiting[a] = "yes" => place[a] = "kernel"
  /\ \A a \in Foreground : a \in isCancelled /\ place[a] = "kernel" => a \in signalled

NotLaunched ==
  /\ \A a \in Attempts : row[a] = "none" => place[a] = "none"
  /\ \A a \in Foreground : row[a] = "none" <=> waiting[a] = "no"

ChildTypeOK ==
  /\ cast \in Casts
  /\ row \in [Attempts -> Terminal \cup {"none", "running"}]
  /\ isCancelled \subseteq Attempts
  /\ place \in [Attempts -> Places]
  /\ controllers \subseteq Attempts /\ signalled \subseteq Attempts
  /\ waiting \in [Foreground -> {"no", "yes", "completed", "timeout", "aborted", "lost"}]
  /\ events \in [Attempts -> SUBSET (Terminal \cup {"started"})]
  /\ abortedTurns \subseteq Turns /\ deadTurns \subseteq Turns
  /\ enqueued \subseteq Planners
  /\ restarts \in 0..MaxRestarts

ChildInv ==
  /\ ChildTypeOK /\ EventsTellTheRow /\ WaitTellsTheRow /\ NoForegroundOrphan
  /\ FlagTellsTheRow /\ KernelsAreReachable /\ NotLaunched

PlanInv == PlannerTypeOK /\ CompletedPlanIsComplete

-----------------------------------------------------------------------------
(* The plan *)

\* What a step may do to the planner run: one of its operations, or nothing.
PlannerStep ==
  \/ UNCHANGED plannerVars
  \/ \E S \in SUBSET StepIds : CreatePlannerRun(S) \/ SetPlanSteps(S)
  \/ \E s \in StepIds, state \in StepStates : MarkStep(s, state)
  \/ ResumePlannerRun \/ CompletePlannerRun \/ CancelPlannerRun \/ PausePlannerRun
  \/ Replan \/ ArchivePlannerRun \/ RequestWait

\* Whoever takes a step, it does no more than that.
LEMMA NextIsPlannerStep ==
  ASSUME [Next]_vars
  PROVE  PlannerStep
<1>1. CASE \E a \in Foreground : LaunchForeground(a) \/ BudgetExpires(a)
  BY <1>1 DEF LaunchForeground, BudgetExpires, PlannerStep
<1>2. CASE \E a \in Background : LaunchBackground(a)
  BY <1>2 DEF LaunchBackground, PlannerStep
<1>3. CASE \E t \in Turns : TurnAborts(t)
  BY <1>3 DEF TurnAborts, PlannerStep
<1>4. CASE \E a \in Attempts : CancelRun(a)
  BY <1>4 DEF CancelRun, PlannerStep
<1>5. CASE \E a \in Attempts, status \in Terminal : KernelReturns(a, status)
  BY <1>5 DEF KernelReturns, PlannerStep
<1>6. CASE \E a \in Planners, S \in SUBSET StepIds \ {{}} : PlanGenerated(a, S) \/ SpawnPlanner(a, S)
  BY <1>6 DEF PlanGenerated, SpawnPlanner, PlannerStep
<1>7. CASE \E a \in Planners, s \in StepIds, state \in StepStates \ {"pending"} : MarksStep(a, s, state)
  BY <1>7 DEF MarksStep, PlannerStep
<1>8. CASE \E a \in Planners : CompletesPlanner(a) \/ ResumePlanner(a)
  BY <1>8 DEF CompletesPlanner, ResumePlanner, PlannerStep
<1>9. CASE PlannerOperation
  BY <1>9 DEF PlannerOperation, PlannerStep
<1>10. CASE Restart
  BY <1>10 DEF Restart, PlannerStep
<1>11. CASE UNCHANGED vars
  BY <1>11 DEF vars, PlannerStep
<1> QED BY <1>1, <1>2, <1>3, <1>4, <1>5, <1>6, <1>7, <1>8, <1>9, <1>10, <1>11 DEF Next

\* What an ended planner run keeps in a step.
Frozen ==
  /\ plannerStatus \in PlannerTerminal =>
       /\ plannerStatus' \in {plannerStatus, "cancelled", "archived"}
       /\ steps' = steps
  /\ plannerStatus = "archived" => plannerStatus' \in {"archived", "cancelled"}

\* Every operation of the planner keeps a completed plan complete and an ended one frozen.
LEMMA PlannerStepKeeps ==
  ASSUME PlanInv, PlannerStep
  PROVE  PlanInv' /\ Frozen
<1> USE DEF PlanInv, PlannerTypeOK, CompletedPlanIsComplete, Frozen, PlannerStates, Waiting, PlannerTerminal
<1>1. CASE UNCHANGED plannerVars
  BY <1>1 DEF plannerVars
<1>2. ASSUME NEW S \in SUBSET StepIds, CreatePlannerRun(S) \/ SetPlanSteps(S) PROVE PlanInv' /\ Frozen
  BY <1>2 DEF CreatePlannerRun, SetPlanSteps, PlanRefused, StepStates
<1>3. ASSUME NEW s \in StepIds, NEW state \in StepStates, MarkStep(s, state) PROVE PlanInv' /\ Frozen
  BY <1>3 DEF MarkStep, plannerVars
<1>4. CASE CompletePlannerRun
  BY <1>4 DEF CompletePlannerRun, plannerVars, StepStates
<1>5. CASE ResumePlannerRun
  BY <1>5 DEF ResumePlannerRun, TransitionState, plannerVars
<1>6. CASE CancelPlannerRun \/ ArchivePlannerRun
  BY <1>6 DEF CancelPlannerRun, ArchivePlannerRun
<1>7. CASE PausePlannerRun \/ Replan
  BY <1>7 DEF PausePlannerRun, Replan, TransitionState, IsValidTransition
<1>8. CASE RequestWait
  BY <1>8, WaitsAssumption DEF RequestWait, TransitionState, IsValidTransition
<1> QED BY <1>1, <1>2, <1>3, <1>4, <1>5, <1>6, <1>7, <1>8 DEF PlannerStep

\* The plan's invariant holds.
LEMMA PlanInvariance == Spec => []PlanInv
<1>1. Init => PlanInv
  BY DEF Init, PlannerInit, PlanInv, PlannerTypeOK, CompletedPlanIsComplete
<1>2. PlanInv /\ [Next]_vars => PlanInv'
  BY NextIsPlannerStep, PlannerStepKeeps
<1> QED BY <1>1, <1>2, PTL DEF Spec

\* A completed planner run has no open step, for any plan, any number of planner
\* children and any interleaving of their marks (completePlannerRun, markStep).
THEOREM PlansComplete == Spec => []CompletedPlanIsComplete
<1>1. PlanInv => CompletedPlanIsComplete
  BY DEF PlanInv
<1> QED BY <1>1, PlanInvariance, PTL

-----------------------------------------------------------------------------
(* The attempts *)

\* No row that ended changes in a step.
EndingKept == \A a \in Attempts : row[a] \in Terminal => row'[a] = row[a]

\* The events of an attempt with row r.
EventsOf(r) == IF r = "none" THEN {} ELSE {"started"} \cup ({r} \cap Terminal)

\* The first terminal event of a running attempt is that of its row.
LEMMA EventAdded ==
  ASSUME NEW st \in Terminal
  PROVE  EventsOf("running") \cup {st} = EventsOf(st)
BY DEF EventsOf, Terminal

\* A foreground attempt is launched, by a turn that goes on or that is aborted.
LEMMA LaunchForegroundKeeps ==
  ASSUME ChildInv, NEW a \in Foreground, LaunchForeground(a)
  PROVE  ChildInv' /\ EndingKept
<1> USE AttemptsAssumption DEF ChildInv, Attempts, Terminal, Places, UnderWay
<1>1. row[a] = "none" /\ place[a] = "none" /\ a \in Attempts /\ a \notin isCancelled
  BY DEF LaunchForeground, NotLaunched, FlagTellsTheRow
<1>2. UNCHANGED <<signalled, abortedTurns, deadTurns, enqueued, cast, restarts>>
  BY DEF LaunchForeground
<1>3. CASE TurnOf[a] \notin abortedTurns
  <2>1. /\ row' = [row EXCEPT ![a] = "running"] /\ events' = [events EXCEPT ![a] = {"started"}]
        /\ place' = [place EXCEPT ![a] = "kernel"] /\ controllers' = controllers \cup {a}
        /\ waiting' = [waiting EXCEPT ![a] = "yes"] /\ isCancelled' = isCancelled
    BY <1>3 DEF LaunchForeground, LaunchTask, EnterKernel
  <2>11. ChildTypeOK'
    BY <1>1, <1>2, <2>1 DEF ChildTypeOK
  <2>12. EventsTellTheRow'
    BY <1>1, <1>2, <2>1 DEF ChildTypeOK, EventsTellTheRow
  <2>13. WaitTellsTheRow'
    BY <1>1, <1>2, <2>1 DEF ChildTypeOK, WaitTellsTheRow, FlagTellsTheRow, KernelsAreReachable, NotLaunched
  <2>14. NoForegroundOrphan'
    BY <1>1, <1>2, <2>1 DEF ChildTypeOK, NoForegroundOrphan, FlagTellsTheRow, KernelsAreReachable, NotLaunched
  <2>15. FlagTellsTheRow'
    BY <1>1, <1>2, <2>1 DEF ChildTypeOK, FlagTellsTheRow, NotLaunched
  <2>16. KernelsAreReachable'
    BY <1>1, <1>2, <2>1 DEF ChildTypeOK, FlagTellsTheRow, KernelsAreReachable, NotLaunched
  <2>17. NotLaunched'
    BY <1>1, <1>2, <2>1 DEF ChildTypeOK, NotLaunched
  <2>18. EndingKept
    BY <1>1, <1>2, <2>1 DEF EndingKept, ChildTypeOK, FlagTellsTheRow
  <2> QED BY <2>11, <2>12, <2>13, <2>14, <2>15, <2>16, <2>17, <2>18
<1>4. CASE TurnOf[a] \in abortedTurns
  <2>1. /\ row' = [row EXCEPT ![a] = "cancelled"] /\ events' = [events EXCEPT ![a] = {"started", "cancelled"}]
        /\ isCancelled' = isCancelled \cup {a} /\ waiting' = [waiting EXCEPT ![a] = "aborted"]
        /\ place' = place /\ controllers' = controllers
    BY <1>4 DEF LaunchForeground
  <2>11. ChildTypeOK'
    BY <1>1, <1>2, <2>1 DEF ChildTypeOK
  <2>12. EventsTellTheRow'
    BY <1>1, <1>2, <2>1 DEF ChildTypeOK, EventsTellTheRow
  <2>13. WaitTellsTheRow'
    BY <1>1, <1>2, <2>1 DEF ChildTypeOK, WaitTellsTheRow, FlagTellsTheRow, KernelsAreReachable, NotLaunched
  <2>14. NoForegroundOrphan'
    BY <1>1, <1>2, <2>1 DEF ChildTypeOK, NoForegroundOrphan, FlagTellsTheRow, KernelsAreReachable, NotLaunched
  <2>15. FlagTellsTheRow'
    BY <1>1, <1>2, <2>1 DEF ChildTypeOK, FlagTellsTheRow, NotLaunched
  <2>16. KernelsAreReachable'
    BY <1>1, <1>2, <2>1 DEF ChildTypeOK, FlagTellsTheRow, KernelsAreReachable, NotLaunched
  <2>17. NotLaunched'
    BY <1>1, <1>2, <2>1 DEF ChildTypeOK, NotLaunched
  <2>18. EndingKept
    BY <1>1, <1>2, <2>1 DEF EndingKept, ChildTypeOK, FlagTellsTheRow
  <2> QED BY <2>11, <2>12, <2>13, <2>14, <2>15, <2>16, <2>17, <2>18
<1> QED BY <1>3, <1>4

\* The background worker launches an attempt.
LEMMA LaunchBackgroundKeeps ==
  ASSUME ChildInv, NEW a \in Background, LaunchBackground(a)
  PROVE  ChildInv' /\ EndingKept
<1> USE AttemptsAssumption DEF ChildInv, Attempts, Terminal, Places, UnderWay
<1>1. row[a] = "none" /\ place[a] = "none" /\ a \in Attempts /\ a \notin isCancelled /\ a \notin Foreground
  BY DEF LaunchBackground, NotLaunched, FlagTellsTheRow
<1>2. /\ row' = [row EXCEPT ![a] = "running"] /\ events' = [events EXCEPT ![a] = {"started"}]
      /\ UNCHANGED <<isCancelled, signalled, waiting, abortedTurns, deadTurns, enqueued, cast, restarts>>
  BY DEF LaunchBackground, LaunchTask
<1>3. CASE a \in Planners
  <2>1. place' = [place EXCEPT ![a] = "planning"] /\ controllers' = controllers
    BY <1>3 DEF LaunchBackground
  <2>11. ChildTypeOK'
    BY <1>1, <1>2, <1>3, <2>1 DEF ChildTypeOK
  <2>12. EventsTellTheRow'
    BY <1>1, <1>2, <1>3, <2>1 DEF ChildTypeOK, EventsTellTheRow
  <2>13. WaitTellsTheRow'
    BY <1>1, <1>2, <1>3, <2>1 DEF ChildTypeOK, WaitTellsTheRow, FlagTellsTheRow, KernelsAreReachable, NotLaunched
  <2>14. NoForegroundOrphan'
    BY <1>1, <1>2, <1>3, <2>1 DEF ChildTypeOK, NoForegroundOrphan, FlagTellsTheRow, KernelsAreReachable, NotLaunched
  <2>15. FlagTellsTheRow'
    BY <1>1, <1>2, <1>3, <2>1 DEF ChildTypeOK, FlagTellsTheRow, NotLaunched
  <2>16. KernelsAreReachable'
    BY <1>1, <1>2, <1>3, <2>1 DEF ChildTypeOK, FlagTellsTheRow, KernelsAreReachable, NotLaunched
  <2>17. NotLaunched'
    BY <1>1, <1>2, <1>3, <2>1 DEF ChildTypeOK, NotLaunched
  <2>18. EndingKept
    BY <1>1, <1>2, <1>3, <2>1 DEF EndingKept, ChildTypeOK, FlagTellsTheRow
  <2> QED BY <2>11, <2>12, <2>13, <2>14, <2>15, <2>16, <2>17, <2>18
<1>4. CASE a \notin Planners
  <2>1. place' = [place EXCEPT ![a] = "kernel"] /\ controllers' = controllers \cup {a}
    BY <1>4 DEF LaunchBackground, EnterKernel
  <2>11. ChildTypeOK'
    BY <1>1, <1>2, <2>1 DEF ChildTypeOK
  <2>12. EventsTellTheRow'
    BY <1>1, <1>2, <2>1 DEF ChildTypeOK, EventsTellTheRow
  <2>13. WaitTellsTheRow'
    BY <1>1, <1>2, <2>1 DEF ChildTypeOK, WaitTellsTheRow, FlagTellsTheRow, KernelsAreReachable, NotLaunched
  <2>14. NoForegroundOrphan'
    BY <1>1, <1>2, <2>1 DEF ChildTypeOK, NoForegroundOrphan, FlagTellsTheRow, KernelsAreReachable, NotLaunched
  <2>15. FlagTellsTheRow'
    BY <1>1, <1>2, <2>1 DEF ChildTypeOK, FlagTellsTheRow, NotLaunched
  <2>16. KernelsAreReachable'
    BY <1>1, <1>2, <2>1 DEF ChildTypeOK, FlagTellsTheRow, KernelsAreReachable, NotLaunched
  <2>17. NotLaunched'
    BY <1>1, <1>2, <2>1 DEF ChildTypeOK, NotLaunched
  <2>18. EndingKept
    BY <1>1, <1>2, <2>1 DEF EndingKept, ChildTypeOK, FlagTellsTheRow
  <2> QED BY <2>11, <2>12, <2>13, <2>14, <2>15, <2>16, <2>17, <2>18
<1> QED BY <1>3, <1>4

\* The budget of a wait is over.
LEMMA BudgetKeeps ==
  ASSUME ChildInv, NEW a \in Foreground, BudgetExpires(a)
  PROVE  ChildInv' /\ EndingKept
<1> USE AttemptsAssumption DEF ChildInv, Attempts, Terminal, Places, UnderWay
<1>1. /\ waiting[a] = "yes" /\ place[a] = "kernel" /\ a \in controllers /\ a \in Attempts
      /\ row[a] = "running" \/ (row[a] = "cancelled" /\ a \in isCancelled)
  BY DEF BudgetExpires, KernelsAreReachable, FlagTellsTheRow
<1>2. /\ waiting' = [waiting EXCEPT ![a] = "timeout"]
      /\ UNCHANGED <<place, controllers, abortedTurns, deadTurns, enqueued, cast, restarts>>
  BY DEF BudgetExpires
<1>3. CASE row[a] = "running"
  <2>1. /\ row' = [b \in Attempts |-> IF b = a THEN "cancelled" ELSE row[b]]
        /\ isCancelled' = isCancelled \cup {a} /\ signalled' = signalled \cup {a}
        /\ events' = [b \in Attempts |-> IF b = a THEN events[b] \cup {"cancelled"} ELSE events[b]]
    BY <1>1, <1>3 DEF BudgetExpires, CancelRuns, Live
  <2>11. ChildTypeOK'
    BY <1>1, <1>2, <1>3, <2>1 DEF ChildTypeOK
  <2>12. EventsTellTheRow'
    <3> SUFFICES ASSUME NEW b \in Attempts PROVE events'[b] = EventsOf(row'[b])
      BY DEF EventsTellTheRow, EventsOf
    <3>1. events[b] = EventsOf(row[b])
      BY DEF EventsTellTheRow, EventsOf
    <3>2. CASE b = a
      <4>1. events'[b] = EventsOf("running") \cup {"cancelled"} /\ row'[b] = "cancelled"
        BY <1>1, <1>2, <1>3, <2>1, <3>1, <3>2 DEF ChildTypeOK
      <4> QED BY <4>1, EventAdded
    <3>3. CASE ~(b = a)
      BY <1>1, <1>2, <1>3, <2>1, <3>1, <3>3 DEF ChildTypeOK
    <3> QED BY <3>2, <3>3
  <2>13. WaitTellsTheRow'
    BY <1>1, <1>2, <1>3, <2>1 DEF ChildTypeOK, WaitTellsTheRow, FlagTellsTheRow, KernelsAreReachable, NotLaunched
  <2>14. NoForegroundOrphan'
    BY <1>1, <1>2, <1>3, <2>1 DEF ChildTypeOK, NoForegroundOrphan, FlagTellsTheRow, KernelsAreReachable, NotLaunched
  <2>15. FlagTellsTheRow'
    BY <1>1, <1>2, <1>3, <2>1 DEF ChildTypeOK, FlagTellsTheRow, NotLaunched
  <2>16. KernelsAreReachable'
    BY <1>1, <1>2, <1>3, <2>1 DEF ChildTypeOK, FlagTellsTheRow, KernelsAreReachable, NotLaunched
  <2>17. NotLaunched'
    BY <1>1, <1>2, <1>3, <2>1 DEF ChildTypeOK, NotLaunched
  <2>18. EndingKept
    BY <1>1, <1>2, <1>3, <2>1 DEF EndingKept, ChildTypeOK, FlagTellsTheRow
  <2> QED BY <2>11, <2>12, <2>13, <2>14, <2>15, <2>16, <2>17, <2>18
<1>4. CASE row[a] # "running"
  <2>1. row' = row /\ isCancelled' = isCancelled /\ signalled' = signalled /\ events' = events
    BY <1>4 DEF BudgetExpires, CancelRuns, Live, ChildTypeOK
  <2>11. ChildTypeOK'
    BY <1>1, <1>2, <1>4, <2>1 DEF ChildTypeOK
  <2>12. EventsTellTheRow'
    BY <1>1, <1>2, <1>4, <2>1 DEF ChildTypeOK, EventsTellTheRow
  <2>13. WaitTellsTheRow'
    BY <1>1, <1>2, <1>4, <2>1 DEF ChildTypeOK, WaitTellsTheRow, FlagTellsTheRow, KernelsAreReachable, NotLaunched
  <2>14. NoForegroundOrphan'
    BY <1>1, <1>2, <1>4, <2>1 DEF ChildTypeOK, NoForegroundOrphan, FlagTellsTheRow, KernelsAreReachable, NotLaunched
  <2>15. FlagTellsTheRow'
    BY <1>1, <1>2, <1>4, <2>1 DEF ChildTypeOK, FlagTellsTheRow, NotLaunched
  <2>16. KernelsAreReachable'
    BY <1>1, <1>2, <1>4, <2>1 DEF ChildTypeOK, FlagTellsTheRow, KernelsAreReachable, NotLaunched
  <2>17. NotLaunched'
    BY <1>1, <1>2, <1>4, <2>1 DEF ChildTypeOK, NotLaunched
  <2>18. EndingKept
    BY <1>1, <1>2, <1>4, <2>1 DEF EndingKept, ChildTypeOK, FlagTellsTheRow
  <2> QED BY <2>11, <2>12, <2>13, <2>14, <2>15, <2>16, <2>17, <2>18
<1> QED BY <1>3, <1>4

\* cancelRun.
LEMMA CancelKeeps ==
  ASSUME ChildInv, NEW a \in Attempts, CancelRun(a)
  PROVE  ChildInv' /\ EndingKept
<1> USE AttemptsAssumption DEF ChildInv, Attempts, Terminal, Places, UnderWay
<1>1. /\ row[a] = "running"
      /\ UNCHANGED <<place, controllers, waiting, abortedTurns, deadTurns, enqueued, cast, restarts>>
      /\ row' = [b \in Attempts |-> IF b = a THEN "cancelled" ELSE row[b]]
      /\ isCancelled' = isCancelled \cup {a} /\ signalled' = signalled \cup ({a} \cap controllers)
      /\ events' = [b \in Attempts |-> IF b = a THEN events[b] \cup {"cancelled"} ELSE events[b]]
  BY DEF CancelRun, CancelRuns, Live
<1>11. ChildTypeOK'
  BY <1>1 DEF ChildTypeOK
<1>12. EventsTellTheRow'
  <2> SUFFICES ASSUME NEW b \in Attempts PROVE events'[b] = EventsOf(row'[b])
    BY DEF EventsTellTheRow, EventsOf
  <2>1. events[b] = EventsOf(row[b])
    BY DEF EventsTellTheRow, EventsOf
  <2>2. CASE b = a
    <3>1. events'[b] = EventsOf("running") \cup {"cancelled"} /\ row'[b] = "cancelled"
      BY <1>1, <2>1, <2>2 DEF ChildTypeOK
    <3> QED BY <3>1, EventAdded
  <2>3. CASE ~(b = a)
    BY <1>1, <2>1, <2>3 DEF ChildTypeOK
  <2> QED BY <2>2, <2>3
<1>13. WaitTellsTheRow'
  BY <1>1 DEF ChildTypeOK, WaitTellsTheRow, FlagTellsTheRow, KernelsAreReachable, NotLaunched
<1>14. NoForegroundOrphan'
  BY <1>1 DEF ChildTypeOK, NoForegroundOrphan, FlagTellsTheRow, KernelsAreReachable, NotLaunched
<1>15. FlagTellsTheRow'
  BY <1>1 DEF ChildTypeOK, FlagTellsTheRow, NotLaunched
<1>16. KernelsAreReachable'
  BY <1>1 DEF ChildTypeOK, FlagTellsTheRow, KernelsAreReachable, NotLaunched
<1>17. NotLaunched'
  BY <1>1 DEF ChildTypeOK, NotLaunched
<1>18. EndingKept
  BY <1>1 DEF EndingKept, ChildTypeOK, FlagTellsTheRow
<1> QED BY <1>11, <1>12, <1>13, <1>14, <1>15, <1>16, <1>17, <1>18

\* The turn's signal is aborted.
LEMMA AbortKeeps ==
  ASSUME ChildInv, NEW t \in Turns, TurnAborts(t)
  PROVE  ChildInv' /\ EndingKept
<1> USE AttemptsAssumption DEF ChildInv, Attempts, Terminal, Places, UnderWay
<1> DEFINE mine == {a \in Foreground : TurnOf[a] = t}
           live == {a \in mine : waiting[a] = "yes" /\ Live(a)}
<1>1. /\ UNCHANGED <<place, controllers, deadTurns, enqueued, cast, restarts>>
      /\ abortedTurns' = abortedTurns \cup {t}
      /\ row' = [a \in Attempts |-> IF a \in live THEN "cancelled" ELSE row[a]]
      /\ isCancelled' = isCancelled \cup live
      /\ events' = [a \in Attempts |-> IF a \in live THEN events[a] \cup {"cancelled"} ELSE events[a]]
      /\ signalled' = signalled \cup {a \in mine : place[a] = "kernel"}
      /\ waiting' = [a \in Foreground |-> IF a \in mine /\ waiting[a] = "yes" THEN "aborted" ELSE waiting[a]]
  BY DEF TurnAborts
<1>2. /\ live \subseteq mine /\ mine \subseteq Foreground
      /\ \A a \in mine : a \in live <=> waiting[a] = "yes" /\ row[a] = "running"
  BY DEF Live
<1> HIDE DEF mine, live
<1>11. ChildTypeOK'
  BY <1>1, <1>2 DEF ChildTypeOK
<1>12. EventsTellTheRow'
  <2> SUFFICES ASSUME NEW b \in Attempts PROVE events'[b] = EventsOf(row'[b])
    BY DEF EventsTellTheRow, EventsOf
  <2>1. events[b] = EventsOf(row[b])
    BY DEF EventsTellTheRow, EventsOf
  <2>2. CASE b \in live
    <3>1. events'[b] = EventsOf("running") \cup {"cancelled"} /\ row'[b] = "cancelled"
      BY <1>1, <1>2, <2>1, <2>2 DEF ChildTypeOK
    <3> QED BY <3>1, EventAdded
  <2>3. CASE ~(b \in live)
    BY <1>1, <1>2, <2>1, <2>3 DEF ChildTypeOK
  <2> QED BY <2>2, <2>3
<1>13. WaitTellsTheRow'
  BY <1>1, <1>2 DEF ChildTypeOK, WaitTellsTheRow, FlagTellsTheRow, KernelsAreReachable, NotLaunched
<1>14. NoForegroundOrphan'
  BY <1>1, <1>2 DEF ChildTypeOK, NoForegroundOrphan, FlagTellsTheRow, KernelsAreReachable, NotLaunched
<1>15. FlagTellsTheRow'
  BY <1>1, <1>2 DEF ChildTypeOK, FlagTellsTheRow, NotLaunched
<1>16. KernelsAreReachable'
  BY <1>1, <1>2 DEF ChildTypeOK, FlagTellsTheRow, KernelsAreReachable, NotLaunched
<1>17. NotLaunched'
  BY <1>1, <1>2 DEF ChildTypeOK, NotLaunched
<1>18. EndingKept
  BY <1>1, <1>2 DEF EndingKept, ChildTypeOK, FlagTellsTheRow
<1> QED BY <1>11, <1>12, <1>13, <1>14, <1>15, <1>16, <1>17, <1>18

\* A plan arrives, or is refused.
LEMMA PlanKeeps ==
  ASSUME ChildInv, NEW a \in Planners, NEW S, PlanGenerated(a, S)
  PROVE  ChildInv' /\ EndingKept
<1> USE AttemptsAssumption DEF ChildInv, Attempts, Terminal, Places, UnderWay
<1>1. a \in Attempts /\ a \notin Foreground /\ place[a] = "planning"
  BY DEF PlanGenerated
<1>2. UNCHANGED <<row, isCancelled, signalled, waiting, events, abortedTurns, deadTurns, enqueued, cast, restarts>>
  BY DEF PlanGenerated
<1>3. CASE PlanRefused
  <2>1. place' = [place EXCEPT ![a] = "rejected"] /\ controllers' = controllers
    BY <1>3 DEF PlanGenerated
  <2>11. ChildTypeOK'
    BY <1>1, <1>2, <2>1 DEF ChildTypeOK
  <2>12. EventsTellTheRow'
    BY <1>1, <1>2, <2>1 DEF ChildTypeOK, EventsTellTheRow
  <2>13. WaitTellsTheRow'
    BY <1>1, <1>2, <2>1 DEF ChildTypeOK, WaitTellsTheRow, FlagTellsTheRow, KernelsAreReachable, NotLaunched
  <2>14. NoForegroundOrphan'
    BY <1>1, <1>2, <2>1 DEF ChildTypeOK, NoForegroundOrphan, FlagTellsTheRow, KernelsAreReachable, NotLaunched
  <2>15. FlagTellsTheRow'
    BY <1>1, <1>2, <2>1 DEF ChildTypeOK, FlagTellsTheRow, NotLaunched
  <2>16. KernelsAreReachable'
    BY <1>1, <1>2, <2>1 DEF ChildTypeOK, FlagTellsTheRow, KernelsAreReachable, NotLaunched
  <2>17. NotLaunched'
    BY <1>1, <1>2, <2>1 DEF ChildTypeOK, NotLaunched
  <2>18. EndingKept
    BY <1>1, <1>2, <2>1 DEF EndingKept, ChildTypeOK, FlagTellsTheRow
  <2> QED BY <2>11, <2>12, <2>13, <2>14, <2>15, <2>16, <2>17, <2>18
<1>4. CASE ~PlanRefused
  <2>1. place' = [place EXCEPT ![a] = "kernel"] /\ controllers' = controllers \cup {a}
    BY <1>4 DEF PlanGenerated, EnterKernel
  <2>11. ChildTypeOK'
    BY <1>1, <1>2, <2>1 DEF ChildTypeOK
  <2>12. EventsTellTheRow'
    BY <1>1, <1>2, <2>1 DEF ChildTypeOK, EventsTellTheRow
  <2>13. WaitTellsTheRow'
    BY <1>1, <1>2, <2>1 DEF ChildTypeOK, WaitTellsTheRow, FlagTellsTheRow, KernelsAreReachable, NotLaunched
  <2>14. NoForegroundOrphan'
    BY <1>1, <1>2, <2>1 DEF ChildTypeOK, NoForegroundOrphan, FlagTellsTheRow, KernelsAreReachable, NotLaunched
  <2>15. FlagTellsTheRow'
    BY <1>1, <1>2, <2>1 DEF ChildTypeOK, FlagTellsTheRow, NotLaunched
  <2>16. KernelsAreReachable'
    BY <1>1, <1>2, <2>1 DEF ChildTypeOK, FlagTellsTheRow, KernelsAreReachable, NotLaunched
  <2>17. NotLaunched'
    BY <1>1, <1>2, <2>1 DEF ChildTypeOK, NotLaunched
  <2>18. EndingKept
    BY <1>1, <1>2, <2>1 DEF EndingKept, ChildTypeOK, FlagTellsTheRow
  <2> QED BY <2>11, <2>12, <2>13, <2>14, <2>15, <2>16, <2>17, <2>18
<1> QED BY <1>3, <1>4

\* The kernel returns.
LEMMA ReturnKeeps ==
  ASSUME ChildInv, NEW a \in Attempts, NEW status \in Terminal, KernelReturns(a, status)
  PROVE  ChildInv' /\ EndingKept
<1> USE AttemptsAssumption DEF ChildInv, Attempts, Terminal, Places, UnderWay
<1>1. place[a] = "kernel" /\ (row[a] = "running" \/ (row[a] = "cancelled" /\ a \in isCancelled))
  BY DEF KernelReturns, FlagTellsTheRow
<1>2. /\ place' = [place EXCEPT ![a] = "ended"] /\ controllers' = controllers \ {a}
      /\ waiting' = IF a \in Foreground /\ waiting[a] = "yes" THEN [waiting EXCEPT ![a] = "completed"] ELSE waiting
      /\ UNCHANGED <<isCancelled, signalled, abortedTurns, deadTurns, enqueued, cast, restarts>>
  BY DEF KernelReturns
<1>3. CASE a \in isCancelled
  <2>1. row' = row /\ events' = events /\ row[a] = "cancelled"
    BY <1>3 DEF KernelReturns, Settle, FlagTellsTheRow
  <2>11. ChildTypeOK'
    BY <1>1, <1>2, <1>3, <2>1 DEF ChildTypeOK
  <2>12. EventsTellTheRow'
    BY <1>1, <1>2, <1>3, <2>1 DEF ChildTypeOK, EventsTellTheRow
  <2>13. WaitTellsTheRow'
    BY <1>1, <1>2, <1>3, <2>1 DEF ChildTypeOK, WaitTellsTheRow, FlagTellsTheRow, KernelsAreReachable, NotLaunched
  <2>14. NoForegroundOrphan'
    BY <1>1, <1>2, <1>3, <2>1 DEF ChildTypeOK, NoForegroundOrphan, FlagTellsTheRow, KernelsAreReachable, NotLaunched
  <2>15. FlagTellsTheRow'
    BY <1>1, <1>2, <1>3, <2>1 DEF ChildTypeOK, FlagTellsTheRow, NotLaunched
  <2>16. KernelsAreReachable'
    BY <1>1, <1>2, <1>3, <2>1 DEF ChildTypeOK, FlagTellsTheRow, KernelsAreReachable, NotLaunched
  <2>17. NotLaunched'
    BY <1>1, <1>2, <1>3, <2>1 DEF ChildTypeOK, NotLaunched
  <2>18. EndingKept
    BY <1>1, <1>2, <1>3, <2>1 DEF EndingKept, ChildTypeOK, FlagTellsTheRow
  <2> QED BY <2>11, <2>12, <2>13, <2>14, <2>15, <2>16, <2>17, <2>18
<1>4. CASE a \notin isCancelled
  <2>1. /\ row[a] = "running" /\ row' = [row EXCEPT ![a] = status]
        /\ events' = [events EXCEPT ![a] = events[a] \cup {status}]
    BY <1>1, <1>4 DEF KernelReturns, Settle
  <2>11. ChildTypeOK'
    BY <1>1, <1>2, <1>4, <2>1 DEF ChildTypeOK
  <2>12. EventsTellTheRow'
    <3> SUFFICES ASSUME NEW b \in Attempts PROVE events'[b] = EventsOf(row'[b])
      BY DEF EventsTellTheRow, EventsOf
    <3>1. events[b] = EventsOf(row[b])
      BY DEF EventsTellTheRow, EventsOf
    <3>2. CASE b = a
      <4>1. events'[b] = EventsOf("running") \cup {status} /\ row'[b] = status
        BY <1>1, <1>2, <1>4, <2>1, <3>1, <3>2 DEF ChildTypeOK
      <4> QED BY <4>1, EventAdded
    <3>3. CASE ~(b = a)
      BY <1>1, <1>2, <1>4, <2>1, <3>1, <3>3 DEF ChildTypeOK
    <3> QED BY <3>2, <3>3
  <2>13. WaitTellsTheRow'
    BY <1>1, <1>2, <1>4, <2>1 DEF ChildTypeOK, WaitTellsTheRow, FlagTellsTheRow, KernelsAreReachable, NotLaunched
  <2>14. NoForegroundOrphan'
    BY <1>1, <1>2, <1>4, <2>1 DEF ChildTypeOK, NoForegroundOrphan, FlagTellsTheRow, KernelsAreReachable, NotLaunched
  <2>15. FlagTellsTheRow'
    BY <1>1, <1>2, <1>4, <2>1 DEF ChildTypeOK, FlagTellsTheRow, NotLaunched
  <2>16. KernelsAreReachable'
    BY <1>1, <1>2, <1>4, <2>1 DEF ChildTypeOK, FlagTellsTheRow, KernelsAreReachable, NotLaunched
  <2>17. NotLaunched'
    BY <1>1, <1>2, <1>4, <2>1 DEF ChildTypeOK, NotLaunched
  <2>18. EndingKept
    BY <1>1, <1>2, <1>4, <2>1 DEF EndingKept, ChildTypeOK, FlagTellsTheRow
  <2> QED BY <2>11, <2>12, <2>13, <2>14, <2>15, <2>16, <2>17, <2>18
<1> QED BY <1>3, <1>4

\* The process starts again.
LEMMA RestartKeeps ==
  ASSUME ChildInv, Restart
  PROVE  ChildInv' /\ EndingKept
<1> USE AttemptsAssumption DEF ChildInv, Attempts, Terminal, Places, UnderWay
<1>1. deadTurns' \subseteq Turns /\ restarts' \in 0..MaxRestarts
  BY BoundsAssumption DEF Restart, Turns, ChildTypeOK
<1>2. /\ place' = [a \in Attempts |-> IF place[a] \in {"planning", "kernel"} THEN "lost" ELSE place[a]]
      /\ waiting' = [a \in Foreground |-> IF waiting[a] = "yes" THEN "lost" ELSE waiting[a]]
      /\ controllers' = {} /\ signalled' = {} /\ isCancelled' = {a \in Attempts : row[a] = "cancelled"}
      /\ UNCHANGED <<row, events, abortedTurns, enqueued, cast>>
  BY DEF Restart
<1>11. ChildTypeOK'
  BY <1>1, <1>2 DEF ChildTypeOK
<1>12. EventsTellTheRow'
  BY <1>1, <1>2 DEF ChildTypeOK, EventsTellTheRow
<1>13. WaitTellsTheRow'
  BY <1>1, <1>2 DEF ChildTypeOK, WaitTellsTheRow, FlagTellsTheRow, KernelsAreReachable, NotLaunched
<1>14. NoForegroundOrphan'
  BY <1>1, <1>2 DEF ChildTypeOK, NoForegroundOrphan, FlagTellsTheRow, KernelsAreReachable, NotLaunched
<1>15. FlagTellsTheRow'
  BY <1>1, <1>2 DEF ChildTypeOK, FlagTellsTheRow, NotLaunched
<1>16. KernelsAreReachable'
  BY <1>1, <1>2 DEF ChildTypeOK, FlagTellsTheRow, KernelsAreReachable, NotLaunched
<1>17. NotLaunched'
  BY <1>1, <1>2 DEF ChildTypeOK, NotLaunched
<1>18. EndingKept
  BY <1>1, <1>2 DEF EndingKept, ChildTypeOK, FlagTellsTheRow
<1> QED BY <1>11, <1>12, <1>13, <1>14, <1>15, <1>16, <1>17, <1>18

\* The planner's own operations leave the attempts alone.
LEMMA PlannerKeeps ==
  ASSUME ChildInv,
         \/ \E a \in Planners : \E S : SpawnPlanner(a, S)
         \/ \E a \in Planners : \E s, state : MarksStep(a, s, state)
         \/ \E a \in Planners : CompletesPlanner(a) \/ ResumePlanner(a)
         \/ PlannerOperation
         \/ UNCHANGED vars
  PROVE  ChildInv' /\ EndingKept
<1>1. /\ UNCHANGED <<row, isCancelled, place, controllers, signalled, waiting, events, abortedTurns, deadTurns, cast, restarts>>
      /\ enqueued' = enqueued \/ \E a \in Planners : enqueued' = enqueued \cup {a}
  BY DEF childVars, vars, SpawnPlanner, MarksStep, CompletesPlanner, ResumePlanner, PlannerOperation
<1>2. ChildTypeOK'
  BY <1>1 DEF ChildInv, ChildTypeOK
<1>3. (EventsTellTheRow /\ WaitTellsTheRow /\ NoForegroundOrphan /\ FlagTellsTheRow)'
  BY <1>1 DEF ChildInv, EventsTellTheRow, WaitTellsTheRow, NoForegroundOrphan, FlagTellsTheRow
<1>4. (KernelsAreReachable /\ NotLaunched)' /\ EndingKept
  BY <1>1 DEF ChildInv, KernelsAreReachable, NotLaunched, EndingKept
<1> QED BY <1>2, <1>3, <1>4 DEF ChildInv

\* Every step.
LEMMA NextKeeps ==
  ASSUME ChildInv, [Next]_vars
  PROVE  ChildInv' /\ EndingKept
BY LaunchForegroundKeeps, LaunchBackgroundKeeps, BudgetKeeps, CancelKeeps, AbortKeeps, PlanKeeps, ReturnKeeps,
   RestartKeeps, PlannerKeeps DEF Next

\* The invariant of the attempts holds.
LEMMA ChildInvariance == Spec => []ChildInv
<1>1. Init => ChildInv
  BY BoundsAssumption DEF Init, ChildInv, ChildTypeOK, Attempts, Terminal, Places, EventsTellTheRow, WaitTellsTheRow,
     NoForegroundOrphan, FlagTellsTheRow, KernelsAreReachable, NotLaunched, UnderWay
<1>2. ChildInv /\ [Next]_vars => ChildInv'
  BY NextKeeps
<1> QED BY <1>1, <1>2, PTL DEF Spec

\* However cancelRun, the budget, the turn's abort, the kernel's answer and a restart
\* meet, the events of an attempt and the answer its parent got say what its row says.
THEOREM ParentsAreTold == Spec => []RowIsTold
<1>1. ChildInv /\ PlanInv => RowIsTold
  BY DEF ChildInv, ChildTypeOK, PlanInv, RowIsTold, TypeOK
<1> QED BY <1>1, ChildInvariance, PlanInvariance, PTL

\* No foreground kernel runs on unawares after its wait gave up.
THEOREM GivenUpIsSignalled == Spec => []NoForegroundOrphan
<1>1. ChildInv => NoForegroundOrphan
  BY DEF ChildInv
<1> QED BY <1>1, ChildInvariance, PTL

\* A terminal row of an attempt is never overwritten.  A completed, failed or
\* cancelled planner run is only cancelled or archived, in which step and in every
\* other its plan steps stay as they were; an archived one is only cancelled.
THEOREM EndingsStay == Spec => EndingsAreFinal
<1>1. ChildInv /\ [Next]_vars => [\A a \in Attempts : row[a] \in Terminal => row'[a] = row[a]]_vars
  BY NextKeeps DEF EndingKept
<1>2. PlanInv /\ [Next]_vars =>
        [/\ plannerStatus \in PlannerTerminal =>
              /\ plannerStatus' \in {plannerStatus, "cancelled", "archived"}
              /\ steps' = steps
         /\ plannerStatus = "archived" => plannerStatus' \in {"archived", "cancelled"}]_plannerVars
  BY NextIsPlannerStep, PlannerStepKeeps DEF Frozen
<1> QED BY <1>1, <1>2, ChildInvariance, PlanInvariance, PTL
     DEF Spec, EndingsAreFinal, EndedAttemptIsFinal, EndedPlanIsFrozen
=============================================================================
