----------------------------- MODULE ChildTasks -----------------------------
(***************************************************************************)
(* ChildSessionTaskRuntime: attempts (rows of subagent_runs) that run a    *)
(* child's kernel loop, the foreground tool that waits for one within the  *)
(* turn's budget, the background worker that runs one to its end, the      *)
(* planner children that first generate a plan, and cancelRun from any     *)
(* side.                                                                   *)
(*                                                                         *)
(* An action is one synchronous block.  launchTask, the start of the wait  *)
(* and executeRun up to its first await are one block; the answer of the   *)
(* kernel, executeRun's writes and the settling of the wait are another,   *)
(* since only microtasks lie between them.                                 *)
(***************************************************************************)
EXTENDS PlannerRun, FiniteSets

CONSTANTS
  Foreground,      \* attempts launched, and waited for, by a tool of a turn
  Background,      \* attempts launched by the background worker
  Planners,        \* those of them that drive the planner run
  TurnOf,          \* the turn that launches each foreground attempt
  Casts,           \* bound: the sets of attempts that may occur together
  MaxLaunches,     \* MAX_CHILD_LAUNCHES_PER_PARENT_TURN
  MaxRestarts      \* bound: process restarts

Attempts == Foreground \cup Background
Turns == {TurnOf[a] : a \in Foreground}

ASSUME AttemptsAssumption ==
  /\ Foreground \cap Background = {} /\ Planners \subseteq Background
  /\ DOMAIN TurnOf = Foreground /\ Casts \subseteq SUBSET Attempts
ASSUME BoundsAssumption == MaxLaunches \in Nat \ {0} /\ MaxRestarts \in Nat

VARIABLES
  cast,        \* the attempts of this behaviour.  Fixed.
  row,         \* status column of each attempt; "none": not launched
  isCancelled, \* attempts whose snapshot has isCancelled (memory)
  place,       \* where executeRun is
  controllers, \* keys of runControllers (memory)
  signalled,   \* attempts whose kernel sees an aborted signal
  waiting,     \* what became of the foreground wait
  events,      \* lifecycle events of each attempt, by stage
  abortedTurns,\* turns whose signal is aborted
  deadTurns,   \* turns a restart ended
  enqueued,    \* planner attempts whose background run was enqueued
  restarts

childVars == <<cast, row, isCancelled, place, controllers, signalled, waiting, events,
               abortedTurns, deadTurns, enqueued, restarts>>
vars == <<plannerVars, childVars>>

Terminal == {"completed", "failed", "cancelled"}

\* "planning": awaits the plan generator; "kernel": awaits the kernel or the
\* search runner; "rejected": executeRun threw outside its try block.
Places == {"none", "planning", "kernel", "ended", "rejected", "lost"}

TypeOK ==
  /\ PlannerTypeOK /\ cast \in Casts
  /\ row \in [Attempts -> Terminal \cup {"none", "running"}]
  /\ isCancelled \subseteq Attempts
  /\ place \in [Attempts -> Places]
  /\ controllers \subseteq Attempts /\ signalled \subseteq Attempts
  /\ waiting \in [Foreground -> {"no", "yes", "completed", "timeout", "aborted", "lost"}]
  /\ events \in [Attempts -> SUBSET (Terminal \cup {"started"})]
  /\ abortedTurns \subseteq Turns /\ deadTurns \subseteq Turns
  /\ enqueued \subseteq Planners
  /\ restarts \in 0..MaxRestarts

Init ==
  /\ PlannerInit /\ cast \in Casts
  /\ row = [a \in Attempts |-> "none"] /\ isCancelled = {}
  /\ place = [a \in Attempts |-> "none"]
  /\ controllers = {} /\ signalled = {}
  /\ waiting = [a \in Foreground |-> "no"]
  /\ events = [a \in Attempts |-> {}]
  /\ abortedTurns = {} /\ deadTurns = {} /\ enqueued = {} /\ restarts = 0

-----------------------------------------------------------------------------
(* Pieces *)

Live(a) == row[a] = "running"

\* cancelRun of each attempt of S: nothing for a terminal one; else the flag, the
\* controller if there is one yet, the row and the event.
CancelRuns(S) ==
  LET live == {a \in S : Live(a)} IN
  /\ row' = [a \in Attempts |-> IF a \in live THEN "cancelled" ELSE row[a]]
  /\ isCancelled' = isCancelled \cup live
  /\ signalled' = signalled \cup (live \cap controllers)
  /\ events' = [a \in Attempts |-> IF a \in live THEN events[a] \cup {"cancelled"} ELSE events[a]]

LaunchesInTurn(t) == Cardinality({a \in Foreground : TurnOf[a] = t /\ row[a] # "none"})

\* The launch gate, before any row is written.
EvaluateChildLaunch(t) == LaunchesInTurn(t) < MaxLaunches

\* launchTask writes the row and its first event; executeRun makes it 'running'.
LaunchTask(a) ==
  /\ row' = [row EXCEPT ![a] = "running"]
  /\ events' = [events EXCEPT ![a] = {"started"}]

FaultyEnterKernel(a) == place' = [place EXCEPT ![a] = "kernel"] /\ UNCHANGED controllers

\* The kernel (or the search runner) starts under the attempt's own controller.
EnterKernel(a) ==
  /\ place' = [place EXCEPT ![a] = "kernel"]
  /\ controllers' = controllers \cup {a}

-----------------------------------------------------------------------------
(* Launch and wait *)

\* handleForegroundChildWait.  Under an aborted signal the attempt is launched and
\* cancelled at once, and never executed.
LaunchForeground(a) ==
  LET t == TurnOf[a] IN
  /\ a \in cast /\ row[a] = "none" /\ t \notin deadTurns
  /\ EvaluateChildLaunch(t)
  /\ \/ /\ t \notin abortedTurns
        /\ LaunchTask(a) /\ EnterKernel(a)
        /\ waiting' = [waiting EXCEPT ![a] = "yes"]
        /\ UNCHANGED isCancelled
     \/ /\ t \in abortedTurns
        /\ row' = [row EXCEPT ![a] = "cancelled"]
        /\ events' = [events EXCEPT ![a] = {"started", "cancelled"}]
        /\ isCancelled' = isCancelled \cup {a}
        /\ waiting' = [waiting EXCEPT ![a] = "aborted"]
        /\ UNCHANGED <<place, controllers>>
  /\ UNCHANGED <<plannerVars, signalled, abortedTurns, deadTurns, enqueued, cast, restarts>>

\* The background worker launches and executes, with no signal of its own.
LaunchBackground(a) ==
  /\ a \in cast /\ row[a] = "none" /\ (a \in Planners => a \in enqueued)
  /\ LaunchTask(a)
  /\ IF a \in Planners
       THEN place' = [place EXCEPT ![a] = "planning"] /\ UNCHANGED controllers
       ELSE EnterKernel(a)
  /\ UNCHANGED <<plannerVars, isCancelled, signalled, waiting, abortedTurns, deadTurns,
                 enqueued, cast, restarts>>

FaultyBudgetExpires(a) ==
  /\ waiting[a] = "yes"
  /\ waiting' = [waiting EXCEPT ![a] = "timeout"]
  /\ UNCHANGED <<plannerVars, row, isCancelled, signalled, events, place, controllers,
                 abortedTurns, deadTurns, enqueued, cast, restarts>>

\* The budget timer of waitForChildExecution: cancel, then answer.
BudgetExpires(a) ==
  /\ waiting[a] = "yes"
  /\ CancelRuns({a})
  /\ waiting' = [waiting EXCEPT ![a] = "timeout"]
  /\ UNCHANGED <<plannerVars, place, controllers, abortedTurns, deadTurns, enqueued,
                 cast, restarts>>

\* The turn's signal is aborted: every wait of the turn cancels its attempt and
\* answers, and the merged signal reaches every kernel of the turn.
TurnAborts(t) ==
  LET mine == {a \in Foreground : TurnOf[a] = t} IN
  /\ t \notin abortedTurns /\ t \notin deadTurns /\ mine \cap cast # {}
  /\ abortedTurns' = abortedTurns \cup {t}
  /\ LET live == {a \in mine : waiting[a] = "yes" /\ Live(a)} IN
     /\ row' = [a \in Attempts |-> IF a \in live THEN "cancelled" ELSE row[a]]
     /\ isCancelled' = isCancelled \cup live
     /\ events' = [a \in Attempts |-> IF a \in live THEN events[a] \cup {"cancelled"} ELSE events[a]]
  /\ signalled' = signalled \cup {a \in mine : place[a] = "kernel"}
  /\ waiting' = [a \in Foreground |->
                   IF a \in mine /\ waiting[a] = "yes" THEN "aborted" ELSE waiting[a]]
  /\ UNCHANGED <<plannerVars, place, controllers, deadTurns, enqueued, cast, restarts>>

\* cancelRun, called by the cancel tool or the child-cancel route.
CancelRun(a) ==
  /\ Live(a)
  /\ CancelRuns({a})
  /\ UNCHANGED <<plannerVars, place, controllers, waiting, abortedTurns, deadTurns,
                 enqueued, cast, restarts>>

-----------------------------------------------------------------------------
(* Execution *)

FaultySettle(a, status) ==
  /\ row' = [row EXCEPT ![a] = status]
  /\ events' = [events EXCEPT ![a] = @ \cup {status}]

\* The end of executeRun: a cancelled attempt keeps its row; another gets the
\* result's status and its terminal event.
Settle(a, status) ==
  IF a \in isCancelled
    THEN UNCHANGED <<row, events>>
    ELSE /\ row' = [row EXCEPT ![a] = status]
         /\ events' = [events EXCEPT ![a] = @ \cup {status}]

\* A plan arrived.  setPlanSteps may throw, outside the try block: the attempt's
\* row stays as it is.
PlanGenerated(a, S) ==
  /\ place[a] = "planning"
  /\ IF PlanRefused
       THEN /\ place' = [place EXCEPT ![a] = "rejected"]
            /\ UNCHANGED <<plannerVars, controllers>>
       ELSE SetPlanSteps(S) /\ EnterKernel(a)
  /\ UNCHANGED <<row, isCancelled, signalled, waiting, events, abortedTurns, deadTurns,
                 enqueued, cast, restarts>>

\* The planner child's two internal tools.
MarksStep(a, s, state) ==
  /\ place[a] = "kernel" /\ a \in Planners
  /\ MarkStep(s, state)
  /\ UNCHANGED childVars

CompletesPlanner(a) ==
  /\ place[a] = "kernel" /\ a \in Planners
  /\ CompletePlannerRun
  /\ UNCHANGED childVars

\* The kernel returns, or throws ("failed"); it returns cancelled only when its
\* signal is aborted.  A planner child that completed closes the planner run
\* before its own cancellation is looked at.
KernelReturns(a, status) ==
  /\ place[a] = "kernel"
  /\ status = "cancelled" => a \in signalled
  /\ IF status = "completed" /\ a \in Planners
       THEN CompletePlannerRun
       ELSE UNCHANGED plannerVars
  /\ Settle(a, status)
  /\ place' = [place EXCEPT ![a] = "ended"]
  /\ controllers' = controllers \ {a}
  /\ waiting' = IF a \in Foreground /\ waiting[a] = "yes"
                  THEN [waiting EXCEPT ![a] = "completed"] ELSE waiting
  /\ UNCHANGED <<isCancelled, signalled, abortedTurns, deadTurns, enqueued, cast, restarts>>

-----------------------------------------------------------------------------
(* The planner's tools and dispatcher actions *)

\* planner-spawn and planner-resume: the planner's operation, and a background run
\* for another planner child.
SpawnPlanner(a, S) ==
  /\ a \in cast \ enqueued
  /\ CreatePlannerRun(S)
  /\ enqueued' = enqueued \cup {a}
  /\ UNCHANGED <<row, isCancelled, place, controllers, signalled, waiting, events,
                 abortedTurns, deadTurns, cast, restarts>>

ResumePlanner(a) ==
  /\ a \in cast \ enqueued
  /\ ResumePlannerRun
  /\ enqueued' = enqueued \cup {a}
  /\ UNCHANGED <<row, isCancelled, place, controllers, signalled, waiting, events,
                 abortedTurns, deadTurns, cast, restarts>>

\* The planner tools and the dispatcher's planner adapter.
PlannerOperation ==
  /\ \/ ResumePlannerRun
     \/ CancelPlannerRun
     \/ PausePlannerRun
     \/ Replan
     \/ RequestWait
     \/ ArchivePlannerRun
  /\ UNCHANGED childVars

-----------------------------------------------------------------------------

\* The process ends and starts again.  Nothing looks at 'running' attempts.
Restart ==
  /\ restarts < MaxRestarts
  /\ restarts' = restarts + 1
  /\ place' = [a \in Attempts |-> IF place[a] \in {"planning", "kernel"} THEN "lost" ELSE place[a]]
  /\ waiting' = [a \in Foreground |-> IF waiting[a] = "yes" THEN "lost" ELSE waiting[a]]
  /\ controllers' = {} /\ signalled' = {}
  /\ isCancelled' = {a \in Attempts : row[a] = "cancelled"}
  /\ deadTurns' = deadTurns \cup {TurnOf[a] : a \in {b \in Foreground : row[b] # "none"}}
  /\ UNCHANGED <<plannerVars, row, events, abortedTurns, enqueued, cast>>

Next ==
  \/ \E a \in Foreground : LaunchForeground(a) \/ BudgetExpires(a)
  \/ \E a \in Background : LaunchBackground(a)
  \/ \E t \in Turns : TurnAborts(t)
  \/ \E a \in Attempts : CancelRun(a)
  \/ \E a \in Attempts, status \in Terminal : KernelReturns(a, status)
  \/ \E a \in Planners, S \in SUBSET StepIds \ {{}} : PlanGenerated(a, S) \/ SpawnPlanner(a, S)
  \/ \E a \in Planners, s \in StepIds, state \in StepStates \ {"pending"} : MarksStep(a, s, state)
  \/ \E a \in Planners : CompletesPlanner(a) \/ ResumePlanner(a)
  \/ PlannerOperation
  \/ Restart

\* Timers fire; the plan generator and a background child's kernel answer, each
\* under a timeout of its own; the worker takes what is enqueued.  Nothing is
\* assumed of a foreground child's kernel: the budget must do.
Fairness ==
  /\ \A a \in Foreground : WF_vars(BudgetExpires(a))
  /\ \A a \in Background : WF_vars(\E status \in Terminal : KernelReturns(a, status))
  /\ \A a \in Planners : WF_vars(\E S \in SUBSET StepIds \ {{}} : PlanGenerated(a, S))
  /\ \A a \in Planners : WF_vars(LaunchBackground(a))

Spec == Init /\ [][Next]_vars /\ Fairness

-----------------------------------------------------------------------------
(* Properties *)

\* An attempt's row and its lifecycle events agree: one terminal event, of the
\* row's status, exactly when the row is terminal, however cancelRun, the budget,
\* the abort and the kernel's answer met.
EventsTellTheRow ==
  \A a \in Attempts :
    events[a] = IF row[a] = "none" THEN {} ELSE {"started"} \cup ({row[a]} \cap Terminal)

\* What the waiting tool was told holds: after a timeout or an abort the attempt is
\* cancelled, after an answer it has ended.
WaitTellsTheRow ==
  \A a \in Foreground :
    /\ waiting[a] \in {"timeout", "aborted"} => row[a] = "cancelled"
    /\ waiting[a] = "completed" => row[a] \in Terminal

\* A wait that gave up leaves no kernel running unawares: it sees the abort.
NoForegroundOrphan ==
  \A a \in Foreground :
    waiting[a] \in {"timeout", "aborted"} /\ place[a] = "kernel" => a \in signalled

\* A late answer never overwrites a terminal row (and with it the result a parent
\* was given).
EndedAttemptIsFinal ==
  [][\A a \in Attempts : row[a] \in Terminal => row'[a] = row[a]]_vars

\* An attempt that reached its kernel gets a terminal row unless the process ends.
AttemptsSettle ==
  \A a \in Attempts : place[a] = "kernel" ~> row[a] \in Terminal \/ place[a] = "lost"

\* The parent and the readers of the events are told what the row says.
RowIsTold == TypeOK /\ EventsTellTheRow /\ WaitTellsTheRow

\* No late answer or second child changes what has ended: the row of an attempt, the
\* steps of a completed, failed or cancelled planner run.  An archived one is not
\* brought back to life, but its steps may still change.
EndingsAreFinal == EndedAttemptIsFinal /\ EndedPlanIsFrozen
=============================================================================
