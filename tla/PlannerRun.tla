----------------------------- MODULE PlannerRun -----------------------------
(***************************************************************************)
(* PlannerRuntime over one planner run and its plan: the status column of  *)
(* planner_runs and the steps of the plan.  Every operation is synchronous *)
(* and refuses by throwing, which changes nothing.  ChildTasks composes    *)
(* these operations with the planner children that call them.              *)
(*                                                                         *)
(* No code moves a run into a waiting state at present; RequestWait stands *)
(* for the public transitionState that would.                              *)
(***************************************************************************)
EXTENDS Naturals

CONSTANTS
  StepIds,   \* ids a plan's steps may have
  Waits      \* bound: the waiting states that are entered

ASSUME StepsAssumption == StepIds # {}

VARIABLES
  plannerStatus,   \* status of the planner run; "none": not created
  steps            \* status of each step of the plan, a function on its ids

plannerVars == <<plannerStatus, steps>>

Waiting == {"waiting_for_user", "waiting_for_approval",
            "waiting_for_execution_result", "waiting_for_external_event"}
PlannerTerminal == {"completed", "failed", "cancelled"}
PlannerStates == {"planning", "replanning", "paused", "archived"}
                   \cup Waiting \cup PlannerTerminal
StepStates == {"pending", "in_progress", "completed", "failed"}
ASSUME WaitsAssumption == Waits \subseteq Waiting

PlannerTypeOK ==
  /\ plannerStatus \in PlannerStates \cup {"none"}
  /\ DOMAIN steps \subseteq StepIds
  /\ \A s \in DOMAIN steps : steps[s] \in StepStates

PlannerInit == plannerStatus = "none" /\ steps = <<>>

\* VALID_TRANSITIONS, and isValidTransition: to cancelled from anywhere.
IsValidTransition(from, to) ==
  \/ to = "cancelled"
  \/ from = "planning"
       /\ to \in Waiting \cup {"completed", "failed", "replanning", "paused"}
  \/ from \in Waiting /\ to \in {"planning", "failed", "paused"}
  \/ from = "waiting_for_approval" /\ to = "replanning"
  \/ from = "waiting_for_execution_result" /\ to = "completed"
  \/ from = "replanning" /\ to \in {"planning", "failed", "paused"}
  \/ from = "paused" /\ to \in {"planning", "failed"}

TransitionState(to) ==
  /\ IsValidTransition(plannerStatus, to)
  /\ plannerStatus' = to
  /\ UNCHANGED steps

\* createPlannerRun: the caller's steps or the three default ones, all pending,
\* and straight from initializing to planning.
CreatePlannerRun(S) ==
  /\ plannerStatus = "none"
  /\ plannerStatus' = "planning"
  /\ steps' = [s \in S |-> "pending"]

\* A run that is planning is resumed without a change.
ResumePlannerRun ==
  \/ plannerStatus = "planning" /\ UNCHANGED plannerVars
  \/ plannerStatus \in Waiting \cup {"paused"} /\ TransitionState("planning")

FaultyCompletePlannerRun ==
  IF plannerStatus = "planning" \/ plannerStatus \in Waiting
    THEN plannerStatus' = "completed" /\ UNCHANGED steps
    ELSE UNCHANGED plannerVars

\* completePlannerRun closes every step.  In a terminal state it returns the run
\* as it is; elsewhere it throws, and its callers catch that.
CompletePlannerRun ==
  IF plannerStatus = "planning" \/ plannerStatus \in Waiting
    THEN /\ plannerStatus' = "completed"
         /\ steps' = [s \in DOMAIN steps |-> "completed"]
    ELSE UNCHANGED plannerVars

FaultyMarkStep(s, state) ==
  IF s \in DOMAIN steps
    THEN steps' = [steps EXCEPT ![s] = state] /\ UNCHANGED plannerStatus
    ELSE UNCHANGED plannerVars

\* markStep: refused in a terminal state and for an id that is not in the plan.
MarkStep(s, state) ==
  IF plannerStatus \notin PlannerTerminal /\ s \in DOMAIN steps
    THEN steps' = [steps EXCEPT ![s] = state] /\ UNCHANGED plannerStatus
    ELSE UNCHANGED plannerVars

\* setPlanSteps: the steps of a generated plan are not empty and distinct (the
\* validator refuses others), so only the state can make it throw.
PlanRefused == plannerStatus \in PlannerTerminal

SetPlanSteps(S) ==
  /\ ~PlanRefused
  /\ steps' = [s \in S |-> "pending"]
  /\ UNCHANGED plannerStatus

\* cancelPlannerRun writes its state whatever the run's state is.
CancelPlannerRun ==
  /\ plannerStatus # "none"
  /\ plannerStatus' = "cancelled"
  /\ UNCHANGED steps

PausePlannerRun == plannerStatus \notin PlannerTerminal /\ TransitionState("paused")

Replan == TransitionState("replanning")

ArchivePlannerRun ==
  /\ plannerStatus \in PlannerTerminal
  /\ plannerStatus' = "archived"
  /\ UNCHANGED steps

RequestWait == \E to \in Waits : TransitionState(to)

-----------------------------------------------------------------------------

\* A completed planner run has no open step, whichever child closed it and
\* whatever other children of the run were about to mark.
CompletedPlanIsComplete ==
  plannerStatus = "completed" => \A s \in DOMAIN steps : steps[s] = "completed"

\* A planner run that ended never lives again: from a terminal state there is only
\* cancelling and archiving.  The steps of a completed, failed or cancelled run stay
\* as they were: a late child neither replaces the plan nor marks a step.  Those of an
\* archived run may still be changed by it, for TERMINAL_STATES, which setPlanSteps
\* and markStep look at, does not hold 'archived'.
EndedPlanIsFrozen ==
  [][/\ plannerStatus \in PlannerTerminal =>
          /\ plannerStatus' \in {plannerStatus, "cancelled", "archived"}
          /\ steps' = steps
     /\ plannerStatus = "archived" => plannerStatus' \in {"archived", "cancelled"}
    ]_plannerVars
=============================================================================
