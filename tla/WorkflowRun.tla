----------------------------- MODULE WorkflowRun ----------------------------
(***************************************************************************)
(* One run of a published workflow in WorkflowRuntimeImpl: its row and its *)
(* step rows (SQLite), and what the process holds of it in memory: the     *)
(* synchronous call that is under way, the dispatches it awaits, its retry *)
(* and poll timers, the attempt counts.  Runs share none of this.          *)
(*                                                                         *)
(* executeStep, handleStepCompletion and advanceToNextStep call each other *)
(* synchronously and in tail position.  A pending call <<"execute", s>> or *)
(* <<"evaluate", s>> stands for the rest of such a chain, and the promise  *)
(* <<"rejected", s>> for one that ends the process: nothing else happens   *)
(* until it is gone.                                                       *)
(***************************************************************************)
EXTENDS Integers, FiniteSets, Sequences

CONSTANTS
  Steps,    \* step ids
  None,     \* no step id
  Drafts    \* the step lists users submit

(***************************************************************************)
(* A draft: top, the ids of draft.steps; first, steps[0]; for each id its  *)
(* kind ("action": tool_call, agent_run, subagent_run, approval, wait),    *)
(* next (nextStepId), onTrue and onFalse, policy (onFailure), hook (is     *)
(* there a compensateHook?), maxAttempts (0: no retryPolicyV2),            *)
(* retriesTimeouts (retryableErrorCategories absent, or with 'timeout'),   *)
(* branches (the step ids of each) and kids (parallelSteps).               *)
(***************************************************************************)
Kinds == {"action", "condition", "branch", "polling", "parallel"}
Policies == {"fail", "continue", "skip", "compensate"}
StepOrNone == Steps \cup {None}

DraftType ==
  [top: SUBSET Steps, first: Steps, kind: [Steps -> Kinds],
   next: [Steps -> StepOrNone], onTrue: [Steps -> StepOrNone],
   onFalse: [Steps -> StepOrNone], policy: [Steps -> Policies],
   hook: [Steps -> BOOLEAN], maxAttempts: [Steps -> Nat],
   retriesTimeouts: [Steps -> BOOLEAN], branches: [Steps -> Seq(Seq(Steps))],
   kids: [Steps -> SUBSET Steps]]

\* Step ids of a branch, of all branches of s, of everything below d's top level.
StepsOf(branch) == {branch[i] : i \in DOMAIN branch}
InnerOf(d, s) == UNION {StepsOf(d.branches[s][i]) : i \in DOMAIN d.branches[s]}
NestedIn(d, s) ==
  IF d.kind[s] = "branch" THEN InnerOf(d, s) ELSE IF d.kind[s] = "parallel" THEN d.kids[s] ELSE {}
Nested(d) == UNION {NestedIn(d, s) : s \in d.top}

\* No id is used at two places of d.
IdsAreUnique(d) ==
  /\ Nested(d) \cap d.top = {}
  /\ \A x, y \in d.top : x # y => NestedIn(d, x) \cap NestedIn(d, y) = {}
  /\ \A x \in d.top : d.kind[x] = "branch" =>
       \A b, c \in DOMAIN d.branches[x] : \A i \in DOMAIN d.branches[x][b], j \in DOMAIN d.branches[x][c] :
         d.branches[x][b][i] = d.branches[x][c][j] => b = c /\ i = j

\* Validation looks at the ids of the top level only.  Here a nested id is used
\* once: with one id at two places, find(stepId) mixes up two rows.
ASSUME DraftsAssumption ==
  /\ None \notin Steps /\ None \notin Drafts
  /\ \A d \in Drafts : d \in DraftType /\ d.first \in d.top /\ IdsAreUnique(d)

VARIABLES
  hasWaitStore, \* is a WaitConditionStore configured?  Fixed.
  def,          \* the run's definition; None: not started
  runStatus,    \* workflow_runs.status
  stepStatus,   \* workflow_step_runs.status of each step's row
  current,      \* workflow_runs.current_step_ids
  openActions,  \* steps with a tracking action in status 'created'
  waits,        \* status of the last wait condition of each polling step
  cancelled,    \* is there a workflow_run_cancelled event?
  attempts,     \* stepAttemptCounts; 0: no entry
  pending,      \* what the process still has to do for the run
  lost          \* the process that held pending has ended

stored == <<stepStatus, current, openActions, waits>>
vars == <<hasWaitStore, def, runStatus, stepStatus, current, openActions, waits,
          cancelled, attempts, pending, lost>>

Ended == {"completed", "failed", "cancelled"}
Blocking == {"execute", "evaluate", "rejected"}
Waiting == {"dispatch", "inner", "compensate", "retry", "poll"}

TypeOK ==
  /\ hasWaitStore \in BOOLEAN
  /\ def \in Drafts \cup {None}
  /\ runStatus \in Ended \cup {"none", "running"}
  /\ stepStatus \in [Steps -> Ended \cup {"none", "queued", "running"}]
  /\ current \subseteq Steps /\ openActions \subseteq Steps
  /\ waits \in [Steps -> {"none", "active", "satisfied", "timeout"}]
  /\ cancelled \in BOOLEAN /\ lost \in BOOLEAN
  /\ attempts \in [Steps -> Nat]
  /\ pending \subseteq (Blocking \cup Waiting) \X Steps

\* The application configures no WaitConditionStore, tests do.
Init ==
  /\ hasWaitStore \in BOOLEAN
  /\ def = None /\ runStatus = "none"
  /\ stepStatus = [s \in Steps |-> "none"] /\ waits = [s \in Steps |-> "none"]
  /\ current = {} /\ openActions = {} /\ pending = {}
  /\ attempts = [s \in Steps |-> 0]
  /\ cancelled = FALSE /\ lost = FALSE

-----------------------------------------------------------------------------
(* Validation and start *)

\* The walk along nextStepId from the first step, n steps on.
After(d, n) ==
  LET walk[i \in 0..n] ==
        IF i = 0 THEN d.first
        ELSE IF walk[i - 1] = None THEN None ELSE d.next[walk[i - 1]]
  IN walk[n]

\* validateStepConfig: a condition needs one of its targets, whether or not it exists.
ConfigIsComplete(d, s) ==
  /\ d.kind[s] = "condition" => d.onTrue[s] # None \/ d.onFalse[s] # None
  /\ d.kind[s] = "branch" => d.branches[s] # <<>>
  /\ d.kind[s] = "parallel" => d.kids[s] # {}

\* validateLinearFlow.
IsLinear(d) ==
  /\ \A s \in d.top : d.next[s] \in d.top \cup {None}
  /\ After(d, Cardinality(d.top)) = None

\* validateDraft finds no issue, so publishDraft makes d a definition.  The targets
\* of conditions and everything nested are not looked at.
Publishable(d) == IsLinear(d) /\ \A s \in d.top : ConfigIsComplete(d, s)

Start(d) ==
  /\ def = None /\ Publishable(d)
  /\ def' = d /\ runStatus' = "running"
  /\ stepStatus' = [s \in Steps |-> IF s \in d.top \cup Nested(d) THEN "queued" ELSE "none"]
  /\ current' = {d.first} /\ pending' = {<<"execute", d.first>>}
  /\ UNCHANGED <<hasWaitStore, openActions, waits, cancelled, attempts, lost>>

-----------------------------------------------------------------------------
(* Pieces of the handlers.  t is the pending item the handler serves. *)

Idle == \A t \in pending : t[1] \notin Blocking
Serves(t) == t \in pending /\ (t[1] \in Blocking \/ Idle)
Then(t, s) == pending' = (pending \ {t}) \cup {s}
Done(t) == pending' = pending \ {t}
SetStep(s, status) == stepStatus' = [stepStatus EXCEPT ![s] = status]

\* updateCurrentSteps, executeStep.
RunStep(t, s) ==
  /\ current' = {s} /\ Then(t, <<"execute", s>>)
  /\ UNCHANGED runStatus

EndRun(t, status) ==
  /\ runStatus' = status /\ Done(t) /\ UNCHANGED current

\* advanceToNextStep: the status of the run is not looked at.
AdvanceToNextStep(t, s) ==
  IF def.next[s] = None THEN EndRun(t, "completed") ELSE RunStep(t, def.next[s])

FaultyHandleOnFailureFail(t, s) ==
  /\ SetStep(s, "failed")
  /\ AdvanceToNextStep(t, s)

HandleOnFailureFail(t, s) ==
  /\ SetStep(s, "failed")
  /\ EndRun(t, "failed")

\* applyOnFailurePolicy, with handleOnFailureContinue, Skip, Compensate and Fail.
ApplyOnFailurePolicy(t, s) ==
  LET policy == def.policy[s]
  IN \/ /\ policy = "continue"
        /\ SetStep(s, "completed") /\ AdvanceToNextStep(t, s)
        /\ UNCHANGED openActions
     \/ /\ policy = "skip"
        /\ SetStep(s, "cancelled") /\ AdvanceToNextStep(t, s)
        /\ UNCHANGED openActions
     \/ /\ policy = "compensate" /\ def.hook[s]
        /\ openActions' = openActions \cup {s}
        /\ Then(t, <<"compensate", s>>)
        /\ UNCHANGED <<stepStatus, runStatus, current>>
     \/ /\ policy = "fail" \/ (policy = "compensate" /\ ~def.hook[s])
        /\ HandleOnFailureFail(t, s)
        /\ UNCHANGED openActions

FaultyShouldRetryStepV2(s, cause, attempt) ==
  cause = "timeout" /\ def.retriesTimeouts[s] /\ attempt <= def.maxAttempts[s]

\* Of the results this code makes, only a poll's timeout carries a recoverability
\* or a category that is retried: what comes back from a dispatch has neither, and
\* the other errors of a poll are 'non_recoverable'.
ShouldRetryStepV2(s, cause, attempt) ==
  cause = "timeout" /\ def.retriesTimeouts[s] /\ attempt < def.maxAttempts[s]

\* handleStepFailure.  applyOnFailurePolicy deletes the count after the policy, which
\* may already have run the steps that follow; here it goes first.  The two differ only
\* if that synchronous chain comes back to s and s fails there again, which takes a
\* loop and a poll that times out in its first evaluation (timeoutMs = 0).
\* A throw inside handleStepCompletion would reach the .catch behind its .then and
\* come here a second time.  None is modelled: the rows and the definition it looks up
\* exist, the stores do not fail, and no chain is long enough to exhaust the stack.
HandleStepFailure(t, s, cause) ==
  IF ShouldRetryStepV2(s, cause, attempts[s] + 1)
    THEN /\ attempts' = [attempts EXCEPT ![s] = @ + 1]
         /\ SetStep(s, "queued") /\ Then(t, <<"retry", s>>)
         /\ UNCHANGED <<runStatus, current, openActions>>
    ELSE /\ attempts' = [attempts EXCEPT ![s] = 0]
         /\ ApplyOnFailurePolicy(t, s)

\* handleStepCompletion with success.
HandleStepSuccess(t, s) ==
  /\ attempts' = [attempts EXCEPT ![s] = 0]
  /\ SetStep(s, "completed") /\ AdvanceToNextStep(t, s)
  /\ UNCHANGED openActions

\* Steps that are dispatched: the tracking action is saved, then dispatch.
Dispatch(t, kind, s) ==
  /\ openActions' = openActions \cup {s}
  /\ Then(t, <<kind, s>>)

-----------------------------------------------------------------------------
(* executeStep *)

Executes(s, kind) == <<"execute", s>> \in pending /\ def.kind[s] = kind

ExecuteAction(s) ==
  /\ Executes(s, "action")
  /\ SetStep(s, "running") /\ Dispatch(<<"execute", s>>, "dispatch", s)
  /\ UNCHANGED <<hasWaitStore, def, runStatus, current, waits, cancelled, attempts, lost>>

\* The step that a condition goes to, and what happens without one.
GoTo(s, target, otherwise) ==
  IF target = None THEN otherwise
  ELSE IF target \in def.top THEN RunStep(<<"execute", s>>, target)
  ELSE Done(<<"execute", s>>) /\ UNCHANGED <<runStatus, current>>

ExecuteCondition(s, met) ==
  /\ Executes(s, "condition")
  /\ SetStep(s, "completed")
  /\ GoTo(s, IF met THEN def.onTrue[s] ELSE def.onFalse[s],
          EndRun(<<"execute", s>>, "completed"))
  /\ UNCHANGED <<hasWaitStore, def, openActions, waits, cancelled, attempts, lost>>

\* The expression cannot be evaluated: conditionMet is false.  With onFailure =
\* 'continue' and no falseNextStepId, nothing more is done.
ExecuteConditionError(s) ==
  /\ Executes(s, "condition")
  /\ IF def.policy[s] = "continue"
       THEN /\ SetStep(s, "completed")
            /\ GoTo(s, def.onFalse[s],
                    Done(<<"execute", s>>) /\ UNCHANGED <<runStatus, current>>)
       ELSE HandleOnFailureFail(<<"execute", s>>, s)
  /\ UNCHANGED <<hasWaitStore, def, openActions, waits, cancelled, attempts, lost>>

\* The steps skipBranchSteps cancels when branch b of s is selected.
Skipped(s, b) ==
  UNION {StepsOf(def.branches[s][i]) : i \in DOMAIN def.branches[s] \ {b}}

\* The branch step is completed when a branch is selected; its first step is
\* dispatched like any other.
ExecuteBranch(s, b) ==
  LET branch == def.branches[s][b]
      chosen == [stepStatus EXCEPT ![s] = "completed"]
      skipped == [x \in Steps |-> IF x \in Skipped(s, b) THEN "cancelled" ELSE chosen[x]]
  IN /\ Executes(s, "branch")
     /\ IF branch = <<>>
          THEN stepStatus' = skipped /\ AdvanceToNextStep(<<"execute", s>>, s)
               /\ UNCHANGED openActions
          ELSE /\ stepStatus' = [skipped EXCEPT ![branch[1]] = "running"]
               /\ current' = {branch[1]}
               /\ Dispatch(<<"execute", s>>, "inner", branch[1])
               /\ UNCHANGED runStatus
     /\ UNCHANGED <<hasWaitStore, def, waits, cancelled, attempts, lost>>

\* executeParallelGroupStep: executeStep of a child throws, for it looks the step up
\* among the top-level steps.  The group's promise rejects; nobody handles it.
ExecuteParallelGroup(s) ==
  /\ Executes(s, "parallel")
  /\ SetStep(s, "running") /\ current' = def.kids[s]
  /\ Then(<<"execute", s>>, <<"rejected", s>>)
  /\ UNCHANGED <<hasWaitStore, def, runStatus, openActions, waits, cancelled, attempts, lost>>

ExecutePollingWait(s) ==
  /\ Executes(s, "polling")
  /\ IF hasWaitStore
       THEN /\ SetStep(s, "running")
            /\ waits' = [waits EXCEPT ![s] = "active"]
            /\ Then(<<"execute", s>>, <<"evaluate", s>>)
            /\ UNCHANGED <<runStatus, current, openActions, attempts>>
       ELSE /\ HandleStepFailure(<<"execute", s>>, s, "unconfigured")
            /\ UNCHANGED waits
  /\ UNCHANGED <<hasWaitStore, def, cancelled, lost>>

-----------------------------------------------------------------------------
(* evaluatePollingCondition, from executePollingWaitStep or from its timer *)

Evaluates(t, s) == Serves(t) /\ t \in {<<"evaluate", s>>, <<"poll", s>>}

PollTimeout(t, s) ==
  /\ Evaluates(t, s)
  /\ waits' = [waits EXCEPT ![s] = "timeout"]
  /\ HandleStepFailure(t, s, "timeout")
  /\ UNCHANGED <<hasWaitStore, def, cancelled, lost>>

\* The wait condition is left 'active'.
PollError(t, s) ==
  /\ Evaluates(t, s)
  /\ HandleStepFailure(t, s, "expression")
  /\ UNCHANGED <<hasWaitStore, def, waits, cancelled, lost>>

FaultyPollMet(t, s) ==
  /\ Evaluates(t, s)
  /\ waits' = [waits EXCEPT ![s] = "satisfied"]
  /\ attempts' = [attempts EXCEPT ![s] = 0]
  /\ SetStep(s, "completed") /\ def.next[s] # None
  /\ current' = {def.next[s]}
  /\ pending' = {<<"execute", def.next[s]>>, <<"poll", s>>}
  /\ UNCHANGED <<hasWaitStore, def, runStatus, openActions, cancelled, lost>>

PollMet(t, s) ==
  /\ Evaluates(t, s)
  /\ waits' = [waits EXCEPT ![s] = "satisfied"]
  /\ HandleStepSuccess(t, s)
  /\ UNCHANGED <<hasWaitStore, def, cancelled, lost>>

FaultyPollAgain(t, s) ==
  /\ Evaluates(t, s)
  /\ Done(t)
  /\ UNCHANGED <<hasWaitStore, def, runStatus, stored, cancelled, attempts, lost>>

PollAgain(t, s) ==
  /\ Evaluates(t, s)
  /\ Then(t, <<"poll", s>>)
  /\ UNCHANGED <<hasWaitStore, def, runStatus, stored, cancelled, attempts, lost>>

-----------------------------------------------------------------------------
(* What the run waits for happens *)

\* The dispatch of a step resolves or rejects: handleStepCompletion.
DispatchSettles(s, ok) ==
  LET t == <<"dispatch", s>>
  IN /\ Serves(t)
     /\ IF ok THEN HandleStepSuccess(t, s) ELSE HandleStepFailure(t, s, "dispatch")
     /\ UNCHANGED <<hasWaitStore, def, waits, cancelled, lost>>

\* The branch step s belongs to, its branch and its place there.
PlaceOf(s) ==
  LET places(x) == UNION {[step: {x}, branch: {b}, index: DOMAIN def.branches[x][b]] : b \in DOMAIN def.branches[x]}
  IN CHOOSE p \in UNION {places(x) : x \in {y \in def.top : def.kind[y] = "branch"}} :
       def.branches[p.step][p.branch][p.index] = s

\* handleBranchInternalStepCompletion: of the policies only 'continue' is honoured.
InnerSettles(s, ok) ==
  LET t == <<"inner", s>>
      place == PlaceOf(s)
      branch == def.branches[place.step][place.branch]
  IN /\ Serves(t)
     /\ IF ok \/ def.policy[s] = "continue"
          THEN IF place.index < Len(branch)
                 THEN /\ stepStatus' = [stepStatus EXCEPT ![s] = "completed",
                                                          ![branch[place.index + 1]] = "running"]
                      /\ current' = {branch[place.index + 1]}
                      /\ Dispatch(t, "inner", branch[place.index + 1])
                      /\ UNCHANGED runStatus
                 ELSE /\ SetStep(s, "completed") /\ AdvanceToNextStep(t, place.step)
                      /\ UNCHANGED openActions
          ELSE HandleOnFailureFail(t, s) /\ UNCHANGED openActions
     /\ UNCHANGED <<hasWaitStore, def, waits, cancelled, attempts, lost>>

CompensationSettles(s, ok) ==
  LET t == <<"compensate", s>>
  IN /\ Serves(t)
     /\ IF ok THEN SetStep(s, "completed") /\ AdvanceToNextStep(t, s)
              ELSE HandleOnFailureFail(t, s)
     /\ UNCHANGED <<hasWaitStore, def, openActions, waits, cancelled, attempts, lost>>

RetryTimerFires(s) ==
  /\ Serves(<<"retry", s>>)
  /\ Then(<<"retry", s>>, <<"execute", s>>)
  /\ UNCHANGED <<hasWaitStore, def, runStatus, stored, cancelled, attempts, lost>>

FaultyCancelledSteps ==
  [s \in Steps |-> IF stepStatus[s] = "none" THEN "none" ELSE "cancelled"]

\* The step rows after a cancellation.
CancelledSteps ==
  [s \in Steps |-> IF stepStatus[s] \in {"queued", "running"}
                     THEN "cancelled" ELSE stepStatus[s]]

\* cancelWorkflowRun writes rows.  Dispatches, timers and wait conditions go on.
CancelWorkflowRun ==
  /\ runStatus = "running" /\ Idle
  /\ runStatus' = "cancelled" /\ cancelled' = TRUE
  /\ stepStatus' = CancelledSteps
  /\ openActions' = {}
  /\ UNCHANGED <<hasWaitStore, def, current, waits, attempts, pending, lost>>

\* The process ends, anywhere in the code.  No code takes a run up again from its
\* rows.
ProcessEnds(because) ==
  /\ ~lost /\ because
  /\ lost' = TRUE /\ pending' = {} /\ attempts' = [s \in Steps |-> 0]
  /\ UNCHANGED <<hasWaitStore, def, runStatus, stored, cancelled>>

UnhandledRejection == ProcessEnds(\E s \in Steps : <<"rejected", s>> \in pending)
Restart == ProcessEnds(def # None)

-----------------------------------------------------------------------------
Chain(s) ==
  \/ ExecuteAction(s)
  \/ \E met \in BOOLEAN : ExecuteCondition(s, met)
  \/ ExecuteConditionError(s)
  \/ def # None /\ \E b \in DOMAIN def.branches[s] : ExecuteBranch(s, b)
  \/ ExecuteParallelGroup(s)
  \/ ExecutePollingWait(s)

Polls(s) == \E t \in {<<"evaluate", s>>, <<"poll", s>>} :
  \/ PollTimeout(t, s) \/ PollError(t, s) \/ PollMet(t, s) \/ PollAgain(t, s)

Settles(s) == \E ok \in BOOLEAN :
  DispatchSettles(s, ok) \/ InnerSettles(s, ok) \/ CompensationSettles(s, ok)

Next ==
  \/ \E d \in Drafts : Start(d)
  \/ \E s \in Steps : Chain(s) \/ Polls(s) \/ Settles(s) \/ RetryTimerFires(s)
  \/ CancelWorkflowRun \/ UnhandledRejection \/ Restart

Spec == Init /\ [][Next]_vars

\* Synchronous code runs; the dispatcher answers every dispatch; timers fire; a poll
\* that nothing else ends is evaluated again until the clock is past its timeoutAt.
Fairness ==
  /\ \A s \in Steps :
       /\ WF_vars(Chain(s)) /\ WF_vars(Settles(s)) /\ WF_vars(RetryTimerFires(s))
       /\ WF_vars(\E t \in {<<"evaluate", s>>, <<"poll", s>>} : PollTimeout(t, s))
  /\ WF_vars(UnhandledRejection)

FairSpec == Spec /\ Fairness

-----------------------------------------------------------------------------
(* Properties *)

\* Does t serve step s?
At(s) == \E t \in pending : t[2] = s

\* Conditions that may leave the run without a next step and without an end: the
\* target does not exist, or the error path has none.
Stranding(d, s) ==
  /\ d.kind[s] = "condition"
  /\ \/ {d.onTrue[s], d.onFalse[s]} \ (d.top \cup {None}) # {}
     \/ d.policy[s] = "continue" /\ d.onFalse[s] = None

\* The steps that may follow s at the top level, and the steps that lie ahead of s:
\* those in every set that holds its successors and is closed under them.
Successors(d, s) ==
  (IF d.kind[s] = "condition" THEN {d.onTrue[s], d.onFalse[s]} ELSE {d.next[s]}) \cap d.top
Ahead(d, s) ==
  {y \in d.top : \A C \in SUBSET d.top :
     Successors(d, s) \subseteq C /\ (\A x \in C : Successors(d, x) \subseteq C) => y \in C}
Loopless(d) == \A s \in d.top : s \notin Ahead(d, s)

\* A run has one thread of control: whatever mix of dispatches, retries, polls,
\* compensations and branches it goes through, handleStepCompletion and
\* advanceToNextStep never leave two of them pending, cancelled or not.
OneThread == Cardinality(pending) <= 1

\* No lost wake-up: a running run of a living process has something pending that
\* will move it, unless a condition left it stranded; a run that completed or failed
\* without ever being cancelled has nothing pending.
RunningIsDriven ==
  /\ runStatus = "running" /\ ~lost /\ pending = {} => \E s \in current : Stranding(def, s)
  /\ runStatus \in {"completed", "failed"} /\ ~cancelled => pending = {}

\* The stored current_step_ids name the step the process works on (for a parallel
\* group its children).
PendingIsCurrent ==
  \A t \in pending : current = {t[2]} \/ (t[1] = "rejected" /\ current = def.kids[t[2]])

\* stepAttemptCounts keeps a count only for a step that is still being retried, below
\* its maxAttempts: neither a finished step nor another visit of it in a loop
\* inherits one.
AttemptsBelongToLiveStep ==
  \A s \in Steps : attempts[s] > 0 => At(s) /\ attempts[s] < def.maxAttempts[s]

\* The run's status agrees with its steps as long as nobody cancelled it: a failed
\* run has exactly one failed step, any other has none, and a completed run has no
\* step running.
OutcomeMatchesSteps ==
  LET failed == {s \in Steps : stepStatus[s] = "failed"}
  IN ~cancelled =>
       /\ IF runStatus = "failed" THEN Cardinality(failed) = 1 ELSE failed = {}
       /\ runStatus = "completed" => \A s \in Steps : stepStatus[s] # "running"

\* A run that completed or failed is final unless it was cancelled: no late dispatch
\* result, timer or poll changes its status.
OutcomeIsFinal ==
  [][(runStatus \in Ended /\ ~cancelled) => runStatus' = runStatus]_vars

\* In a workflow without loops a step ends once: what completed, failed or was
\* skipped is not run again, not skipped afterwards and not touched by a
\* cancellation of the run.
StepsEndOnce ==
  [][~cancelled /\ def # None =>
       (Loopless(def) =>
          \A s \in Steps : stepStatus[s] \in Ended => stepStatus'[s] = stepStatus[s])]_vars

\* Every run of a workflow without loops, parallel groups and stranding conditions
\* ends, unless the process does.
RunsEnd ==
  (runStatus = "running" /\ Loopless(def)
     /\ \A s \in def.top : def.kind[s] # "parallel" /\ ~Stranding(def, s))
  ~> (runStatus \in Ended \/ lost)

\* validateWorkflowRunTransition: "Cannot transition from terminal state".  The run
\* store does not ask it, and a late result of a cancelled run overwrites the status.
EndedRunStaysEnded == [][(runStatus \in Ended) => runStatus' = runStatus]_vars

\* What moves a run: one thread of control, on the step the row names, as long as
\* the run is running and no longer.
RunIsDriven == TypeOK /\ OneThread /\ PendingIsCurrent /\ RunningIsDriven

\* No late result, timer or poll changes what has ended, run or step.
EndingsAreFinal == OutcomeIsFinal /\ StepsEndOnce
=============================================================================
