-------------------------- MODULE WorkflowRunProofs --------------------------
(***************************************************************************)
(* Proofs about WorkflowRun, for any set of drafts.                        *)
(*                                                                         *)
(* A run has one thread of control; everything it does is that the thread  *)
(* goes on to another piece of work, ends the run, or strands it at a      *)
(* condition.  The invariant says where the thread can stand: at a         *)
(* top-level step, or inside a branch; at a polling step if the step is    *)
(* being retried; and only a step it stands at is running.  A second       *)
(* invariant says what lies ahead of the thread in a draft without loops:  *)
(* nothing there has ended.                                                *)
(***************************************************************************)
EXTENDS WorkflowRun, FiniteSetTheorems, SequenceTheorems, TLAPS

\* x is a step of a branch of a top-level step.
InBranch(d, x) ==
  \E y \in d.top : /\ d.kind[y] = "branch"
                   /\ \E b \in DOMAIN d.branches[y] : \E i \in DOMAIN d.branches[y][b] : d.branches[y][b][i] = x

\* Where the thread t of a run of d can stand.
Stands(d, t) ==
  /\ IF t[1] = "inner" THEN InBranch(d, t[2]) ELSE t[2] \in d.top
  /\ t[1] \in {"evaluate", "poll", "retry"} => d.kind[t[2]] = "polling"

\* A step with an attempt count is a polling step that is waited for or tried again.
Retries(d, t) == t[1] \in {"execute", "evaluate", "poll", "retry"} /\ d.kind[t[2]] = "polling"

Thread ==
  /\ def = None => runStatus = "none" /\ pending = {} /\ ~lost
  /\ def # None => Publishable(def) /\ runStatus # "none"
  /\ \A t, u \in pending : t = u
  /\ \A t \in pending : Stands(def, t)
  /\ lost => pending = {}
  /\ runStatus = "cancelled" => cancelled

Attempted ==
  \A s \in Steps : attempts[s] > 0 =>
    \E t \in pending : t[2] = s /\ Retries(def, t) /\ attempts[s] < def.maxAttempts[s]

\* Which steps have failed and which are running, as long as nobody cancelled the run.
Outcome ==
  ~cancelled =>
    /\ runStatus # "failed" => \A s \in Steps : stepStatus[s] # "failed"
    /\ runStatus = "failed" => \E s \in Steps : \A x \in Steps : stepStatus[x] = "failed" <=> x = s
    /\ \A s \in Steps : stepStatus[s] = "running" => runStatus = "running" /\ (lost \/ At(s))

WorkflowInv == TypeOK /\ Thread /\ PendingIsCurrent /\ RunningIsDriven /\ Attempted /\ Outcome

-----------------------------------------------------------------------------
(* The thread *)

\* The fields of a draft.
LEMMA DraftFields ==
  ASSUME NEW d \in Drafts
  PROVE  /\ d # None /\ d.top \subseteq Steps /\ d.first \in d.top
         /\ \A s \in Steps : /\ d.kind[s] \in Kinds /\ d.next[s] \in StepOrNone /\ d.policy[s] \in Policies
                             /\ d.onTrue[s] \in StepOrNone /\ d.onFalse[s] \in StepOrNone
                             /\ d.hook[s] \in BOOLEAN /\ d.retriesTimeouts[s] \in BOOLEAN /\ d.maxAttempts[s] \in Nat
                             /\ d.branches[s] \in Seq(Seq(Steps)) /\ d.kids[s] \subseteq Steps
<1>1. d \in DraftType /\ d # None /\ d.first \in d.top
  BY DraftsAssumption
<1> QED BY <1>1 DEF DraftType

\* What is known while the thread is at t.
LEMMA Standing ==
  ASSUME WorkflowInv, NEW t \in pending
  PROVE  /\ pending = {t} /\ pending \ {t} = {}
         /\ t[1] \in Blocking \cup Waiting /\ t[2] \in Steps
         /\ def \in Drafts /\ def # None /\ Publishable(def) /\ Stands(def, t) /\ ~lost
         /\ runStatus # "none" /\ (~cancelled => runStatus = "running")
         /\ \A x \in Steps : attempts[x] > 0 => x = t[2] /\ Retries(def, t) /\ attempts[x] < def.maxAttempts[x]
         /\ ~cancelled => \A x \in Steps : stepStatus[x] # "failed" /\ (stepStatus[x] = "running" => x = t[2])
<1>1. pending = {t} /\ pending \ {t} = {}
  BY DEF WorkflowInv, Thread
<1>2. t[1] \in Blocking \cup Waiting /\ t[2] \in Steps
  BY DEF WorkflowInv, TypeOK
<1>3. def \in Drafts /\ def # None /\ Publishable(def) /\ Stands(def, t) /\ ~lost /\ runStatus # "none"
  BY <1>1 DEF WorkflowInv, Thread, TypeOK
<1>4. ~cancelled => runStatus = "running"
  BY <1>1, <1>3 DEF WorkflowInv, Thread, TypeOK, RunningIsDriven, Ended
<1>5. \A x \in Steps : attempts[x] > 0 => x = t[2] /\ Retries(def, t) /\ attempts[x] < def.maxAttempts[x]
  BY <1>1 DEF WorkflowInv, Attempted
<1>6. ~cancelled => \A x \in Steps : stepStatus[x] # "failed" /\ (stepStatus[x] = "running" => x = t[2])
  BY <1>1, <1>3, <1>4 DEF WorkflowInv, Outcome, At
<1> QED BY <1>1, <1>2, <1>3, <1>4, <1>5, <1>6

\* What no step of the thread changes, and the types of what it may change.
Rest ==
  /\ UNCHANGED <<hasWaitStore, def, cancelled, lost>>
  /\ openActions' \subseteq Steps
  /\ waits' \in [Steps -> {"none", "active", "satisfied", "timeout"}]
  /\ stepStatus' \in [Steps -> Ended \cup {"none", "queued", "running"}]
  /\ attempts' \in [Steps -> Nat]

NoFailure == \A x \in Steps : stepStatus'[x] = "failed" => stepStatus[x] = "failed"

\* The step of t is not running any more.
Leaves(t) == \A x \in Steps : stepStatus'[x] = "running" => stepStatus[x] = "running" /\ x # t[2]

NoAttempts == \A x \in Steps : attempts'[x] = 0

\* The thread goes from t to u ...
GoesOn(t, u) ==
  /\ Rest /\ NoFailure /\ runStatus' = runStatus
  /\ pending' = (pending \ {t}) \cup {u} /\ u \in (Blocking \cup Waiting) \X Steps /\ Stands(def, u)
  /\ current' \subseteq Steps /\ (current' = {u[2]} \/ (u[1] = "rejected" /\ current' = def.kids[u[2]]))
  /\ \A x \in Steps : stepStatus'[x] = "running" => x = u[2] \/ (stepStatus[x] = "running" /\ x # t[2])
  /\ \A x \in Steps : attempts'[x] > 0 => x = u[2] /\ Retries(def, u) /\ attempts'[x] < def.maxAttempts[x]

\* ... ends the run ...
EndsRun(t) ==
  /\ Rest /\ Leaves(t) /\ NoAttempts /\ pending' = pending \ {t} /\ current' = current
  /\ \/ runStatus' = "completed" /\ NoFailure
     \/ runStatus' = "failed" /\ \A x \in Steps : stepStatus'[x] = "failed" <=> (x = t[2] \/ stepStatus[x] = "failed")

\* ... or leaves it stranded.
Strands(t) ==
  /\ Rest /\ Leaves(t) /\ NoAttempts /\ NoFailure /\ pending' = pending \ {t} /\ current' = current /\ runStatus' = runStatus
  /\ Stranding(def, t[2]) /\ t[1] = "execute"

\* Each keeps the invariant.
LEMMA GoesOnKeeps ==
  ASSUME WorkflowInv, NEW t \in pending, NEW u, GoesOn(t, u)
  PROVE  WorkflowInv'
<1>1. /\ pending' = {u} /\ u \in (Blocking \cup Waiting) \X Steps /\ u[1] \in Blocking \cup Waiting /\ u[2] \in Steps
      /\ def' = def /\ cancelled' = cancelled /\ lost' = lost /\ runStatus' = runStatus /\ hasWaitStore' = hasWaitStore
  BY Standing DEF GoesOn, Rest
<1>2. /\ def \in Drafts /\ def # None /\ Publishable(def) /\ ~lost /\ runStatus # "none" /\ (~cancelled => runStatus = "running")
      /\ ~cancelled => \A x \in Steps : stepStatus[x] # "failed" /\ (stepStatus[x] = "running" => x = t[2])
  BY Standing
<1>3. TypeOK'
  BY <1>1 DEF WorkflowInv, TypeOK, GoesOn, Rest
<1>4. Thread'
  BY <1>1, <1>2 DEF WorkflowInv, Thread, GoesOn
<1>5. PendingIsCurrent'
  BY <1>1 DEF PendingIsCurrent, GoesOn
<1>6. RunningIsDriven'
  <2>1. pending' # {}
    BY <1>1
  <2> QED BY <1>1, <1>2, <2>1 DEF RunningIsDriven
<1>7. Attempted'
  BY <1>1 DEF Attempted, GoesOn
<1>8. Outcome'
  <2>1. \A x \in Steps : ~cancelled => stepStatus'[x] # "failed" /\ (stepStatus'[x] = "running" => x = u[2])
    BY <1>2 DEF GoesOn, NoFailure
  <2> QED BY <1>1, <1>2, <2>1 DEF Outcome, At
<1> QED BY <1>3, <1>4, <1>5, <1>6, <1>7, <1>8 DEF WorkflowInv

\* The end of the run.
LEMMA EndsRunKeeps ==
  ASSUME WorkflowInv, NEW t \in pending, EndsRun(t)
  PROVE  WorkflowInv'
<1>1. /\ pending' = {} /\ runStatus' \in {"completed", "failed"} /\ current' = current
      /\ def' = def /\ cancelled' = cancelled /\ lost' = lost /\ hasWaitStore' = hasWaitStore
  BY Standing DEF EndsRun, Rest
<1>2. /\ def \in Drafts /\ def # None /\ Publishable(def) /\ ~lost /\ t[2] \in Steps
      /\ ~cancelled => \A x \in Steps : stepStatus[x] # "failed" /\ (stepStatus[x] = "running" => x = t[2])
  BY Standing
<1>3. TypeOK'
  BY <1>1 DEF WorkflowInv, TypeOK, EndsRun, Rest, Ended
<1>4. Thread'
  BY <1>1, <1>2 DEF WorkflowInv, Thread
<1>5. PendingIsCurrent' /\ RunningIsDriven'
  BY <1>1 DEF PendingIsCurrent, RunningIsDriven
<1>6. Attempted'
  <2>1. \A x \in Steps : ~(attempts'[x] > 0)
    BY DEF EndsRun, NoAttempts
  <2> QED BY <2>1 DEF Attempted
<1>7. Outcome'
  <2>1. ~cancelled => \A x \in Steps : stepStatus'[x] # "running"
    BY <1>2 DEF EndsRun, Leaves
  <2>2. ~cancelled /\ runStatus' = "failed" => \A x \in Steps : stepStatus'[x] = "failed" <=> x = t[2]
    BY <1>2 DEF EndsRun
  <2>3. ~cancelled /\ runStatus' # "failed" => \A x \in Steps : stepStatus'[x] # "failed"
    BY <1>2 DEF EndsRun, NoFailure
  <2> QED BY <1>1, <1>2, <2>1, <2>2, <2>3 DEF Outcome
<1> QED BY <1>3, <1>4, <1>5, <1>6, <1>7 DEF WorkflowInv

\* A condition without a next step.
LEMMA StrandsKeeps ==
  ASSUME WorkflowInv, NEW t \in pending, Strands(t)
  PROVE  WorkflowInv'
<1>1. /\ pending' = {} /\ runStatus' = runStatus /\ current' = current
      /\ def' = def /\ cancelled' = cancelled /\ lost' = lost /\ hasWaitStore' = hasWaitStore
  BY Standing DEF Strands, Rest
<1>2. /\ def \in Drafts /\ def # None /\ Publishable(def) /\ ~lost /\ t[2] \in Steps /\ runStatus # "none"
      /\ (~cancelled => runStatus = "running")
      /\ ~cancelled => \A x \in Steps : stepStatus[x] # "failed" /\ (stepStatus[x] = "running" => x = t[2])
  BY Standing
<1>3. TypeOK'
  BY <1>1 DEF WorkflowInv, TypeOK, Strands, Rest
<1>4. Thread'
  BY <1>1, <1>2 DEF WorkflowInv, Thread
<1>5. PendingIsCurrent'
  BY <1>1 DEF PendingIsCurrent
<1>6. RunningIsDriven'
  <2>1. current' = {t[2]} /\ Stranding(def, t[2])
    BY <1>1 DEF WorkflowInv, PendingIsCurrent, Strands
  <2>2. Stranding(def, t[2])'
    BY <1>1, <2>1 DEF Stranding
  <2> QED BY <1>1, <2>1, <2>2 DEF RunningIsDriven
<1>7. Attempted'
  <2>1. \A x \in Steps : ~(attempts'[x] > 0)
    BY DEF Strands, NoAttempts
  <2> QED BY <2>1 DEF Attempted
<1>8. Outcome'
  <2>1. ~cancelled => \A x \in Steps : stepStatus'[x] # "running" /\ stepStatus'[x] # "failed"
    BY <1>2 DEF Strands, Leaves, NoFailure
  <2> QED BY <1>1, <1>2, <2>1 DEF Outcome
<1> QED BY <1>3, <1>4, <1>5, <1>6, <1>7, <1>8 DEF WorkflowInv

-----------------------------------------------------------------------------
(* The pieces of the handlers *)

StepStatuses == Ended \cup {"none", "queued", "running"}

\* One step row is written.
LEMMA StepSet ==
  ASSUME WorkflowInv, NEW s \in Steps, NEW v \in StepStatuses, SetStep(s, v)
  PROVE  /\ stepStatus' \in [Steps -> StepStatuses] /\ stepStatus'[s] = v
         /\ \A x \in Steps : x # s => stepStatus'[x] = stepStatus[x]
BY DEF WorkflowInv, TypeOK, SetStep, StepStatuses

\* The attempts of the step the thread is at are forgotten: none is left.
LEMMA AttemptsForgotten ==
  ASSUME WorkflowInv, NEW t \in pending, attempts' = [attempts EXCEPT ![t[2]] = 0]
  PROVE  NoAttempts /\ attempts' \in [Steps -> Nat]
<1>1. t[2] \in Steps /\ \A x \in Steps : attempts[x] > 0 => x = t[2]
  BY Standing
<1>2. attempts \in [Steps -> Nat]
  BY DEF WorkflowInv, TypeOK
<1>3. \A x \in Steps : x # t[2] => attempts[x] = 0
  BY <1>1, <1>2
<1> QED BY <1>1, <1>2, <1>3 DEF NoAttempts

\* A thread that is not at a step that retries has none either.
LEMMA AttemptsAbsent ==
  ASSUME WorkflowInv, NEW t \in pending, ~Retries(def, t), attempts' = attempts
  PROVE  NoAttempts /\ attempts' \in [Steps -> Nat]
<1>1. \A x \in Steps : ~(attempts[x] > 0)
  BY Standing
<1>2. attempts \in [Steps -> Nat]
  BY DEF WorkflowInv, TypeOK
<1> QED BY <1>1, <1>2 DEF NoAttempts

\* updateCurrentSteps and executeStep of a step n of the top level.
LEMMA RunStepKeeps ==
  ASSUME WorkflowInv, NEW t \in pending, NEW n \in def.top, RunStep(t, n), Rest, NoFailure, Leaves(t), NoAttempts
  PROVE  WorkflowInv'
<1> DEFINE u == <<"execute", n>>
<1>1. n \in Steps
  BY Standing, DraftFields
<1>2. current' = {n} /\ pending' = (pending \ {t}) \cup {u} /\ runStatus' = runStatus
  BY DEF RunStep, Then
<1>3. u \in (Blocking \cup Waiting) \X Steps /\ Stands(def, u) /\ u[2] = n
  BY <1>1 DEF Blocking, Stands
<1> HIDE DEF u
<1>4. \A x \in Steps : ~(attempts'[x] > 0)
  BY DEF NoAttempts
<1>5. GoesOn(t, u)
  BY <1>1, <1>2, <1>3, <1>4 DEF GoesOn, Leaves
<1> QED BY <1>5, GoesOnKeeps

\* advanceToNextStep after the step s of the top level.
LEMMA AdvanceKeeps ==
  ASSUME WorkflowInv, NEW t \in pending, NEW s \in def.top, AdvanceToNextStep(t, s), Rest, NoFailure, Leaves(t), NoAttempts
  PROVE  WorkflowInv'
<1>1. def.next[s] \in def.top \cup {None}
  BY Standing DEF Publishable, IsLinear
<1>2. CASE def.next[s] = None
  <2>1. EndsRun(t)
    BY <1>2 DEF EndsRun, AdvanceToNextStep, EndRun, Done
  <2> QED BY <2>1, EndsRunKeeps
<1>3. CASE def.next[s] # None
  <2>1. def.next[s] \in def.top /\ RunStep(t, def.next[s])
    BY <1>1, <1>3 DEF AdvanceToNextStep
  <2> QED BY <2>1, RunStepKeeps
<1> QED BY <1>2, <1>3

\* What a handler changes beside the step row and the thread.
Handles(t) ==
  /\ UNCHANGED <<hasWaitStore, def, cancelled, lost>>
  /\ waits' \in [Steps -> {"none", "active", "satisfied", "timeout"}]
  /\ attempts' \in [Steps -> Nat] /\ NoAttempts

\* The step of the thread ends well or is passed over, and the run goes on after s.
LEMMA PassedKeeps ==
  ASSUME WorkflowInv, NEW t \in pending, NEW s \in def.top, NEW v \in {"completed", "cancelled"},
         SetStep(t[2], v), AdvanceToNextStep(t, s), Handles(t), UNCHANGED openActions
  PROVE  WorkflowInv'
<1>1. t[2] \in Steps /\ v \in StepStatuses /\ openActions \subseteq Steps
  BY Standing DEF StepStatuses, Ended, WorkflowInv, TypeOK
<1>2. /\ stepStatus' \in [Steps -> StepStatuses] /\ stepStatus'[t[2]] = v
      /\ \A x \in Steps : x # t[2] => stepStatus'[x] = stepStatus[x]
  BY <1>1, StepSet
<1>3. Rest /\ NoAttempts
  BY <1>1, <1>2 DEF Rest, Handles, StepStatuses
<1>4. NoFailure /\ Leaves(t)
  BY <1>2 DEF NoFailure, Leaves
<1> QED BY <1>3, <1>4, AdvanceKeeps

\* handleOnFailureFail.
LEMMA FailKeeps ==
  ASSUME WorkflowInv, NEW t \in pending, HandleOnFailureFail(t, t[2]), Handles(t), UNCHANGED openActions
  PROVE  WorkflowInv'
<1>1. t[2] \in Steps /\ "failed" \in StepStatuses /\ openActions \subseteq Steps
  BY Standing DEF StepStatuses, Ended, WorkflowInv, TypeOK
<1>2. /\ stepStatus' \in [Steps -> StepStatuses] /\ stepStatus'[t[2]] = "failed"
      /\ \A x \in Steps : x # t[2] => stepStatus'[x] = stepStatus[x]
  BY <1>1, StepSet DEF HandleOnFailureFail
<1>3. Rest /\ NoAttempts
  BY <1>1, <1>2 DEF Rest, Handles, StepStatuses
<1>4. Leaves(t) /\ \A x \in Steps : stepStatus'[x] = "failed" <=> (x = t[2] \/ stepStatus[x] = "failed")
  BY <1>2 DEF Leaves
<1>5. runStatus' = "failed" /\ pending' = pending \ {t} /\ current' = current
  BY DEF HandleOnFailureFail, EndRun, Done
<1>6. EndsRun(t)
  BY <1>3, <1>4, <1>5 DEF EndsRun
<1> QED BY <1>6, EndsRunKeeps

\* The thread waits for something else at the same step, whose row is v or as it was.
LEMMA SameStepKeeps ==
  ASSUME WorkflowInv, NEW t \in pending, t[1] # "rejected", NEW k \in (Blocking \cup Waiting) \ {"rejected"},
         pending' = (pending \ {t}) \cup {<<k, t[2]>>}, Stands(def, <<k, t[2]>>),
         stepStatus' = stepStatus \/ \E v \in {"queued", "running"} : SetStep(t[2], v),
         UNCHANGED <<hasWaitStore, def, cancelled, lost, runStatus, current>>, openActions' \subseteq Steps,
         waits' \in [Steps -> {"none", "active", "satisfied", "timeout"}], attempts' \in [Steps -> Nat],
         \A x \in Steps : attempts'[x] > 0 => x = t[2] /\ Retries(def, <<k, t[2]>>) /\ attempts'[x] < def.maxAttempts[x]
  PROVE  WorkflowInv'
<1> DEFINE u == <<k, t[2]>>
<1>1. t[2] \in Steps /\ current = {t[2]} /\ u[2] = t[2] /\ u \in (Blocking \cup Waiting) \X Steps
  BY Standing DEF WorkflowInv, PendingIsCurrent
<1>2. stepStatus' \in [Steps -> StepStatuses] /\ \A x \in Steps : x # t[2] => stepStatus'[x] = stepStatus[x]
  <2>1. CASE stepStatus' = stepStatus
    BY <2>1 DEF WorkflowInv, TypeOK, StepStatuses
  <2>2. CASE \E v \in {"queued", "running"} : SetStep(t[2], v)
    BY <1>1, <2>2, StepSet DEF StepStatuses
  <2> QED BY <2>1, <2>2
<1>3. NoFailure
  <2>1. CASE stepStatus' = stepStatus
    BY <2>1 DEF NoFailure
  <2>2. ASSUME NEW v \in {"queued", "running"}, SetStep(t[2], v) PROVE NoFailure
    <3>1. v \in StepStatuses
      BY DEF StepStatuses
    <3>2. stepStatus'[t[2]] = v /\ \A x \in Steps : x # t[2] => stepStatus'[x] = stepStatus[x]
      BY <1>1, <2>2, <3>1, StepSet
    <3> QED BY <3>2 DEF NoFailure
  <2> QED BY <2>1, <2>2
<1>4. Rest
  BY <1>2 DEF Rest, StepStatuses
<1>5. pending' = (pending \ {t}) \cup {u} /\ Stands(def, u)
  OBVIOUS
<1>6. \A x \in Steps : attempts'[x] > 0 => x = u[2] /\ Retries(def, u) /\ attempts'[x] < def.maxAttempts[x]
  BY <1>1
<1> HIDE DEF u
<1>7. \A x \in Steps : stepStatus'[x] = "running" => x = u[2] \/ (stepStatus[x] = "running" /\ x # t[2])
  BY <1>1, <1>2
<1>8. current' \subseteq Steps /\ current' = {u[2]}
  BY <1>1
<1>9. GoesOn(t, u)
  BY <1>1, <1>3, <1>4, <1>5, <1>6, <1>7, <1>8 DEF GoesOn
<1> QED BY <1>9, GoesOnKeeps

\* applyOnFailurePolicy.
LEMMA PolicyKeeps ==
  ASSUME WorkflowInv, NEW t \in pending, t[2] \in def.top, t[1] # "rejected", ApplyOnFailurePolicy(t, t[2]), Handles(t)
  PROVE  WorkflowInv'
<1> DEFINE s == t[2]
<1>1. CASE SetStep(s, "completed") /\ AdvanceToNextStep(t, s) /\ UNCHANGED openActions
  BY <1>1, PassedKeeps
<1>2. CASE SetStep(s, "cancelled") /\ AdvanceToNextStep(t, s) /\ UNCHANGED openActions
  BY <1>2, PassedKeeps
<1>3. CASE HandleOnFailureFail(t, s) /\ UNCHANGED openActions
  BY <1>3, FailKeeps
<1>4. CASE openActions' = openActions \cup {s} /\ Then(t, <<"compensate", s>>) /\ UNCHANGED <<stepStatus, runStatus, current>>
  <2>1. "compensate" \in (Blocking \cup Waiting) \ {"rejected"} /\ pending' = (pending \ {t}) \cup {<<"compensate", s>>}
    BY <1>4 DEF Waiting, Then
  <2>2. Stands(def, <<"compensate", s>>)
    BY DEF Stands
  <2>3. openActions' \subseteq Steps
    BY <1>4, Standing DEF WorkflowInv, TypeOK
  <2>4. \A x \in Steps : ~(attempts'[x] > 0)
    BY DEF Handles, NoAttempts
  <2> QED BY <1>4, <2>1, <2>2, <2>3, <2>4, SameStepKeeps DEF Handles
<1> QED BY <1>1, <1>2, <1>3, <1>4 DEF ApplyOnFailurePolicy

\* handleStepCompletion with a failure.
LEMMA FailureKeeps ==
  ASSUME WorkflowInv, NEW t \in pending, t[2] \in def.top, t[1] # "rejected", NEW cause,
         cause = "timeout" => def.kind[t[2]] = "polling",
         HandleStepFailure(t, t[2], cause), UNCHANGED <<hasWaitStore, def, cancelled, lost>>,
         waits' \in [Steps -> {"none", "active", "satisfied", "timeout"}]
  PROVE  WorkflowInv'
<1> DEFINE s == t[2]
<1>1. CASE ShouldRetryStepV2(s, cause, attempts[s] + 1)
  <2>1. /\ attempts' = [attempts EXCEPT ![s] = attempts[s] + 1] /\ SetStep(s, "queued")
        /\ pending' = (pending \ {t}) \cup {<<"retry", s>>} /\ UNCHANGED <<runStatus, current, openActions>>
    BY <1>1 DEF HandleStepFailure, Then
  <2>2. attempts[s] + 1 < def.maxAttempts[s] /\ def.kind[s] = "polling"
    BY <1>1 DEF ShouldRetryStepV2
  <2>3. s \in Steps /\ attempts \in [Steps -> Nat] /\ \A x \in Steps : attempts[x] > 0 => x = s
    BY Standing DEF WorkflowInv, TypeOK
  <2>4. attempts' \in [Steps -> Nat] /\ \A x \in Steps : attempts'[x] > 0 => x = s /\ attempts'[x] < def.maxAttempts[x]
    BY <2>1, <2>2, <2>3
  <2>5. "retry" \in (Blocking \cup Waiting) \ {"rejected"} /\ Stands(def, <<"retry", s>>) /\ Retries(def, <<"retry", s>>)
    BY <2>2 DEF Waiting, Stands, Retries
  <2>6. openActions' \subseteq Steps /\ "queued" \in {"queued", "running"}
    BY <2>1 DEF WorkflowInv, TypeOK
  <2> QED BY <2>1, <2>4, <2>5, <2>6, SameStepKeeps
<1>2. CASE ~ShouldRetryStepV2(s, cause, attempts[s] + 1)
  <2>1. attempts' = [attempts EXCEPT ![s] = 0] /\ ApplyOnFailurePolicy(t, s)
    BY <1>2 DEF HandleStepFailure
  <2>2. Handles(t)
    BY <2>1, AttemptsForgotten DEF Handles
  <2> QED BY <2>1, <2>2, PolicyKeeps
<1> QED BY <1>1, <1>2

\* handleStepCompletion with success.
LEMMA SuccessKeeps ==
  ASSUME WorkflowInv, NEW t \in pending, t[2] \in def.top, HandleStepSuccess(t, t[2]),
         UNCHANGED <<hasWaitStore, def, cancelled, lost>>,
         waits' \in [Steps -> {"none", "active", "satisfied", "timeout"}]
  PROVE  WorkflowInv'
<1>1. /\ attempts' = [attempts EXCEPT ![t[2]] = 0] /\ SetStep(t[2], "completed") /\ AdvanceToNextStep(t, t[2])
      /\ UNCHANGED openActions
  BY DEF HandleStepSuccess
<1>2. Handles(t)
  BY <1>1, AttemptsForgotten DEF Handles
<1> QED BY <1>1, <1>2, PassedKeeps

-----------------------------------------------------------------------------
(* executeStep *)

\* A step that is executed is at the top level.
LEMMA Executing ==
  ASSUME WorkflowInv, NEW s \in Steps, NEW kind, Executes(s, kind), NEW t, t = <<"execute", s>>
  PROVE  /\ t \in pending /\ t[1] = "execute" /\ t[2] = s /\ s \in def.top /\ def.kind[s] = kind /\ def \in Drafts
         /\ kind # "polling" => ~Retries(def, t)
<1>1. t \in pending /\ t[1] = "execute" /\ t[2] = s /\ def.kind[s] = kind
  BY DEF Executes
<1>2. Stands(def, t) /\ def \in Drafts
  BY <1>1, Standing
<1> QED BY <1>1, <1>2 DEF Stands, Retries

\* A step is dispatched.
LEMMA ExecuteActionKeeps ==
  ASSUME WorkflowInv, NEW s \in Steps, ExecuteAction(s)
  PROVE  WorkflowInv'
<1> DEFINE t == <<"execute", s>>
<1>1. /\ Executes(s, "action") /\ SetStep(s, "running") /\ openActions' = openActions \cup {s}
      /\ pending' = (pending \ {t}) \cup {<<"dispatch", s>>}
      /\ UNCHANGED <<hasWaitStore, def, runStatus, current, waits, cancelled, attempts, lost>>
  BY DEF ExecuteAction, Dispatch, Then
<1>2. t \in pending /\ t[1] = "execute" /\ t[2] = s /\ s \in def.top /\ ~Retries(def, t)
  BY <1>1, Executing
<1> HIDE DEF t
<1>3. NoAttempts /\ attempts' \in [Steps -> Nat]
  BY <1>1, <1>2, AttemptsAbsent
<1>4. \A x \in Steps : ~(attempts'[x] > 0)
  BY <1>3 DEF NoAttempts
<1>5. "dispatch" \in (Blocking \cup Waiting) \ {"rejected"} /\ Stands(def, <<"dispatch", t[2]>>)
  BY <1>2 DEF Waiting, Stands
<1>6. openActions' \subseteq Steps /\ waits' \in [Steps -> {"none", "active", "satisfied", "timeout"}]
  BY <1>1 DEF WorkflowInv, TypeOK
<1>7. SetStep(t[2], "running") /\ pending' = (pending \ {t}) \cup {<<"dispatch", t[2]>>}
  BY <1>1, <1>2
<1> QED BY <1>1, <1>2, <1>3, <1>4, <1>5, <1>6, <1>7, SameStepKeeps

\* The step of the thread is completed and nothing else changes but the thread.
LEMMA CompletedRow ==
  ASSUME WorkflowInv, NEW t \in pending, SetStep(t[2], "completed"), ~Retries(def, t),
         UNCHANGED <<hasWaitStore, def, openActions, waits, cancelled, attempts, lost>>
  PROVE  Rest /\ NoFailure /\ Leaves(t) /\ NoAttempts
<1>1. t[2] \in Steps /\ "completed" \in StepStatuses
  BY Standing DEF StepStatuses, Ended
<1>2. /\ stepStatus' \in [Steps -> StepStatuses] /\ stepStatus'[t[2]] = "completed"
      /\ \A x \in Steps : x # t[2] => stepStatus'[x] = stepStatus[x]
  BY <1>1, StepSet
<1>3. NoAttempts /\ attempts' \in [Steps -> Nat]
  BY AttemptsAbsent
<1>4. Rest
  BY <1>2, <1>3 DEF Rest, StepStatuses, WorkflowInv, TypeOK
<1> QED BY <1>2, <1>3, <1>4 DEF NoFailure, Leaves

\* A condition leads to a step there is, to one there is not, or to none.
LEMMA ExecuteConditionKeeps ==
  ASSUME WorkflowInv, NEW s \in Steps, NEW met \in BOOLEAN, ExecuteCondition(s, met)
  PROVE  WorkflowInv'
<1> DEFINE t == <<"execute", s>>
           target == IF met THEN def.onTrue[s] ELSE def.onFalse[s]
<1>1. /\ Executes(s, "condition") /\ SetStep(s, "completed")
      /\ UNCHANGED <<hasWaitStore, def, openActions, waits, cancelled, attempts, lost>>
  BY DEF ExecuteCondition
<1>2. t \in pending /\ t[1] = "execute" /\ t[2] = s /\ ~Retries(def, t) /\ def.kind[s] = "condition"
  BY <1>1, Executing
<1>3. IF target = None THEN EndRun(t, "completed")
      ELSE IF target \in def.top THEN RunStep(t, target) ELSE Done(t) /\ UNCHANGED <<runStatus, current>>
  BY DEF ExecuteCondition, GoTo
<1>4. target \in {def.onTrue[s], def.onFalse[s]}
  OBVIOUS
<1> HIDE DEF t, target
<1>5. Rest /\ NoFailure /\ Leaves(t) /\ NoAttempts
  BY <1>1, <1>2, CompletedRow
<1>6. CASE target = None
  <2>1. EndsRun(t)
    BY <1>3, <1>5, <1>6 DEF EndRun, Done, EndsRun
  <2> QED BY <1>2, <2>1, EndsRunKeeps
<1>7. CASE target # None /\ target \in def.top
  BY <1>2, <1>3, <1>5, <1>7, RunStepKeeps
<1>8. CASE target # None /\ target \notin def.top
  <2>1. Stranding(def, t[2])
    BY <1>2, <1>4, <1>8 DEF Stranding
  <2>2. Strands(t)
    BY <1>2, <1>3, <1>5, <1>8, <2>1 DEF Strands, Done
  <2> QED BY <1>2, <2>2, StrandsKeeps
<1> QED BY <1>6, <1>7, <1>8

\* A condition that cannot be evaluated.
LEMMA ExecuteConditionErrorKeeps ==
  ASSUME WorkflowInv, NEW s \in Steps, ExecuteConditionError(s)
  PROVE  WorkflowInv'
<1> DEFINE t == <<"execute", s>>
           target == def.onFalse[s]
<1>1. /\ Executes(s, "condition")
      /\ UNCHANGED <<hasWaitStore, def, openActions, waits, cancelled, attempts, lost>>
  BY DEF ExecuteConditionError
<1>2. t \in pending /\ t[1] = "execute" /\ t[2] = s /\ ~Retries(def, t) /\ def.kind[s] = "condition"
  BY <1>1, Executing
<1>3. CASE def.policy[s] = "continue"
  <2>1. /\ SetStep(s, "completed")
        /\ \/ target \in def.top /\ RunStep(t, target)
           \/ target \notin def.top /\ Done(t) /\ UNCHANGED <<runStatus, current>>
           \/ target = None /\ Done(t) /\ UNCHANGED <<runStatus, current>>
    BY <1>3 DEF ExecuteConditionError, GoTo
  <2> HIDE DEF t
  <2>2. Rest /\ NoFailure /\ Leaves(t) /\ NoAttempts
    BY <1>1, <1>2, <2>1, CompletedRow
  <2>3. CASE target \in def.top /\ RunStep(t, target)
    BY <1>2, <2>2, <2>3, RunStepKeeps
  <2>4. CASE (target \notin def.top \/ target = None) /\ Done(t) /\ UNCHANGED <<runStatus, current>>
    <3>1. Stranding(def, t[2])
      BY <1>2, <1>3, <2>4 DEF Stranding
    <3>2. Strands(t)
      BY <1>2, <2>2, <2>4, <3>1 DEF Strands, Done
    <3> QED BY <1>2, <3>2, StrandsKeeps
  <2> QED BY <2>1, <2>3, <2>4
<1>4. CASE def.policy[s] # "continue"
  <2>1. HandleOnFailureFail(t, s)
    BY <1>4 DEF ExecuteConditionError
  <2> HIDE DEF t
  <2>2. Handles(t)
    BY <1>1, <1>2, AttemptsAbsent DEF Handles, WorkflowInv, TypeOK
  <2> QED BY <1>1, <1>2, <2>1, <2>2, FailKeeps
<1> QED BY <1>3, <1>4

\* A branch is selected: the steps of the others are skipped.
LEMMA ExecuteBranchKeeps ==
  ASSUME WorkflowInv, NEW s \in Steps, def # None, NEW b \in DOMAIN def.branches[s], ExecuteBranch(s, b)
  PROVE  WorkflowInv'
<1> DEFINE t == <<"execute", s>>
           branch == def.branches[s][b]
           chosen == [stepStatus EXCEPT ![s] = "completed"]
           skipped == [x \in Steps |-> IF x \in Skipped(s, b) THEN "cancelled" ELSE chosen[x]]
<1>1. /\ Executes(s, "branch") /\ UNCHANGED <<hasWaitStore, def, waits, cancelled, attempts, lost>>
      /\ IF branch = <<>>
         THEN stepStatus' = skipped /\ AdvanceToNextStep(t, s) /\ UNCHANGED openActions
         ELSE /\ stepStatus' = [skipped EXCEPT ![branch[1]] = "running"] /\ current' = {branch[1]}
              /\ openActions' = openActions \cup {branch[1]} /\ pending' = (pending \ {t}) \cup {<<"inner", branch[1]>>}
              /\ UNCHANGED runStatus
  BY DEF ExecuteBranch, Dispatch, Then
<1>2. /\ t \in pending /\ t[1] = "execute" /\ t[2] = s /\ ~Retries(def, t) /\ def.kind[s] = "branch"
      /\ s \in def.top /\ def \in Drafts
  BY <1>1, Executing
<1>3. stepStatus \in [Steps -> StepStatuses]
  BY DEF WorkflowInv, TypeOK, StepStatuses
<1>4. /\ skipped \in [Steps -> StepStatuses] /\ skipped[s] \in {"cancelled", "completed"}
      /\ \A x \in Steps : skipped[x] \in {"cancelled", "completed", stepStatus[x]}
  <2>1. "completed" \in StepStatuses /\ "cancelled" \in StepStatuses
    BY DEF StepStatuses, Ended
  <2>2. chosen \in [Steps -> StepStatuses] /\ chosen[s] = "completed" /\ \A x \in Steps : x # s => chosen[x] = stepStatus[x]
    BY <1>3, <2>1
  <2> HIDE DEF chosen
  <2> QED BY <2>1, <2>2
<1>5. NoAttempts /\ attempts' \in [Steps -> Nat]
  BY <1>1, <1>2, AttemptsAbsent
<1>6. waits' \in [Steps -> {"none", "active", "satisfied", "timeout"}] /\ openActions \subseteq Steps
  BY <1>1 DEF WorkflowInv, TypeOK
<1> HIDE DEF t, skipped
<1>7. CASE branch = <<>>
  <2>1. stepStatus' = skipped /\ AdvanceToNextStep(t, s) /\ UNCHANGED openActions
    BY <1>1, <1>7
  <2>2. Rest /\ NoFailure /\ Leaves(t)
    BY <1>1, <1>2, <1>4, <1>5, <1>6, <2>1 DEF Rest, NoFailure, Leaves, StepStatuses
  <2> QED BY <1>2, <1>5, <2>1, <2>2, AdvanceKeeps
<1>8. CASE branch # <<>>
  <2> DEFINE n == branch[1]
             u == <<"inner", n>>
  <2>1. branch \in Seq(Steps)
    BY <1>2, DraftFields
  <2>2. 1 \in DOMAIN branch /\ n \in Steps
    BY <1>8, <2>1
  <2>3. InBranch(def, n)
    BY <1>2, <2>2 DEF InBranch
  <2>4. /\ stepStatus' = [skipped EXCEPT ![n] = "running"] /\ current' = {n} /\ openActions' = openActions \cup {n}
        /\ pending' = (pending \ {t}) \cup {u} /\ UNCHANGED runStatus
    BY <1>1, <1>8
  <2>5. u \in (Blocking \cup Waiting) \X Steps /\ Stands(def, u) /\ u[2] = n
    BY <2>2, <2>3 DEF Waiting, Stands
  <2> HIDE DEF n, u
  <2>6. stepStatus' \in [Steps -> StepStatuses] /\ stepStatus'[n] = "running" /\ \A x \in Steps : x # n => stepStatus'[x] = skipped[x]
    BY <1>4, <2>2, <2>4 DEF StepStatuses
  <2>7. Rest /\ NoFailure
    BY <1>1, <1>4, <1>5, <1>6, <2>2, <2>4, <2>6 DEF Rest, NoFailure, StepStatuses
  <2>8. \A x \in Steps : stepStatus'[x] = "running" => x = u[2] \/ (stepStatus[x] = "running" /\ x # t[2])
    BY <1>2, <1>4, <2>5, <2>6
  <2>9. \A x \in Steps : ~(attempts'[x] > 0)
    BY <1>5 DEF NoAttempts
  <2>10. GoesOn(t, u)
    BY <2>2, <2>4, <2>5, <2>7, <2>8, <2>9 DEF GoesOn
  <2> QED BY <1>2, <2>10, GoesOnKeeps
<1> QED BY <1>7, <1>8

\* A parallel group rejects.
LEMMA ExecuteParallelKeeps ==
  ASSUME WorkflowInv, NEW s \in Steps, ExecuteParallelGroup(s)
  PROVE  WorkflowInv'
<1> DEFINE t == <<"execute", s>>
           u == <<"rejected", s>>
<1>1. /\ Executes(s, "parallel") /\ SetStep(s, "running") /\ current' = def.kids[s]
      /\ pending' = (pending \ {t}) \cup {u}
      /\ UNCHANGED <<hasWaitStore, def, runStatus, openActions, waits, cancelled, attempts, lost>>
  BY DEF ExecuteParallelGroup, Then
<1>2. t \in pending /\ t[1] = "execute" /\ t[2] = s /\ s \in def.top /\ ~Retries(def, t) /\ def \in Drafts
  BY <1>1, Executing
<1>3. u \in (Blocking \cup Waiting) \X Steps /\ Stands(def, u) /\ u[2] = s /\ u[1] = "rejected"
  BY <1>2 DEF Blocking, Stands
<1> HIDE DEF t, u
<1>4. NoAttempts /\ attempts' \in [Steps -> Nat]
  BY <1>1, <1>2, AttemptsAbsent
<1>5. \A x \in Steps : ~(attempts'[x] > 0)
  BY <1>4 DEF NoAttempts
<1>6. "running" \in StepStatuses
  BY DEF StepStatuses
<1>7. /\ stepStatus' \in [Steps -> StepStatuses] /\ stepStatus'[s] = "running"
      /\ \A x \in Steps : x # s => stepStatus'[x] = stepStatus[x]
  BY <1>1, <1>6, StepSet
<1>8. Rest /\ NoFailure
  BY <1>1, <1>4, <1>7 DEF Rest, NoFailure, StepStatuses, WorkflowInv, TypeOK
<1>9. current' \subseteq Steps
  BY <1>1, <1>2, DraftFields
<1>10. \A x \in Steps : stepStatus'[x] = "running" => x = u[2] \/ (stepStatus[x] = "running" /\ x # t[2])
  BY <1>2, <1>3, <1>7
<1>11. GoesOn(t, u)
  BY <1>1, <1>3, <1>5, <1>8, <1>9, <1>10 DEF GoesOn
<1> QED BY <1>2, <1>11, GoesOnKeeps

\* A wait is started, or fails without a store.
LEMMA ExecutePollingKeeps ==
  ASSUME WorkflowInv, NEW s \in Steps, ExecutePollingWait(s)
  PROVE  WorkflowInv'
<1> DEFINE t == <<"execute", s>>
<1>1. Executes(s, "polling") /\ UNCHANGED <<hasWaitStore, def, cancelled, lost>>
  BY DEF ExecutePollingWait
<1>2. t \in pending /\ t[1] = "execute" /\ t[2] = s /\ s \in def.top /\ def.kind[s] = "polling"
  BY <1>1, Executing
<1>3. waits \in [Steps -> {"none", "active", "satisfied", "timeout"}] /\ attempts \in [Steps -> Nat] /\ openActions \subseteq Steps
  BY DEF WorkflowInv, TypeOK
<1>4. CASE hasWaitStore
  <2>1. /\ SetStep(s, "running") /\ waits' = [waits EXCEPT ![s] = "active"]
        /\ pending' = (pending \ {t}) \cup {<<"evaluate", s>>}
        /\ UNCHANGED <<runStatus, current, openActions, attempts>>
    BY <1>4 DEF ExecutePollingWait, Then
  <2> HIDE DEF t
  <2>2. /\ "evaluate" \in (Blocking \cup Waiting) \ {"rejected"}
        /\ Stands(def, <<"evaluate", t[2]>>) /\ Retries(def, <<"evaluate", t[2]>>)
    BY <1>2 DEF Blocking, Stands, Retries
  <2>3. SetStep(t[2], "running") /\ pending' = (pending \ {t}) \cup {<<"evaluate", t[2]>>}
    BY <1>2, <2>1
  <2>4. \A x \in Steps : attempts'[x] > 0 => x = t[2] /\ attempts'[x] < def.maxAttempts[x]
    BY <1>2, <2>1, Standing
  <2>5. /\ waits' \in [Steps -> {"none", "active", "satisfied", "timeout"}] /\ attempts' \in [Steps -> Nat]
        /\ openActions' \subseteq Steps /\ UNCHANGED <<hasWaitStore, def, cancelled, lost, runStatus, current>>
    BY <1>1, <1>3, <2>1
  <2> QED BY <1>2, <2>2, <2>3, <2>4, <2>5, SameStepKeeps
<1>5. CASE ~hasWaitStore
  <2>1. HandleStepFailure(t, s, "unconfigured") /\ UNCHANGED waits
    BY <1>5 DEF ExecutePollingWait
  <2> HIDE DEF t
  <2>2. t[1] # "rejected" /\ t[2] \in def.top /\ HandleStepFailure(t, t[2], "unconfigured")
    BY <1>2, <2>1
  <2> QED BY <1>1, <1>2, <1>3, <2>1, <2>2, FailureKeeps
<1> QED BY <1>4, <1>5

-----------------------------------------------------------------------------
(* What the run waits for happens *)

\* A poll is at a polling step of the top level.
LEMMA Evaluating ==
  ASSUME WorkflowInv, NEW s \in Steps, NEW t, Evaluates(t, s)
  PROVE  t \in pending /\ t[1] # "rejected" /\ t[2] = s /\ s \in def.top /\ def.kind[s] = "polling"
<1>1. t \in pending /\ t[2] = s /\ t[1] \in {"evaluate", "poll"}
  BY DEF Evaluates, Serves
<1>2. Stands(def, t)
  BY <1>1, Standing
<1> QED BY <1>1, <1>2 DEF Stands

\* The evaluations of a wait.
LEMMA PollsKeep ==
  ASSUME WorkflowInv, NEW s \in Steps, NEW t, PollTimeout(t, s) \/ PollError(t, s) \/ PollMet(t, s) \/ PollAgain(t, s)
  PROVE  WorkflowInv'
<1>1. Evaluates(t, s)
  BY DEF PollTimeout, PollError, PollMet, PollAgain
<1>2. t \in pending /\ t[1] # "rejected" /\ t[2] = s /\ s \in def.top /\ def.kind[s] = "polling"
  BY <1>1, Evaluating
<1>3. /\ waits \in [Steps -> {"none", "active", "satisfied", "timeout"}] /\ attempts \in [Steps -> Nat]
      /\ openActions \subseteq Steps
  BY DEF WorkflowInv, TypeOK
<1>4. CASE PollTimeout(t, s)
  <2>1. /\ waits' \in [Steps -> {"none", "active", "satisfied", "timeout"}] /\ HandleStepFailure(t, t[2], "timeout")
        /\ UNCHANGED <<hasWaitStore, def, cancelled, lost>>
    BY <1>2, <1>3, <1>4 DEF PollTimeout
  <2> QED BY <1>2, <2>1, FailureKeeps
<1>5. CASE PollError(t, s)
  <2>1. /\ waits' \in [Steps -> {"none", "active", "satisfied", "timeout"}] /\ HandleStepFailure(t, t[2], "expression")
        /\ UNCHANGED <<hasWaitStore, def, cancelled, lost>>
    BY <1>2, <1>3, <1>5 DEF PollError
  <2> QED BY <1>2, <2>1, FailureKeeps
<1>6. CASE PollMet(t, s)
  <2>1. /\ waits' \in [Steps -> {"none", "active", "satisfied", "timeout"}] /\ HandleStepSuccess(t, t[2])
        /\ UNCHANGED <<hasWaitStore, def, cancelled, lost>>
    BY <1>2, <1>3, <1>6 DEF PollMet
  <2> QED BY <1>2, <2>1, SuccessKeeps
<1>7. CASE PollAgain(t, s)
  <2>1. /\ pending' = (pending \ {t}) \cup {<<"poll", t[2]>>}
        /\ UNCHANGED <<hasWaitStore, def, runStatus, stepStatus, current, openActions, waits, cancelled, attempts, lost>>
    BY <1>2, <1>7 DEF PollAgain, Then, stored
  <2>2. /\ "poll" \in (Blocking \cup Waiting) \ {"rejected"}
        /\ Stands(def, <<"poll", t[2]>>) /\ Retries(def, <<"poll", t[2]>>)
    BY <1>2 DEF Waiting, Stands, Retries
  <2>3. \A x \in Steps : attempts'[x] > 0 => x = t[2] /\ attempts'[x] < def.maxAttempts[x]
    BY <1>2, <2>1, Standing
  <2>4. /\ waits' \in [Steps -> {"none", "active", "satisfied", "timeout"}] /\ attempts' \in [Steps -> Nat]
        /\ openActions' \subseteq Steps
    BY <1>3, <2>1
  <2> QED BY <1>2, <2>1, <2>2, <2>3, <2>4, SameStepKeeps
<1> QED BY <1>4, <1>5, <1>6, <1>7

\* A pending item that is served.
LEMMA Serving ==
  ASSUME WorkflowInv, NEW s \in Steps, NEW k \in Waiting, NEW t, t = <<k, s>>, Serves(t)
  PROVE  /\ t \in pending /\ t[1] = k /\ t[2] = s /\ Stands(def, t) /\ def \in Drafts
         /\ waits \in [Steps -> {"none", "active", "satisfied", "timeout"}] /\ openActions \subseteq Steps
<1>1. t \in pending /\ t[1] = k /\ t[2] = s
  BY DEF Serves
<1> QED BY <1>1, Standing DEF WorkflowInv, TypeOK

\* The dispatch of a step settles.
LEMMA DispatchSettlesKeeps ==
  ASSUME WorkflowInv, NEW s \in Steps, NEW ok \in BOOLEAN, DispatchSettles(s, ok)
  PROVE  WorkflowInv'
<1> DEFINE t == <<"dispatch", s>>
<1>1. /\ Serves(t) /\ UNCHANGED <<hasWaitStore, def, waits, cancelled, lost>>
      /\ IF ok THEN HandleStepSuccess(t, s) ELSE HandleStepFailure(t, s, "dispatch")
  BY DEF DispatchSettles
<1>2. "dispatch" \in Waiting
  BY DEF Waiting
<1>3. t \in pending /\ t[1] = "dispatch" /\ t[2] = s /\ Stands(def, t) /\ waits \in [Steps -> {"none", "active", "satisfied", "timeout"}]
  BY <1>1, <1>2, Serving
<1> HIDE DEF t
<1>4. t[2] \in def.top /\ t[1] # "rejected" /\ waits' \in [Steps -> {"none", "active", "satisfied", "timeout"}]
  BY <1>1, <1>3 DEF Stands
<1>5. CASE ok
  <2>1. HandleStepSuccess(t, t[2])
    BY <1>1, <1>3, <1>5
  <2> QED BY <1>1, <1>3, <1>4, <2>1, SuccessKeeps
<1>6. CASE ~ok
  <2>1. HandleStepFailure(t, t[2], "dispatch")
    BY <1>1, <1>3, <1>6
  <2> QED BY <1>1, <1>3, <1>4, <2>1, FailureKeeps
<1> QED BY <1>5, <1>6

\* The place of a step in a branch.
LEMMA Placed ==
  ASSUME NEW s, InBranch(def, s), NEW place, place = PlaceOf(s)
  PROVE  /\ place.step \in def.top /\ def.kind[place.step] = "branch" /\ place.branch \in DOMAIN def.branches[place.step]
         /\ place.index \in DOMAIN def.branches[place.step][place.branch]
         /\ def.branches[place.step][place.branch][place.index] = s
<1> DEFINE In(x, b) == [step: {x}, branch: {b}, index: DOMAIN def.branches[x][b]]
           places(x) == UNION {In(x, b) : b \in DOMAIN def.branches[x]}
           Branches == {y \in def.top : def.kind[y] = "branch"}
           All == UNION {places(x) : x \in Branches}
           Fits(p) == def.branches[p.step][p.branch][p.index] = s
<1>0. PICK y \in def.top : /\ def.kind[y] = "branch"
                            /\ \E c \in DOMAIN def.branches[y] : \E j \in DOMAIN def.branches[y][c] : def.branches[y][c][j] = s
  BY DEF InBranch
<1>1. PICK b \in DOMAIN def.branches[y] : \E j \in DOMAIN def.branches[y][b] : def.branches[y][b][j] = s
  BY <1>0
<1>2. PICK i \in DOMAIN def.branches[y][b] : def.branches[y][b][i] = s
  BY <1>1
<1> DEFINE q == [step |-> y, branch |-> b, index |-> i]
<1>3. q \in In(y, b) /\ Fits(q)
  BY <1>2
<1>4. q \in All
  <2> HIDE DEF In, q
  <2>1. q \in places(y)
    BY <1>3
  <2>2. y \in Branches
    BY <1>0
  <2> QED BY <2>1, <2>2
<1>5. place = CHOOSE p \in All : Fits(p)
  BY DEF PlaceOf
<1>6. place \in All /\ Fits(place)
  <2> HIDE DEF All, Fits, q
  <2> QED BY <1>3, <1>4, <1>5
<1>7. \E x \in Branches : \E c \in DOMAIN def.branches[x] : place \in In(x, c)
  <2> HIDE DEF In, Branches
  <2> QED BY <1>6
<1> QED BY <1>6, <1>7

\* The dispatch of a step of a branch settles.
LEMMA InnerSettlesKeeps ==
  ASSUME WorkflowInv, NEW s \in Steps, NEW ok \in BOOLEAN, InnerSettles(s, ok)
  PROVE  WorkflowInv'
<1> DEFINE t == <<"inner", s>>
           place == PlaceOf(s)
           branch == def.branches[place.step][place.branch]
           n == branch[place.index + 1]
           u == <<"inner", n>>
<1>1. /\ Serves(t) /\ UNCHANGED <<hasWaitStore, def, waits, cancelled, attempts, lost>>
      /\ IF ok \/ def.policy[s] = "continue"
         THEN IF place.index < Len(branch)
              THEN /\ stepStatus' = [stepStatus EXCEPT ![s] = "completed", ![n] = "running"] /\ current' = {n}
                   /\ openActions' = openActions \cup {n} /\ pending' = (pending \ {t}) \cup {u} /\ UNCHANGED runStatus
              ELSE SetStep(s, "completed") /\ AdvanceToNextStep(t, place.step) /\ UNCHANGED openActions
         ELSE HandleOnFailureFail(t, s) /\ UNCHANGED openActions
  BY DEF InnerSettles, Dispatch, Then
<1>2. "inner" \in Waiting
  BY DEF Waiting
<1>3. /\ t \in pending /\ t[1] = "inner" /\ t[2] = s /\ Stands(def, t) /\ def \in Drafts
      /\ waits \in [Steps -> {"none", "active", "satisfied", "timeout"}] /\ openActions \subseteq Steps
  BY <1>1, <1>2, Serving
<1>4. InBranch(def, s) /\ ~Retries(def, t)
  BY <1>3 DEF Stands, Retries
<1>5. /\ place.step \in def.top /\ def.kind[place.step] = "branch" /\ place.branch \in DOMAIN def.branches[place.step]
      /\ place.index \in DOMAIN branch
  BY <1>4, Placed
<1> HIDE DEF t
<1>6. NoAttempts /\ attempts' \in [Steps -> Nat]
  BY <1>1, <1>3, <1>4, AttemptsAbsent
<1>7. Handles(t)
  BY <1>1, <1>3, <1>6 DEF Handles
<1>8. CASE (ok \/ def.policy[s] = "continue") /\ place.index < Len(branch)
  <2>1. /\ stepStatus' = [stepStatus EXCEPT ![s] = "completed", ![n] = "running"] /\ current' = {n}
        /\ openActions' = openActions \cup {n} /\ pending' = (pending \ {t}) \cup {u} /\ UNCHANGED runStatus
    BY <1>1, <1>8
  <2> HIDE DEF place
  <2>2. place.step \in Steps
    BY <1>3, <1>5, DraftFields
  <2>3. def.branches[place.step] \in Seq(Seq(Steps))
    BY <1>3, <2>2, DraftFields
  <2>4. branch \in Seq(Steps)
    BY <1>5, <2>3
  <2>5. place.index + 1 \in DOMAIN branch
    <3> HIDE DEF branch
    <3>1. DOMAIN branch = 1..Len(branch) /\ Len(branch) \in Nat
      BY <2>4, LenProperties
    <3> QED BY <1>5, <1>8, <3>1
  <2>6. n \in Steps
    <3> HIDE DEF branch
    <3> QED BY <2>4, <2>5
  <2>7. InBranch(def, n)
    BY <1>5, <2>5 DEF InBranch
  <2>8. u \in (Blocking \cup Waiting) \X Steps /\ Stands(def, u) /\ u[2] = n
    BY <2>6, <2>7 DEF Waiting, Stands
  <2> HIDE DEF n, u
  <2>9. /\ stepStatus' \in [Steps -> StepStatuses]
        /\ \A x \in Steps : stepStatus'[x] \in {"completed", "running", stepStatus[x]}
        /\ \A x \in Steps : stepStatus'[x] = "running" => x = n \/ (stepStatus[x] = "running" /\ x # s)
    <3>1. stepStatus \in [Steps -> StepStatuses] /\ {"completed", "running"} \subseteq StepStatuses
      BY DEF WorkflowInv, TypeOK, StepStatuses, Ended
    <3> QED BY <2>1, <2>6, <3>1
  <2>10. Rest /\ NoFailure
    BY <1>1, <1>3, <1>6, <2>1, <2>6, <2>9 DEF Rest, NoFailure, StepStatuses
  <2>11. \A x \in Steps : ~(attempts'[x] > 0)
    BY <1>6 DEF NoAttempts
  <2>12. GoesOn(t, u)
    BY <1>3, <2>1, <2>6, <2>8, <2>9, <2>10, <2>11 DEF GoesOn
  <2> QED BY <1>3, <2>12, GoesOnKeeps
<1>9. CASE (ok \/ def.policy[s] = "continue") /\ ~(place.index < Len(branch))
  <2>1. SetStep(t[2], "completed") /\ AdvanceToNextStep(t, place.step) /\ UNCHANGED openActions
    BY <1>1, <1>3, <1>9
  <2> HIDE DEF place
  <2> QED BY <1>3, <1>5, <1>7, <2>1, PassedKeeps
<1>10. CASE ~(ok \/ def.policy[s] = "continue")
  <2>1. HandleOnFailureFail(t, t[2]) /\ UNCHANGED openActions
    BY <1>1, <1>3, <1>10
  <2> QED BY <1>3, <1>7, <2>1, FailKeeps
<1> QED BY <1>8, <1>9, <1>10

\* A compensation settles.
LEMMA CompensationSettlesKeeps ==
  ASSUME WorkflowInv, NEW s \in Steps, NEW ok \in BOOLEAN, CompensationSettles(s, ok)
  PROVE  WorkflowInv'
<1> DEFINE t == <<"compensate", s>>
<1>1. /\ Serves(t) /\ UNCHANGED <<hasWaitStore, def, openActions, waits, cancelled, attempts, lost>>
      /\ IF ok THEN SetStep(s, "completed") /\ AdvanceToNextStep(t, s) ELSE HandleOnFailureFail(t, s)
  BY DEF CompensationSettles
<1>2. "compensate" \in Waiting
  BY DEF Waiting
<1>3. /\ t \in pending /\ t[1] = "compensate" /\ t[2] = s /\ Stands(def, t)
      /\ waits \in [Steps -> {"none", "active", "satisfied", "timeout"}]
  BY <1>1, <1>2, Serving
<1>4. s \in def.top /\ ~Retries(def, t)
  BY <1>3 DEF Stands, Retries
<1> HIDE DEF t
<1>5. Handles(t)
  BY <1>1, <1>3, <1>4, AttemptsAbsent DEF Handles
<1>6. CASE ok
  <2>1. SetStep(t[2], "completed") /\ AdvanceToNextStep(t, s)
    BY <1>1, <1>3, <1>6
  <2> QED BY <1>1, <1>3, <1>4, <1>5, <2>1, PassedKeeps
<1>7. CASE ~ok
  <2>1. HandleOnFailureFail(t, t[2])
    BY <1>1, <1>3, <1>7
  <2> QED BY <1>1, <1>3, <1>5, <2>1, FailKeeps
<1> QED BY <1>6, <1>7

\* A retry timer fires.
LEMMA RetryTimerKeeps ==
  ASSUME WorkflowInv, NEW s \in Steps, RetryTimerFires(s)
  PROVE  WorkflowInv'
<1> DEFINE t == <<"retry", s>>
<1>1. /\ Serves(t) /\ pending' = (pending \ {t}) \cup {<<"execute", s>>}
      /\ UNCHANGED <<hasWaitStore, def, runStatus, stepStatus, current, openActions, waits, cancelled, attempts, lost>>
  BY DEF RetryTimerFires, Then, stored
<1>2. "retry" \in Waiting
  BY DEF Waiting
<1>3. /\ t \in pending /\ t[1] = "retry" /\ t[2] = s /\ Stands(def, t) /\ openActions \subseteq Steps
      /\ waits \in [Steps -> {"none", "active", "satisfied", "timeout"}]
  BY <1>1, <1>2, Serving
<1> HIDE DEF t
<1>4. /\ "execute" \in (Blocking \cup Waiting) \ {"rejected"}
      /\ Stands(def, <<"execute", t[2]>>) /\ Retries(def, <<"execute", t[2]>>)
  BY <1>3 DEF Blocking, Stands, Retries
<1>5. \A x \in Steps : attempts'[x] > 0 => x = t[2] /\ attempts'[x] < def.maxAttempts[x]
  BY <1>1, <1>3, Standing
<1>6. attempts' \in [Steps -> Nat] /\ pending' = (pending \ {t}) \cup {<<"execute", t[2]>>} /\ t[1] # "rejected"
  BY <1>1, <1>3 DEF WorkflowInv, TypeOK
<1> QED BY <1>1, <1>3, <1>4, <1>5, <1>6, SameStepKeeps

-----------------------------------------------------------------------------
(* The run as a whole *)

\* A run is started.
LEMMA StartKeeps ==
  ASSUME WorkflowInv, NEW d \in Drafts, Start(d)
  PROVE  WorkflowInv'
<1> DEFINE u == <<"execute", d.first>>
<1>1. /\ def = None /\ Publishable(d) /\ def' = d /\ runStatus' = "running" /\ current' = {d.first} /\ pending' = {u}
      /\ stepStatus' = [s \in Steps |-> IF s \in d.top \cup Nested(d) THEN "queued" ELSE "none"]
      /\ UNCHANGED <<hasWaitStore, openActions, waits, cancelled, attempts, lost>>
  BY DEF Start
<1>2. d # None /\ d.first \in d.top /\ d.first \in Steps
  BY DraftFields
<1>3. pending = {} /\ ~lost /\ runStatus = "none"
  BY <1>1 DEF WorkflowInv, Thread
<1>4. u \in (Blocking \cup Waiting) \X Steps /\ Stands(d, u) /\ u[2] = d.first
  BY <1>2 DEF Blocking, Stands
<1> HIDE DEF u
<1>5. TypeOK'
  BY <1>1, <1>2, <1>4 DEF WorkflowInv, TypeOK
<1>6. Thread'
  BY <1>1, <1>2, <1>3, <1>4 DEF Thread
<1>7. PendingIsCurrent' /\ RunningIsDriven'
  BY <1>1, <1>4 DEF PendingIsCurrent, RunningIsDriven
<1>8. Attempted'
  BY <1>1, <1>3 DEF WorkflowInv, Attempted
<1>9. Outcome'
  BY <1>1 DEF Outcome
<1> QED BY <1>5, <1>6, <1>7, <1>8, <1>9 DEF WorkflowInv

\* A run is cancelled: its thread stays where it is.
LEMMA CancelKeeps ==
  ASSUME WorkflowInv, CancelWorkflowRun
  PROVE  WorkflowInv'
<1>1. /\ runStatus = "running" /\ runStatus' = "cancelled" /\ cancelled' = TRUE /\ openActions' = {}
      /\ stepStatus' = CancelledSteps /\ UNCHANGED <<hasWaitStore, def, current, waits, attempts, pending, lost>>
  BY DEF CancelWorkflowRun
<1>2. stepStatus' \in [Steps -> StepStatuses]
  BY <1>1 DEF CancelledSteps, StepStatuses, Ended, WorkflowInv, TypeOK
<1>3. TypeOK'
  BY <1>1, <1>2 DEF WorkflowInv, TypeOK, StepStatuses, Ended
<1>4. Thread'
  BY <1>1 DEF WorkflowInv, Thread
<1>5. PendingIsCurrent' /\ RunningIsDriven' /\ Attempted' /\ Outcome'
  BY <1>1 DEF WorkflowInv, PendingIsCurrent, RunningIsDriven, Attempted, Outcome
<1> QED BY <1>3, <1>4, <1>5 DEF WorkflowInv

\* The process ends.
LEMMA ProcessEndsKeeps ==
  ASSUME WorkflowInv, Restart \/ UnhandledRejection
  PROVE  WorkflowInv'
<1>1. /\ lost' = TRUE /\ pending' = {} /\ attempts' = [s \in Steps |-> 0]
      /\ UNCHANGED <<hasWaitStore, def, runStatus, stepStatus, current, openActions, waits, cancelled>>
  BY DEF Restart, UnhandledRejection, ProcessEnds, stored
<1>2. def # None
  BY DEF Restart, UnhandledRejection, ProcessEnds, WorkflowInv, Thread
<1>3. TypeOK'
  BY <1>1 DEF WorkflowInv, TypeOK
<1>4. Thread'
  BY <1>1, <1>2 DEF WorkflowInv, Thread
<1>5. PendingIsCurrent' /\ RunningIsDriven' /\ Attempted'
  BY <1>1 DEF PendingIsCurrent, RunningIsDriven, Attempted
<1>6. Outcome'
  BY <1>1 DEF WorkflowInv, Outcome
<1> QED BY <1>3, <1>4, <1>5, <1>6 DEF WorkflowInv

\* Before the start.
LEMMA WorkflowInitially ==
  ASSUME Init
  PROVE  WorkflowInv
<1>1. TypeOK
  BY DEF Init, TypeOK
<1>2. Thread /\ PendingIsCurrent /\ RunningIsDriven /\ Attempted /\ Outcome
  BY DEF Init, Thread, PendingIsCurrent, RunningIsDriven, Attempted, Outcome
<1> QED BY <1>1, <1>2 DEF WorkflowInv

\* One case for each action.
LEMMA WorkflowStep ==
  ASSUME WorkflowInv, [Next]_vars
  PROVE  WorkflowInv'
<1>1. CASE UNCHANGED vars
  BY <1>1 DEF vars, WorkflowInv, TypeOK, Thread, PendingIsCurrent, RunningIsDriven, Attempted, Outcome, At
<1>2. ASSUME NEW d \in Drafts, Start(d) PROVE WorkflowInv'
  BY <1>2, StartKeeps
<1>3. ASSUME NEW s \in Steps, Chain(s) PROVE WorkflowInv'
  BY <1>3, ExecuteActionKeeps, ExecuteConditionKeeps, ExecuteConditionErrorKeeps, ExecuteBranchKeeps,
     ExecuteParallelKeeps, ExecutePollingKeeps DEF Chain
<1>4. ASSUME NEW s \in Steps, Polls(s) PROVE WorkflowInv'
  BY <1>4, PollsKeep DEF Polls
<1>5. ASSUME NEW s \in Steps, Settles(s) PROVE WorkflowInv'
  BY <1>5, DispatchSettlesKeeps, InnerSettlesKeeps, CompensationSettlesKeeps DEF Settles
<1>6. ASSUME NEW s \in Steps, RetryTimerFires(s) PROVE WorkflowInv'
  BY <1>6, RetryTimerKeeps
<1>7. CASE CancelWorkflowRun
  BY <1>7, CancelKeeps
<1>8. CASE UnhandledRejection \/ Restart
  BY <1>8, ProcessEndsKeeps
<1> QED BY <1>1, <1>2, <1>3, <1>4, <1>5, <1>6, <1>7, <1>8 DEF Next

\* The inductive invariant holds in every reachable state.
LEMMA WorkflowInvariance == Spec => []WorkflowInv
BY WorkflowInitially, WorkflowStep, PTL DEF Spec

-----------------------------------------------------------------------------
(* What lies ahead of the thread *)

\* y with everything nested in it; the steps of a branch from place i on.
Under(d, y) == {y} \cup NestedIn(d, y)
RestOf(d, y, b, i) == {d.branches[y][b][j] : j \in {k \in DOMAIN d.branches[y][b] : k >= i}}

Unended(S) == \A x \in S : stepStatus[x] \notin Ended

\* Nothing that lies ahead of y has ended.
Clear(y) == \A z \in Ahead(def, y) : Unended(Under(def, z))

\* What the thread t is at has not ended either: a step of the top level with all
\* that is nested in it, or the rest of a branch.
OuterAt(t) ==
  /\ Unended(Under(def, t[2])) /\ Clear(t[2])
  /\ t[1] # "execute" => def.kind[t[2]] # "condition"
InnerAt(t) ==
  \E y \in def.top : \E b \in DOMAIN def.branches[y] : \E i \in DOMAIN def.branches[y][b] :
    /\ def.kind[y] = "branch" /\ def.branches[y][b][i] = t[2]
    /\ Unended(RestOf(def, y, b, i)) /\ Clear(y)

Orderly == \A t \in pending : IF t[1] = "inner" THEN InnerAt(t) ELSE OuterAt(t)

Tame == def # None /\ ~cancelled /\ Loopless(def)

Ordered == Tame => Orderly

EndedStay == \A s \in Steps : stepStatus[s] \in Ended => stepStatus'[s] = stepStatus[s]

\* What lies ahead of the next step lies ahead of this one.
LEMMA AheadOfNext ==
  ASSUME NEW d, NEW s, NEW n \in Successors(d, s)
  PROVE  n \in d.top /\ n \in Ahead(d, s) /\ Ahead(d, n) \subseteq Ahead(d, s)
<1>1. n \in d.top
  BY DEF Successors
<1>2. n \in Ahead(d, s)
  BY <1>1 DEF Ahead
<1>3. ASSUME NEW y \in Ahead(d, n) PROVE y \in Ahead(d, s)
  <2>1. y \in d.top
    BY DEF Ahead
  <2>2. ASSUME NEW C \in SUBSET d.top, Successors(d, s) \subseteq C, \A x \in C : Successors(d, x) \subseteq C
        PROVE  y \in C
    <3>1. n \in C
      BY <2>2
    <3>2. Successors(d, n) \subseteq C
      BY <2>2, <3>1
    <3> QED BY <2>2, <3>2 DEF Ahead
  <2> QED BY <2>1, <2>2 DEF Ahead
<1> QED BY <1>1, <1>2, <1>3

\* What is nested in two steps is apart.
LEMMA UnderApart ==
  ASSUME NEW d \in Drafts, NEW y \in d.top
  PROVE  /\ Under(d, y) \subseteq Steps /\ y \in Under(d, y)
         /\ \A z \in d.top : z # y => Under(d, y) \cap Under(d, z) = {}
<1>1. d \in DraftType /\ IdsAreUnique(d) /\ d.top \subseteq Steps /\ y \in Steps
  BY DraftsAssumption DEF DraftType
<1>2. d.kids[y] \subseteq Steps /\ d.branches[y] \in Seq(Seq(Steps))
  BY <1>1, DraftFields
<1>3. InnerOf(d, y) \subseteq Steps
  BY <1>2 DEF InnerOf, StepsOf
<1>4. NestedIn(d, y) \subseteq Steps
  BY <1>2, <1>3 DEF NestedIn
<1>5. ASSUME NEW z \in d.top PROVE NestedIn(d, z) \cap d.top = {}
  <2>1. NestedIn(d, z) \subseteq Nested(d)
    BY DEF Nested
  <2> QED BY <1>1, <2>1 DEF IdsAreUnique
<1>6. ASSUME NEW z \in d.top, z # y PROVE Under(d, y) \cap Under(d, z) = {}
  <2>1. NestedIn(d, y) \cap NestedIn(d, z) = {}
    BY <1>1, <1>6 DEF IdsAreUnique
  <2>2. NestedIn(d, y) \cap d.top = {} /\ NestedIn(d, z) \cap d.top = {}
    BY <1>5
  <2> QED BY <1>6, <2>1, <2>2 DEF Under
<1> QED BY <1>1, <1>4, <1>6 DEF Under

\* A step of a branch has one place, and the rest of the branch and what is skipped
\* for it are under the step of the branch.
LEMMA RestUnder ==
  ASSUME def \in Drafts, NEW y \in def.top, def.kind[y] = "branch", NEW b \in DOMAIN def.branches[y]
  PROVE  /\ def.branches[y][b] \in Seq(Steps) /\ y \in Steps
         /\ \A i \in DOMAIN def.branches[y][b] : /\ def.branches[y][b][i] \in Under(def, y)
                                                 /\ def.branches[y][b][i] \notin Skipped(y, b) \cup {y}
         /\ Skipped(y, b) \subseteq Under(def, y)
<1>1. def.branches[y] \in Seq(Seq(Steps)) /\ y \in Steps /\ IdsAreUnique(def)
  BY DraftFields, DraftsAssumption
<1>2. NestedIn(def, y) = InnerOf(def, y) /\ NestedIn(def, y) \cap def.top = {}
  BY <1>1 DEF NestedIn, IdsAreUnique, Nested
<1>3. ASSUME NEW i \in DOMAIN def.branches[y][b]
      PROVE  def.branches[y][b][i] \in InnerOf(def, y) /\ def.branches[y][b][i] \notin Skipped(y, b)
  <2>1. def.branches[y][b][i] \in InnerOf(def, y)
    BY DEF InnerOf, StepsOf
  <2>2. ASSUME NEW c \in DOMAIN def.branches[y] \ {b}, NEW j \in DOMAIN def.branches[y][c]
        PROVE  def.branches[y][c][j] # def.branches[y][b][i]
    BY <1>1 DEF IdsAreUnique
  <2> QED BY <2>1, <2>2 DEF Skipped, StepsOf
<1>4. Skipped(y, b) \subseteq InnerOf(def, y)
  BY DEF Skipped, InnerOf
<1> QED BY <1>1, <1>2, <1>3, <1>4 DEF Under

\* Only rows under h are written.
Outside(h) == \A x \in Steps \ Under(def, h) : stepStatus'[x] = stepStatus[x]

\* Then what lies ahead of h stays clear, and so does the step that follows.
LEMMA ClearStays ==
  ASSUME def \in Drafts, Loopless(def), def' = def, NEW h \in def.top, Clear(h), Outside(h)
  PROVE  /\ Clear(h)'
         /\ \A n \in Successors(def, h) : n \in def.top /\ Unended(Under(def, n))' /\ Clear(n)'
<1>1. ASSUME NEW z \in Ahead(def, h) PROVE Unended(Under(def, z))'
  <2>1. z \in def.top /\ z # h
    BY DEF Loopless, Ahead
  <2>2. Under(def, z) \subseteq Steps /\ Under(def, z) \cap Under(def, h) = {}
    BY <2>1, UnderApart
  <2>3. Unended(Under(def, z))
    BY DEF Clear
  <2> QED BY <2>2, <2>3 DEF Unended, Outside
<1>2. Clear(h)'
  BY <1>1 DEF Clear
<1>3. ASSUME NEW n \in Successors(def, h) PROVE n \in def.top /\ Unended(Under(def, n))' /\ Clear(n)'
  <2>1. n \in def.top /\ n \in Ahead(def, h) /\ Ahead(def, n) \subseteq Ahead(def, h)
    BY AheadOfNext
  <2> QED BY <1>1, <2>1 DEF Clear
<1> QED BY <1>2, <1>3

\* The thread leaves h: the run ends, is stranded, or goes on at a successor.
LEMMA LeavingIsOrderly ==
  ASSUME def \in Drafts, Loopless(def), def' = def, NEW h \in def.top, Clear(h), Outside(h),
         pending' = {} \/ \E n \in Successors(def, h) : pending' = {<<"execute", n>>}
  PROVE  Orderly'
<1>1. CASE pending' = {}
  BY <1>1 DEF Orderly
<1>2. ASSUME NEW n \in Successors(def, h), pending' = {<<"execute", n>>} PROVE Orderly'
  <2>1. Unended(Under(def, n))' /\ Clear(n)'
    BY ClearStays
  <2> QED BY <1>2, <2>1 DEF Orderly, OuterAt
<1> QED BY <1>1, <1>2

\* What has not ended may be written.
LEMMA WritesEndOnce ==
  ASSUME NEW S, Unended(S), \A x \in Steps \ S : stepStatus'[x] = stepStatus[x]
  PROVE  EndedStay
BY DEF EndedStay, Unended

\* The thread at a step of the top level.
LEMMA OuterThread ==
  ASSUME WorkflowInv, Tame, Orderly, NEW t \in pending, t[1] # "inner"
  PROVE  /\ pending \ {t} = {} /\ t[2] \in def.top /\ t[2] \in Steps /\ def \in Drafts /\ Loopless(def)
         /\ Unended(Under(def, t[2])) /\ Clear(t[2]) /\ Publishable(def)
         /\ t[1] # "execute" => def.kind[t[2]] # "condition"
<1>1. /\ pending \ {t} = {} /\ t[2] \in Steps /\ def \in Drafts /\ Publishable(def) /\ Stands(def, t)
  BY Standing
<1>2. OuterAt(t)
  BY DEF Orderly
<1> QED BY <1>1, <1>2 DEF Stands, OuterAt, Tame

\* It leaves its step with rows written under it.
LEMMA OuterLeaves ==
  ASSUME WorkflowInv, Tame, Orderly, NEW t \in pending, t[1] # "inner", def' = def, Outside(t[2]),
         pending' = {} \/ \E n \in Successors(def, t[2]) : pending' = {<<"execute", n>>}
  PROVE  Orderly' /\ EndedStay
<1>1. t[2] \in def.top /\ def \in Drafts /\ Loopless(def) /\ Unended(Under(def, t[2])) /\ Clear(t[2])
  BY OuterThread
<1>2. Orderly'
  <2> DEFINE h == t[2]
  <2>1. /\ h \in def.top /\ Clear(h) /\ Outside(h)
        /\ pending' = {} \/ \E n \in Successors(def, h) : pending' = {<<"execute", n>>}
    BY <1>1
  <2> HIDE DEF h
  <2> QED BY <1>1, <2>1, LeavingIsOrderly
<1>3. EndedStay
  BY <1>1, WritesEndOnce DEF Outside
<1> QED BY <1>2, <1>3

\* It stays at its step, whose row is open.
LEMMA OuterStays ==
  ASSUME WorkflowInv, Tame, Orderly, NEW t \in pending, t[1] # "inner", def' = def,
         NEW k, k # "inner", k # "execute" => def.kind[t[2]] # "condition",
         pending' = (pending \ {t}) \cup {<<k, t[2]>>},
         stepStatus' = stepStatus \/ \E v \in {"queued", "running"} : SetStep(t[2], v)
  PROVE  Orderly' /\ EndedStay
<1> DEFINE h == t[2]
<1>1. /\ pending \ {t} = {} /\ h \in def.top /\ h \in Steps /\ def \in Drafts /\ Loopless(def)
      /\ Unended(Under(def, h)) /\ Clear(h)
  BY OuterThread
<1>2. h \in Under(def, h) /\ Under(def, h) \subseteq Steps
  BY <1>1, UnderApart
<1>3. /\ \A x \in Steps : x # h => stepStatus'[x] = stepStatus[x]
      /\ stepStatus'[h] \notin Ended
  <2>1. CASE stepStatus' = stepStatus
    BY <1>1, <1>2, <2>1 DEF Unended
  <2>2. ASSUME NEW v \in {"queued", "running"}, SetStep(h, v)
        PROVE  (\A x \in Steps : x # h => stepStatus'[x] = stepStatus[x]) /\ stepStatus'[h] \notin Ended
    <3>1. v \in StepStatuses /\ v \notin Ended
      BY DEF StepStatuses, Ended
    <3> QED BY <1>1, <2>2, <3>1, StepSet
  <2> QED BY <2>1, <2>2
<1>4. pending' = {<<k, h>>} /\ (k # "execute" => def.kind[h] # "condition")
  BY <1>1
<1> HIDE DEF h
<1>5. Outside(h)
  BY <1>2, <1>3 DEF Outside
<1>6. Clear(h)'
  BY <1>1, <1>5, ClearStays
<1>7. Unended(Under(def, h))'
  BY <1>1, <1>2, <1>3 DEF Unended
<1>8. Orderly'
  BY <1>4, <1>6, <1>7 DEF Orderly, OuterAt
<1>9. EndedStay
  BY <1>1, <1>5, WritesEndOnce DEF Outside
<1> QED BY <1>8, <1>9

\* advanceToNextStep after s ends the run or goes on at a successor of s.
LEMMA Advances ==
  ASSUME Publishable(def), NEW s \in def.top, def.kind[s] # "condition", NEW t, pending \ {t} = {}, AdvanceToNextStep(t, s)
  PROVE  pending' = {} \/ \E n \in Successors(def, s) : pending' = {<<"execute", n>>}
<1>1. def.next[s] \in def.top \cup {None}
  BY DEF Publishable, IsLinear
<1>2. CASE def.next[s] = None
  BY <1>2 DEF AdvanceToNextStep, EndRun, Done
<1>3. CASE def.next[s] # None
  <2>1. def.next[s] \in Successors(def, s)
    BY <1>1, <1>3 DEF Successors
  <2>2. pending' = {<<"execute", def.next[s]>>}
    BY <1>3 DEF AdvanceToNextStep, RunStep, Then
  <2> QED BY <2>1, <2>2
<1> QED BY <1>2, <1>3

\* One row is written.
LEMMA OneRow ==
  ASSUME WorkflowInv, def \in Drafts, NEW s \in def.top, NEW v \in StepStatuses, SetStep(s, v)
  PROVE  Outside(s)
<1>1. s \in Steps /\ s \in Under(def, s)
  BY DraftFields, UnderApart
<1>2. \A x \in Steps : x # s => stepStatus'[x] = stepStatus[x]
  BY <1>1, StepSet
<1> QED BY <1>1, <1>2 DEF Outside

\* The step of the thread ends and the run goes on after it.
LEMMA PassedInOrder ==
  ASSUME WorkflowInv, Tame, Orderly, NEW t \in pending, t[1] # "inner", def' = def, def.kind[t[2]] # "condition",
         NEW v \in StepStatuses, SetStep(t[2], v), AdvanceToNextStep(t, t[2])
  PROVE  Orderly' /\ EndedStay
<1>1. pending \ {t} = {} /\ t[2] \in def.top /\ def \in Drafts /\ Publishable(def)
  BY OuterThread
<1>2. Outside(t[2])
  BY <1>1, OneRow
<1>3. pending' = {} \/ \E n \in Successors(def, t[2]) : pending' = {<<"execute", n>>}
  BY <1>1, Advances
<1> QED BY <1>2, <1>3, OuterLeaves

\* The step of the thread fails and the run with it.
LEMMA FailedInOrder ==
  ASSUME WorkflowInv, Tame, Orderly, NEW t \in pending, t[1] # "inner", def' = def, HandleOnFailureFail(t, t[2])
  PROVE  Orderly' /\ EndedStay
<1>1. pending \ {t} = {} /\ t[2] \in def.top /\ def \in Drafts
  BY OuterThread
<1>2. "failed" \in StepStatuses /\ SetStep(t[2], "failed") /\ pending' = {}
  BY <1>1 DEF HandleOnFailureFail, StepStatuses, Ended, EndRun, Done
<1>3. Outside(t[2])
  BY <1>1, <1>2, OneRow
<1> QED BY <1>2, <1>3, OuterLeaves

\* applyOnFailurePolicy.
LEMMA PolicyInOrder ==
  ASSUME WorkflowInv, Tame, Orderly, NEW t \in pending, t[1] # "inner", def' = def, def.kind[t[2]] # "condition",
         ApplyOnFailurePolicy(t, t[2])
  PROVE  Orderly' /\ EndedStay
<1> DEFINE s == t[2]
<1>0. "completed" \in StepStatuses /\ "cancelled" \in StepStatuses
  BY DEF StepStatuses, Ended
<1>1. CASE SetStep(s, "completed") /\ AdvanceToNextStep(t, s)
  BY <1>0, <1>1, PassedInOrder
<1>2. CASE SetStep(s, "cancelled") /\ AdvanceToNextStep(t, s)
  BY <1>0, <1>2, PassedInOrder
<1>3. CASE HandleOnFailureFail(t, s)
  BY <1>3, FailedInOrder
<1>4. CASE Then(t, <<"compensate", s>>) /\ UNCHANGED stepStatus
  <2>1. pending' = (pending \ {t}) \cup {<<"compensate", s>>} /\ "compensate" # "inner"
    BY <1>4 DEF Then
  <2> QED BY <1>4, <2>1, OuterStays
<1> QED BY <1>1, <1>2, <1>3, <1>4 DEF ApplyOnFailurePolicy

\* handleStepCompletion.
LEMMA CompletionInOrder ==
  ASSUME WorkflowInv, Tame, Orderly, NEW t \in pending, t[1] # "inner", def' = def, def.kind[t[2]] # "condition",
         NEW cause, HandleStepSuccess(t, t[2]) \/ HandleStepFailure(t, t[2], cause)
  PROVE  Orderly' /\ EndedStay
<1> DEFINE s == t[2]
<1>1. CASE HandleStepSuccess(t, s)
  <2>1. SetStep(s, "completed") /\ AdvanceToNextStep(t, s) /\ "completed" \in StepStatuses
    BY <1>1 DEF HandleStepSuccess, StepStatuses, Ended
  <2> QED BY <2>1, PassedInOrder
<1>2. CASE HandleStepFailure(t, s, cause) /\ ShouldRetryStepV2(s, cause, attempts[s] + 1)
  <2>1. SetStep(s, "queued") /\ pending' = (pending \ {t}) \cup {<<"retry", s>>} /\ "retry" # "inner"
    BY <1>2 DEF HandleStepFailure, Then
  <2> QED BY <2>1, OuterStays
<1>3. CASE HandleStepFailure(t, s, cause) /\ ~ShouldRetryStepV2(s, cause, attempts[s] + 1)
  <2>1. ApplyOnFailurePolicy(t, s)
    BY <1>3 DEF HandleStepFailure
  <2> QED BY <2>1, PolicyInOrder
<1> QED BY <1>1, <1>2, <1>3

\* The steps that are dispatched, polled or run in parallel when they are executed.
LEMMA ExecuteInOrder ==
  ASSUME WorkflowInv, Tame, Orderly, NEW s \in Steps, ExecuteAction(s) \/ ExecuteParallelGroup(s) \/ ExecutePollingWait(s)
  PROVE  Orderly' /\ EndedStay
<1> DEFINE t == <<"execute", s>>
<1>1. /\ Executes(s, "action") \/ Executes(s, "parallel") \/ Executes(s, "polling")
      /\ def' = def
  BY DEF ExecuteAction, ExecuteParallelGroup, ExecutePollingWait
<1>2. t \in pending /\ t[1] = "execute" /\ t[2] = s /\ def.kind[s] # "condition"
  BY <1>1, Executing
<1>3. \/ SetStep(s, "running") /\ pending' = (pending \ {t}) \cup {<<"dispatch", s>>}
      \/ SetStep(s, "running") /\ pending' = (pending \ {t}) \cup {<<"rejected", s>>}
      \/ SetStep(s, "running") /\ pending' = (pending \ {t}) \cup {<<"evaluate", s>>}
      \/ HandleStepFailure(t, s, "unconfigured")
  BY DEF ExecuteAction, ExecuteParallelGroup, ExecutePollingWait, Dispatch, Then
<1> HIDE DEF t
<1>4. ASSUME NEW k \in {"dispatch", "rejected", "evaluate"}, SetStep(s, "running"), pending' = (pending \ {t}) \cup {<<k, s>>}
      PROVE  Orderly' /\ EndedStay
  BY <1>1, <1>2, <1>4, OuterStays
<1>5. CASE HandleStepFailure(t, s, "unconfigured")
  BY <1>1, <1>2, <1>5, CompletionInOrder
<1> QED BY <1>3, <1>4, <1>5

\* A condition leads to one of its targets, if that is a step.
LEMMA ConditionInOrder ==
  ASSUME WorkflowInv, Tame, Orderly, NEW s \in Steps,
         ExecuteConditionError(s) \/ \E met \in BOOLEAN : ExecuteCondition(s, met)
  PROVE  Orderly' /\ EndedStay
<1> DEFINE t == <<"execute", s>>
<1>1. Executes(s, "condition") /\ def' = def
  BY DEF ExecuteCondition, ExecuteConditionError
<1>2. t \in pending /\ t[1] = "execute" /\ t[2] = s /\ def.kind[s] = "condition"
  BY <1>1, Executing
<1>3. \/ HandleOnFailureFail(t, s)
      \/ /\ SetStep(s, "completed")
         /\ \/ pending' = pending \ {t}
            \/ \E n \in {def.onTrue[s], def.onFalse[s]} \cap def.top : pending' = (pending \ {t}) \cup {<<"execute", n>>}
  <2>1. ASSUME ExecuteConditionError(s), def.policy[s] = "continue"
        PROVE  /\ SetStep(s, "completed")
               /\ \/ pending' = pending \ {t}
                  \/ def.onFalse[s] \in def.top /\ pending' = (pending \ {t}) \cup {<<"execute", def.onFalse[s]>>}
    BY <2>1 DEF ExecuteConditionError, GoTo, RunStep, Done, Then
  <2>2. ASSUME ExecuteConditionError(s), def.policy[s] # "continue" PROVE HandleOnFailureFail(t, s)
    BY <2>2 DEF ExecuteConditionError
  <2>3. ASSUME NEW met \in BOOLEAN, ExecuteCondition(s, met)
        PROVE  /\ SetStep(s, "completed")
               /\ \/ pending' = pending \ {t}
                  \/ \E n \in {def.onTrue[s], def.onFalse[s]} \cap def.top : pending' = (pending \ {t}) \cup {<<"execute", n>>}
    <3> DEFINE target == IF met THEN def.onTrue[s] ELSE def.onFalse[s]
    <3>1. SetStep(s, "completed") /\ GoTo(s, target, EndRun(t, "completed"))
      BY <2>3 DEF ExecuteCondition
    <3>2. target \in {def.onTrue[s], def.onFalse[s]}
      OBVIOUS
    <3> HIDE DEF target
    <3> QED BY <3>1, <3>2 DEF GoTo, RunStep, Done, Then, EndRun
  <2> QED BY <2>1, <2>2, <2>3
<1> HIDE DEF t
<1>4. CASE HandleOnFailureFail(t, s)
  BY <1>1, <1>2, <1>4, FailedInOrder
<1>5. CASE /\ SetStep(s, "completed")
           /\ \/ pending' = pending \ {t}
              \/ \E n \in {def.onTrue[s], def.onFalse[s]} \cap def.top : pending' = (pending \ {t}) \cup {<<"execute", n>>}
  <2>1. pending \ {t} = {} /\ s \in def.top /\ def \in Drafts
    BY <1>2, OuterThread
  <2>2. Successors(def, s) = {def.onTrue[s], def.onFalse[s]} \cap def.top
    BY <1>2 DEF Successors
  <2>3. pending' = {} \/ \E n \in Successors(def, s) : pending' = {<<"execute", n>>}
    BY <1>5, <2>1, <2>2
  <2>4. "completed" \in StepStatuses
    BY DEF StepStatuses, Ended
  <2>5. Outside(s)
    BY <1>5, <2>1, <2>4, OneRow
  <2> QED BY <1>1, <1>2, <2>3, <2>5, OuterLeaves
<1> QED BY <1>3, <1>4, <1>5

\* A branch is selected: the thread enters it, or passes an empty one.
LEMMA BranchInOrder ==
  ASSUME WorkflowInv, Tame, Orderly, NEW s \in Steps, NEW b \in DOMAIN def.branches[s], ExecuteBranch(s, b)
  PROVE  Orderly' /\ EndedStay
<1> DEFINE t == <<"execute", s>>
           branch == def.branches[s][b]
           chosen == [stepStatus EXCEPT ![s] = "completed"]
           skipped == [x \in Steps |-> IF x \in Skipped(s, b) THEN "cancelled" ELSE chosen[x]]
<1>1. /\ Executes(s, "branch") /\ def' = def
      /\ IF branch = <<>>
         THEN stepStatus' = skipped /\ AdvanceToNextStep(t, s)
         ELSE /\ stepStatus' = [skipped EXCEPT ![branch[1]] = "running"]
              /\ pending' = (pending \ {t}) \cup {<<"inner", branch[1]>>}
  BY DEF ExecuteBranch, Dispatch, Then
<1>2. t \in pending /\ t[1] = "execute" /\ t[2] = s /\ def.kind[s] = "branch"
  BY <1>1, Executing
<1>3. /\ pending \ {t} = {} /\ s \in def.top /\ def \in Drafts /\ Loopless(def)
      /\ Unended(Under(def, s)) /\ Clear(s) /\ Publishable(def)
  BY <1>2, OuterThread
<1>4. /\ branch \in Seq(Steps)
      /\ \A i \in DOMAIN branch : branch[i] \in Under(def, s) /\ branch[i] \notin Skipped(s, b) \cup {s}
      /\ Skipped(s, b) \subseteq Under(def, s)
  BY <1>2, <1>3, RestUnder
<1>5. s \in Under(def, s)
  BY <1>3, UnderApart
<1>6. \A x \in Steps : x \notin Skipped(s, b) /\ x # s => skipped[x] = stepStatus[x]
  BY DEF WorkflowInv, TypeOK
<1>7. DOMAIN skipped = Steps
  OBVIOUS
<1> HIDE DEF t, skipped
<1>8. CASE branch = <<>>
  <2>1. Outside(s)
    BY <1>1, <1>4, <1>5, <1>6, <1>8 DEF Outside
  <2>2. pending' = {} \/ \E n \in Successors(def, s) : pending' = {<<"execute", n>>}
    BY <1>1, <1>2, <1>3, <1>8, Advances
  <2> QED BY <1>1, <1>2, <2>1, <2>2, OuterLeaves
<1>9. CASE branch # <<>>
  <2> DEFINE n == branch[1]
  <2>0. PICK u : u = <<"inner", n>>
    OBVIOUS
  <2>1. 1 \in DOMAIN branch /\ n \in Steps
    BY <1>4, <1>9
  <2>2. n \in Under(def, s)
    BY <1>4, <2>1
  <2>3. stepStatus' = [skipped EXCEPT ![n] = "running"] /\ pending' = {u}
    BY <1>1, <1>3, <1>9, <2>0
  <2>4. u[1] = "inner" /\ u[2] = n
    BY <2>0
  <2>5. \A x \in Steps : stepStatus'[x] = IF x = n THEN "running" ELSE skipped[x]
    BY <1>7, <2>1, <2>3
  <2>6. Outside(s)
    BY <1>4, <1>5, <1>6, <2>2, <2>5 DEF Outside
  <2>7. Clear(s)'
    BY <1>1, <1>3, <2>6, ClearStays
  <2>8. ASSUME NEW i \in DOMAIN branch PROVE stepStatus'[branch[i]] \notin Ended
    <3>1. branch[i] \in Steps /\ branch[i] \in Under(def, s) /\ branch[i] \notin Skipped(s, b) \cup {s}
      BY <1>4
    <3>2. stepStatus[branch[i]] \notin Ended
      BY <1>3, <3>1 DEF Unended
    <3>3. stepStatus'[branch[i]] \in {"running", stepStatus[branch[i]]}
      BY <1>6, <2>5, <3>1
    <3> QED BY <3>2, <3>3 DEF Ended
  <2>9. Unended(RestOf(def, s, b, 1))'
    BY <1>1, <2>8 DEF Unended, RestOf
  <2>10. InnerAt(u)'
    BY <1>1, <1>2, <1>3, <2>1, <2>4, <2>7, <2>9 DEF InnerAt
  <2>11. Orderly'
    BY <2>3, <2>4, <2>10 DEF Orderly
  <2>12. EndedStay
    BY <1>3, <2>6, WritesEndOnce DEF Outside
  <2> QED BY <2>11, <2>12
<1> QED BY <1>8, <1>9

\* The step of a branch has one place: PlaceOf finds it.
LEMMA OnePlace ==
  ASSUME def \in Drafts, NEW s, NEW y \in def.top, def.kind[y] = "branch", NEW b \in DOMAIN def.branches[y],
         NEW i \in DOMAIN def.branches[y][b], def.branches[y][b][i] = s
  PROVE  PlaceOf(s).step = y /\ PlaceOf(s).branch = b /\ PlaceOf(s).index = i
<1>0. PICK place : place = PlaceOf(s)
  OBVIOUS
<1>1. InBranch(def, s) /\ IdsAreUnique(def)
  BY DraftsAssumption DEF InBranch
<1>2. /\ place.step \in def.top /\ def.kind[place.step] = "branch" /\ place.branch \in DOMAIN def.branches[place.step]
      /\ place.index \in DOMAIN def.branches[place.step][place.branch]
      /\ def.branches[place.step][place.branch][place.index] = s
  BY <1>0, <1>1, Placed
<1>3. s \in NestedIn(def, y) /\ s \in NestedIn(def, place.step)
  BY <1>2 DEF NestedIn, InnerOf, StepsOf
<1>4. place.step = y
  BY <1>1, <1>2, <1>3 DEF IdsAreUnique
<1>5. place.branch = b /\ place.index = i
  BY <1>1, <1>2, <1>4 DEF IdsAreUnique
<1> QED BY <1>0, <1>4, <1>5

\* The dispatch of a step of a branch settles: the thread goes on in the branch,
\* after it, or not at all.
LEMMA InnerInOrder ==
  ASSUME WorkflowInv, Tame, Orderly, NEW s \in Steps, NEW ok \in BOOLEAN, InnerSettles(s, ok)
  PROVE  Orderly' /\ EndedStay
<1> DEFINE t == <<"inner", s>>
<1>1. t \in pending /\ t[1] = "inner" /\ t[2] = s
  BY DEF InnerSettles, Serves
<1>2. pending \ {t} = {} /\ def \in Drafts /\ Publishable(def) /\ Loopless(def) /\ def' = def
  BY <1>1, Standing DEF Tame, InnerSettles
<1>3. InnerAt(t)
  BY <1>1 DEF Orderly
<1>4. PICK y \in def.top : \E c \in DOMAIN def.branches[y] : \E j \in DOMAIN def.branches[y][c] :
                /\ def.kind[y] = "branch" /\ def.branches[y][c][j] = s
                /\ Unended(RestOf(def, y, c, j)) /\ Clear(y)
  BY <1>1, <1>3 DEF InnerAt
<1>5. PICK b \in DOMAIN def.branches[y] : \E j \in DOMAIN def.branches[y][b] :
                /\ def.kind[y] = "branch" /\ def.branches[y][b][j] = s
                /\ Unended(RestOf(def, y, b, j)) /\ Clear(y)
  BY <1>4
<1>6. PICK i \in DOMAIN def.branches[y][b] :
                /\ def.kind[y] = "branch" /\ def.branches[y][b][i] = s
                /\ Unended(RestOf(def, y, b, i)) /\ Clear(y)
  BY <1>5
<1> DEFINE branch == def.branches[y][b]
           n == branch[i + 1]
<1>7. PlaceOf(s).step = y /\ PlaceOf(s).branch = b /\ PlaceOf(s).index = i
  BY <1>2, <1>6, OnePlace
<1>8. \/ /\ i < Len(branch) /\ stepStatus' = [stepStatus EXCEPT ![s] = "completed", ![n] = "running"]
         /\ pending' = (pending \ {t}) \cup {<<"inner", n>>}
      \/ SetStep(s, "completed") /\ AdvanceToNextStep(t, y)
      \/ HandleOnFailureFail(t, s)
  BY <1>7 DEF InnerSettles, Dispatch, Then
<1> HIDE DEF t
<1>9. /\ branch \in Seq(Steps)
      /\ \A j \in DOMAIN branch : branch[j] \in Under(def, y)
  BY <1>2, <1>6, RestUnder
<1>10. s \in Under(def, y) /\ s \in RestOf(def, y, b, i) /\ stepStatus[s] \notin Ended
  <2>1. s \in Under(def, y)
    BY <1>6, <1>9
  <2>2. s \in RestOf(def, y, b, i)
    <3>1. i \in Nat
      BY <1>9
    <3> QED BY <1>6, <3>1 DEF RestOf
  <2> QED BY <1>6, <2>1, <2>2 DEF Unended
<1>11. ASSUME NEW v \in StepStatuses, SetStep(s, v),
              pending' = {} \/ \E m \in Successors(def, y) : pending' = {<<"execute", m>>}
       PROVE  Orderly' /\ EndedStay
  <2>1. \A x \in Steps : x # s => stepStatus'[x] = stepStatus[x]
    BY <1>11, StepSet
  <2>2. Outside(y)
    BY <1>10, <2>1 DEF Outside
  <2>3. Orderly'
    BY <1>2, <1>6, <1>11, <2>2, LeavingIsOrderly
  <2> QED BY <1>10, <2>1, <2>3 DEF EndedStay
<1>12. CASE SetStep(s, "completed") /\ AdvanceToNextStep(t, y)
  <2>1. pending' = {} \/ \E m \in Successors(def, y) : pending' = {<<"execute", m>>}
    BY <1>2, <1>6, <1>12, Advances
  <2>2. "completed" \in StepStatuses
    BY DEF StepStatuses, Ended
  <2> QED BY <1>11, <1>12, <2>1, <2>2
<1>13. CASE HandleOnFailureFail(t, s)
  <2>1. "failed" \in StepStatuses /\ SetStep(s, "failed") /\ pending' = {}
    BY <1>2, <1>13 DEF HandleOnFailureFail, EndRun, Done, StepStatuses, Ended
  <2> QED BY <1>11, <2>1
<1>14. CASE /\ i < Len(branch) /\ stepStatus' = [stepStatus EXCEPT ![s] = "completed", ![n] = "running"]
            /\ pending' = (pending \ {t}) \cup {<<"inner", n>>}
  <2>1. i \in Nat /\ i + 1 \in DOMAIN branch
    <3> HIDE DEF branch
    <3>1. DOMAIN branch = 1..Len(branch) /\ Len(branch) \in Nat
      BY <1>9, LenProperties
    <3>2. i \in DOMAIN branch
      BY <1>6 DEF branch
    <3> QED BY <1>14, <3>1, <3>2
  <2>2. n \in Steps /\ n \in Under(def, y)
    BY <1>9, <2>1
  <2>3. \A j \in DOMAIN branch : branch[j] = s => j = i
    BY <1>2, <1>6, OnePlace, <1>7
  <2>4. n # s
    BY <2>1, <2>3
  <2>5. PICK u : u = <<"inner", n>>
    OBVIOUS
  <2>6. u[1] = "inner" /\ u[2] = n /\ pending' = {u}
    BY <1>2, <1>14, <2>5
  <2>7. /\ stepStatus'[n] = "running"
        /\ \A x \in Steps : x # n /\ x # s => stepStatus'[x] = stepStatus[x]
    BY <1>14, <2>2 DEF WorkflowInv, TypeOK
  <2>8. Outside(y)
    BY <1>10, <2>2, <2>7 DEF Outside
  <2>9. Clear(y)'
    BY <1>2, <1>6, <2>8, ClearStays
  <2>10. ASSUME NEW j \in DOMAIN branch, j >= i PROVE stepStatus[branch[j]] \notin Ended
    BY <1>6, <2>10 DEF Unended, RestOf
  <2>11. ASSUME NEW j \in DOMAIN branch, j >= i + 1 PROVE stepStatus'[branch[j]] \notin Ended
    <3>1. j \in Nat /\ j >= i /\ j # i
      BY <1>9, <2>1, <2>11
    <3>2. branch[j] \in Steps /\ branch[j] # s
      BY <1>9, <2>3, <3>1
    <3>3. stepStatus'[branch[j]] \in {"running", stepStatus[branch[j]]}
      BY <2>7, <3>2
    <3> QED BY <2>10, <3>1, <3>3 DEF Ended
  <2>12. Unended(RestOf(def, y, b, i + 1))'
    BY <1>2, <2>11 DEF Unended, RestOf
  <2>13. InnerAt(u)'
    BY <1>2, <1>6, <2>1, <2>6, <2>9, <2>12 DEF InnerAt
  <2>14. Orderly'
    BY <2>6, <2>13 DEF Orderly
  <2>15. stepStatus[n] \notin Ended
    BY <2>1, <2>10
  <2>16. EndedStay
    BY <1>10, <2>7, <2>15 DEF EndedStay
  <2> QED BY <2>14, <2>16
<1> QED BY <1>8, <1>12, <1>13, <1>14

\* What else the run waits for happens.
LEMMA OuterInOrder ==
  ASSUME WorkflowInv, Tame, Orderly, NEW s \in Steps,
         \/ Polls(s) \/ RetryTimerFires(s)
         \/ \E ok \in BOOLEAN : DispatchSettles(s, ok) \/ CompensationSettles(s, ok)
  PROVE  Orderly' /\ EndedStay
<1>1. ASSUME NEW t \in {<<"evaluate", s>>, <<"poll", s>>},
             PollTimeout(t, s) \/ PollError(t, s) \/ PollMet(t, s) \/ PollAgain(t, s)
      PROVE  Orderly' /\ EndedStay
  <2>1. Evaluates(t, s) /\ def' = def
    BY <1>1 DEF PollTimeout, PollError, PollMet, PollAgain
  <2>2. t \in pending /\ t[2] = s /\ def.kind[s] = "polling" /\ t[1] # "inner"
    BY <1>1, <2>1, Evaluating
  <2>3. CASE PollAgain(t, s)
    <3>1. pending' = (pending \ {t}) \cup {<<"poll", s>>} /\ stepStatus' = stepStatus
      BY <2>3 DEF PollAgain, Then, stored
    <3> QED BY <2>1, <2>2, <3>1, OuterStays
  <2>4. CASE ~PollAgain(t, s)
    <3>1. PICK cause : HandleStepSuccess(t, s) \/ HandleStepFailure(t, s, cause)
      BY <1>1, <2>4 DEF PollTimeout, PollError, PollMet
    <3> QED BY <2>1, <2>2, <3>1, CompletionInOrder
  <2> QED BY <2>3, <2>4
<1>2. CASE RetryTimerFires(s)
  <2> DEFINE t == <<"retry", s>>
  <2>1. t \in pending /\ pending' = (pending \ {t}) \cup {<<"execute", s>>} /\ stepStatus' = stepStatus /\ def' = def
    BY <1>2 DEF RetryTimerFires, Serves, Then, stored
  <2>2. t[1] = "retry" /\ t[2] = s
    OBVIOUS
  <2> HIDE DEF t
  <2> QED BY <2>1, <2>2, OuterStays
<1>3. ASSUME NEW ok \in BOOLEAN, DispatchSettles(s, ok) PROVE Orderly' /\ EndedStay
  <2> DEFINE t == <<"dispatch", s>>
  <2>1. /\ t \in pending /\ def' = def
        /\ HandleStepSuccess(t, s) \/ HandleStepFailure(t, s, "dispatch")
    BY <1>3 DEF DispatchSettles, Serves
  <2>2. t[1] = "dispatch" /\ t[2] = s
    OBVIOUS
  <2> HIDE DEF t
  <2>3. def.kind[s] # "condition"
    BY <2>1, <2>2, OuterThread
  <2> QED BY <2>1, <2>2, <2>3, CompletionInOrder
<1>4. ASSUME NEW ok \in BOOLEAN, CompensationSettles(s, ok) PROVE Orderly' /\ EndedStay
  <2> DEFINE t == <<"compensate", s>>
  <2>1. /\ t \in pending /\ def' = def
        /\ \/ SetStep(s, "completed") /\ AdvanceToNextStep(t, s)
           \/ HandleOnFailureFail(t, s)
    BY <1>4 DEF CompensationSettles, Serves
  <2>2. t[1] = "compensate" /\ t[2] = s /\ "completed" \in StepStatuses
    BY DEF StepStatuses, Ended
  <2> HIDE DEF t
  <2>3. def.kind[s] # "condition"
    BY <2>1, <2>2, OuterThread
  <2>4. CASE SetStep(s, "completed") /\ AdvanceToNextStep(t, s)
    BY <2>1, <2>2, <2>3, <2>4, PassedInOrder
  <2>5. CASE HandleOnFailureFail(t, s)
    BY <2>1, <2>2, <2>5, FailedInOrder
  <2> QED BY <2>1, <2>4, <2>5
<1> QED BY <1>1, <1>2, <1>3, <1>4 DEF Polls

\* A run starts with no step ended.
LEMMA StartInOrder ==
  ASSUME NEW d \in Drafts, Start(d)
  PROVE  Orderly'
<1>1. /\ def' = d /\ pending' = {<<"execute", d.first>>}
      /\ stepStatus' = [s \in Steps |-> IF s \in d.top \cup Nested(d) THEN "queued" ELSE "none"]
  BY DEF Start
<1>2. \A x \in Steps : stepStatus'[x] \notin Ended
  BY <1>1 DEF Ended
<1>3. ASSUME NEW y \in d.top PROVE Unended(Under(def, y))'
  BY <1>1, <1>2, UnderApart DEF Unended
<1>4. d.first \in d.top
  BY DraftFields
<1>5. Clear(d.first)'
  BY <1>1, <1>3 DEF Clear, Ahead
<1> QED BY <1>1, <1>3, <1>4, <1>5 DEF Orderly, OuterAt

\* One case for each action: the thread stays in order, and what has ended is not
\* written.
LEMMA OrderStep ==
  ASSUME WorkflowInv, Ordered, [Next]_vars
  PROVE  Ordered' /\ (Tame => EndedStay)
<1>1. CASE UNCHANGED vars
  BY <1>1 DEF vars, Ordered, Tame, Orderly, OuterAt, InnerAt, Unended, Clear, EndedStay
<1>2. ASSUME NEW d \in Drafts, Start(d) PROVE Ordered' /\ (Tame => EndedStay)
  <2>1. def = None
    BY <1>2 DEF Start
  <2> QED BY <1>2, <2>1, StartInOrder DEF Ordered, Tame
<1>3. ASSUME NEW s \in Steps, Chain(s) \/ Polls(s) \/ Settles(s) \/ RetryTimerFires(s)
      PROVE  Ordered' /\ (Tame => EndedStay)
  <2>1. def' = def /\ cancelled' = cancelled
    BY <1>3 DEF Chain, Polls, Settles, RetryTimerFires, ExecuteAction, ExecuteCondition, ExecuteConditionError,
       ExecuteBranch, ExecuteParallelGroup, ExecutePollingWait, PollTimeout, PollError, PollMet, PollAgain,
       DispatchSettles, InnerSettles, CompensationSettles
  <2>2. ASSUME Tame PROVE Orderly' /\ EndedStay
    <3>1. Orderly
      BY <2>2 DEF Ordered
    <3>2. CASE Chain(s)
      BY <2>2, <3>1, <3>2, ExecuteInOrder, ConditionInOrder, BranchInOrder DEF Chain
    <3>3. CASE Polls(s) \/ RetryTimerFires(s)
      BY <2>2, <3>1, <3>3, OuterInOrder
    <3>4. CASE Settles(s)
      BY <2>2, <3>1, <3>4, OuterInOrder, InnerInOrder DEF Settles
    <3> QED BY <1>3, <3>2, <3>3, <3>4
  <2>3. Tame' = Tame
    BY <2>1 DEF Tame
  <2> QED BY <2>2, <2>3 DEF Ordered
<1>4. CASE CancelWorkflowRun
  <2>1. ~Tame'
    BY <1>4 DEF CancelWorkflowRun, Tame
  <2>2. EndedStay
    BY <1>4 DEF CancelWorkflowRun, CancelledSteps, EndedStay, Ended
  <2> QED BY <2>1, <2>2 DEF Ordered
<1>5. CASE UnhandledRejection \/ Restart
  <2>1. pending' = {} /\ stepStatus' = stepStatus
    BY <1>5 DEF UnhandledRejection, Restart, ProcessEnds, stored
  <2> QED BY <2>1 DEF Ordered, Orderly, EndedStay
<1> QED BY <1>1, <1>2, <1>3, <1>4, <1>5 DEF Next

\* The thread is in order in every reachable state.
LEMMA OrderInvariance == Spec => []Ordered
<1>1. Init => Ordered
  BY DEF Init, Ordered, Tame
<1>2. WorkflowInv /\ Ordered /\ [Next]_vars => Ordered'
  BY OrderStep
<1> QED BY <1>1, <1>2, WorkflowInvariance, PTL DEF Spec

-----------------------------------------------------------------------------
(* Results *)

\* For any draft: a run has at most one thread of control, at the step its row
\* names; a running run of a living process is driven or stranded at a condition,
\* and one that ended without a cancellation is not driven any more.
THEOREM RunsAreDriven == Spec => []RunIsDriven
<1>1. ASSUME WorkflowInv PROVE RunIsDriven
  <2>1. OneThread
    <3>1. pending = {} \/ \E t \in pending : pending = {t}
      BY <1>1 DEF WorkflowInv, Thread
    <3>2. CASE pending = {}
      <4>1. Cardinality(pending) = 0
        BY <3>2, FS_EmptySet
      <4> QED BY <4>1 DEF OneThread
    <3>3. CASE \E t \in pending : pending = {t}
      <4>1. Cardinality(pending) = 1
        BY <3>3, FS_Singleton
      <4> QED BY <4>1 DEF OneThread
    <3> QED BY <3>1, <3>2, <3>3
  <2> QED BY <1>1, <2>1 DEF WorkflowInv, RunIsDriven
<1> QED BY <1>1, WorkflowInvariance, PTL

\* stepAttemptCounts has an entry only for the step that is being retried, below its
\* maxAttempts.
THEOREM AttemptsAreCurrent == Spec => []AttemptsBelongToLiveStep
<1>1. ASSUME WorkflowInv PROVE AttemptsBelongToLiveStep
  BY <1>1 DEF WorkflowInv, Attempted, AttemptsBelongToLiveStep, At
<1> QED BY <1>1, WorkflowInvariance, PTL

\* Unless it was cancelled, a failed run has exactly one failed step, any other none,
\* and a completed run has no step running.
THEOREM OutcomesMatch == Spec => []OutcomeMatchesSteps
<1>1. ASSUME WorkflowInv PROVE OutcomeMatchesSteps
  <2> DEFINE failed == {s \in Steps : stepStatus[s] = "failed"}
  <2> SUFFICES ASSUME ~cancelled
               PROVE  /\ IF runStatus = "failed" THEN Cardinality(failed) = 1 ELSE failed = {}
                      /\ runStatus = "completed" => \A s \in Steps : stepStatus[s] # "running"
    BY DEF OutcomeMatchesSteps
  <2>1. CASE runStatus = "failed"
    <3>1. PICK s \in Steps : \A x \in Steps : stepStatus[x] = "failed" <=> x = s
      BY <1>1, <2>1 DEF WorkflowInv, Outcome
    <3>2. failed = {s}
      BY <3>1
    <3>3. Cardinality(failed) = 1
      BY <3>2, FS_Singleton
    <3> QED BY <2>1, <3>3
  <2>2. CASE runStatus # "failed"
    <3>1. failed = {}
      BY <1>1, <2>2 DEF WorkflowInv, Outcome
    <3>2. runStatus = "completed" => \A s \in Steps : stepStatus[s] # "running"
      BY <1>1 DEF WorkflowInv, Outcome
    <3> QED BY <2>2, <3>1, <3>2
  <2> QED BY <2>1, <2>2
<1> QED BY <1>1, WorkflowInvariance, PTL

\* A run that ended and was not cancelled stays as it ended: no late result, timer
\* or poll is left that could change it.
THEOREM OutcomesStay == Spec => OutcomeIsFinal
<1>1. ASSUME WorkflowInv, [Next]_vars PROVE [(runStatus \in Ended /\ ~cancelled) => runStatus' = runStatus]_vars
  <2> SUFFICES ASSUME Next, runStatus \in Ended, ~cancelled PROVE runStatus' = runStatus
    BY <1>1
  <2>1. pending = {} /\ def # None /\ runStatus # "running"
    BY <1>1 DEF WorkflowInv, Thread, RunningIsDriven, Ended
  <2>2. \A d \in Drafts : ~Start(d)
    BY <2>1 DEF Start
  <2>3. \A s \in Steps : ~Chain(s)
    BY <2>1 DEF Chain, Executes, ExecuteAction, ExecuteCondition, ExecuteConditionError, ExecuteBranch,
                ExecuteParallelGroup, ExecutePollingWait
  <2>4. \A s \in Steps : ~Polls(s)
    BY <2>1 DEF Polls, Evaluates, Serves, PollTimeout, PollError, PollMet, PollAgain
  <2>5. \A s \in Steps : ~Settles(s) /\ ~RetryTimerFires(s)
    BY <2>1 DEF Settles, Serves, DispatchSettles, InnerSettles, CompensationSettles, RetryTimerFires
  <2>6. ~CancelWorkflowRun
    BY <2>1 DEF CancelWorkflowRun
  <2>7. UnhandledRejection \/ Restart
    BY <2>2, <2>3, <2>4, <2>5, <2>6 DEF Next
  <2> QED BY <2>7 DEF UnhandledRejection, Restart, ProcessEnds
<1> QED BY <1>1, WorkflowInvariance, PTL DEF Spec, OutcomeIsFinal

\* In a workflow without loops each step ends once: whatever branches, retries,
\* polls, compensations, conditions and cancellation the run goes through, a row
\* that is completed, failed or cancelled is not written again, unless the run was
\* cancelled before; and a run that ended stays as it ended.
THEOREM NothingEndsTwice == Spec => EndingsAreFinal
<1>1. WorkflowInv /\ Ordered /\ [Next]_vars =>
        [~cancelled /\ def # None =>
           (Loopless(def) =>
              \A s \in Steps : stepStatus[s] \in Ended => stepStatus'[s] = stepStatus[s])]_vars
  BY OrderStep DEF Tame, EndedStay
<1>2. Spec => StepsEndOnce
  BY <1>1, WorkflowInvariance, OrderInvariance, PTL DEF Spec, StepsEndOnce
<1> QED BY <1>2, OutcomesStay, PTL DEF EndingsAreFinal
=============================================================================
