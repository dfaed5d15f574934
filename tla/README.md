# Agent Platform: a TLA+ model of its run-time core

The repository is a TypeScript server (one Node process, SQLite through
synchronous better-sqlite3 calls) that runs agents: users talk to sessions, a
session's turn may call tools, start background subagents, ask the user a
question or start a workflow. What is hard about it is not the code of one
request. It is what several requests, timers, child runs and restarts do to the
same rows and the same in-memory maps. This directory models that part.

Contents: [Inventory](#inventory) · [Modules](#modules) ·
[Runs](#runs-bounds-and-results) · [Fairness](#fairness) · [Proofs](#proofs) ·
[Where text and code disagree](#where-the-repositorys-text-and-its-code-disagree) ·
[Not modelled](#what-is-not-modelled) · [Plan](#plan)

Paths below are relative to `src/` of the repository. `PROJECT.json` maps every
definition that models code to its lines, and lists all components and hazards.

## How the code is read

* **One synchronous block is one action.** JavaScript runs a block to the next
  `await` without interruption, so an action covers everything a handler does
  between two awaits, including the calls it makes (for example, completing a run
  also writes its notification, fires the trigger and restarts the queue). The
  synchronous loops over several runs (the worker's tick, the watchdog) take one
  action per run, and a `loop` variable keeps everything else out until they end.
* **Rows survive, memory does not.** Each module separates columns of tables from
  in-memory maps and timers. A `Restart` action clears the latter only, and
  performs what startup does.
* **Data is reduced to what decisions look at**: ids, statuses, flags. Events,
  spans, logs, texts and outputs are left out.
* **Time** is an action that makes a deadline pass (`TimerFires`, `ExpiryPasses`,
  `CheckpointAges`, `ScheduleArrives`, `PollTimeout`, `DispatchTimesOut`,
  `BudgetExpires`), and nothing depends on how long it took. Where the code compares
  times (breakers, grants, schedules, wait conditions) there is a bounded clock.
* **Outcomes of the outside world** (a model's answer, an adapter, an expression)
  are chosen freely among those the code tells apart.
* Definitions named `Faulty...` are deliberately wrong variants of the definition
  after them: a dropped guard, a missing reset, a swapped order. Putting one in
  place of the original makes the property it was written for fail. They are used
  nowhere in the specifications.
* A constant `Casts` (`Settings` in `LlmFailover`) says which combinations of actors take part in a behaviour. The
  initial state chooses one of them, so one run covers several small scenes without
  the product of all of them.

## Inventory

### Parts modelled

| Part | State | Operations | What makes it correct |
|---|---|---|---|
| Background runtime `subagents/background-runtime.ts`, worker `background-worker.ts`, store `storage/background-run-store.ts` | run rows (status, retry count, notification); in memory the `runningRuns` slots, checkpoint timestamps, the worker's in-flight runs | enqueue, start, complete, fail, cancel, checkpoint, recover, watchdog, expiry, queue processing, worker tick and execution | slots are bounded; a run ends once; exactly one true notification and one trigger per end; what the worker took settles |
| Cancellation coordinator `recovery/cancellation-coordinator.ts` | none of its own: it writes rows of others and aborts signals | cancel, pause, resume of background runs; cancel of a kernel run | agrees with the owner of the row on what an ended run is |
| Session busy tracker `processing/session-busy-tracker.ts` | per session: busy bit, FIFO of waiters, idle callbacks (memory) | withBusy, clearBusy, whenIdle | at most one holder, nobody stranded, first come first served |
| Synthetic turns `processing/background-notification-turn.ts`, `ask-response-turn.ts`; message processor `message-processor.ts` | the claim columns of notifications and asks | schedule, claim, process or time out, roll back, deliver, retry once when idle | an item enters a model's context at most once |
| Foreground turns `processing/processor-orchestration.ts`, `storage/kernel-run-store.ts`, abort registry `kernel/run-abort-registry.ts`, cancel route `api/routes/sessions.ts` | kernel run rows; controllers by run id (memory) | begin, enter the kernel, return or throw, cancel the active run, sweep | the row tells what became of the turn, whoever wrote it |
| Agent kernel `kernel/agent-kernel.ts`, pairing guard | the state of each loop: iteration, response, pending results, signal | build a request, stream, fall back, call, handle calls, dispatch batches, truncate, compact, return | each tool call has one result before the next request; an abort stops new work; the loop ends |
| Tool orchestrator and executor `tools/runtime/tool-orchestrator.ts`, `tools/tool-executor.ts` | executions of a batch | parallel reads, serial writes, skip, cancel | writes in order; the model is told what was done |
| Runtime dispatcher `dispatcher/runtime-dispatcher.ts`, `storage/runtime-action-store.ts`, start-up sweep `recovery/stale-run-recovery.ts` | action rows, unique idempotency keys; pending adapter calls and timers | validate, save, answer duplicates, permission hook, adapter against timer, abort, sweep | one execution per key; what the caller is told is what the row says; an answer always comes |
| Workflow runtime `workflows/workflow-runtime.ts`, `storage/workflow-run-store.ts` | run and step rows, wait conditions, tracking actions; awaited dispatches, retry and poll timers, attempt counts | publish, start, the step types, retry, four failure policies, polling, branches, cancel | one thread of control; it always has something to drive it or has ended; run and steps agree |
| Child-session tasks `subagents/child-session-task-runtime.ts` and the tools that launch and cancel them | attempt rows, lifecycle events; controllers, snapshots (memory) | launch, wait within the turn's budget, run, cancel, abort, settle | row, events and the answer of the wait agree; nothing that was given up runs on unseen |
| Planner runtime `planner/` and its tools | status and steps of a planner run | create, set steps, mark, complete, pause, resume, cancel, wait | a completed plan is complete, whichever child closed it |
| LLM adapter `llm/adapter.ts`, providers, circuit breaker `llm/circuit-breaker.ts` | breakers; each request's provider, retry and stream state | complete, stream, retry, failover, last resort | bounded sending, no repeated content within a loop, every provider tried, an end |
| Permission engine `permissions/permission-engine.ts`, approvals `api/routes/approvals.ts` | approvals, grants, held actions, triggers | check a call, ask, answer, grant, release the held action, resume triggers | what ran was covered; an answer has its consequences once |
| Event triggers and wait conditions `triggers/`, `async/async-integration.ts`, connector event bridge | registrations, events, resume actions, wait conditions; caches and tracked operations (memory) | register, evaluate, deliver, time out, operation events | each due time, event and wait resumes its target once, up to what a crash between two writes costs |

### How they interact

* A user turn takes the session's slot (`SessionTurns`), creates a kernel run
  (`ForegroundRuns`) and runs the kernel (`AgentKernel`), which asks a model
  (`LlmFailover`) and dispatches batches of tools (`ToolOrchestrator`).
  `AgentKernel` takes from the adapter that a request ends (`RequestsEnd`, or its own
  timer) and from the dispatcher that it answers (`ExecutingIsAnswered`).
* A tool call is decided by the permission engine (`Approvals`); what it holds back
  is released by the answer route. That route is also what the approval triggers hear.
* A tool may launch a child (`ChildTasks`) and wait for it, or enqueue a background
  run (`BackgroundRuns`). The worker executes the latter as a child attempt: what
  `ExecutionEnds` assumes there, that a child run ends, is `AttemptsSettle`.
* When a background run ends, `BackgroundRuns` writes the notification and fires
  `parentTurnTrigger`; `SessionTurns` picks up there (`BackgroundRunEnds`): the
  trigger may start a synthetic turn, or the next user turn collects the
  notification. `TriggerOncePerNotification` (proved) is what `SessionTurns` assumes
  of its input: at most one trigger per notification, with the notification saved
  first.
* Turns of one session may overlap: a processor outlives its timer, or a webhook
  does not use the tracker. `SessionTurns` shows both, and `ForegroundRuns` therefore
  lets any two turns be under way.
* The workflow runtime starts its steps through the dispatcher. `WorkflowRun` takes
  from it only that a dispatch settles (`ExecutingIsAnswered`).
* The coordinator and the background runtime write the same rows with different
  ideas of what else has to be done. Both are in `BackgroundRuns`. Of the
  coordinator's operations only `cancelKernelRun` has a caller at present
  (`api/routes/sessions.ts:1111`); those on background runs are modelled because the
  class offers them.

### Hard behaviours

`PROJECT.json` lists the main ones under `hazards`, each at the line where it bites:

* queue processing that runs inside every terminal transition, also in the middle
  of the worker's tick; a slot handed to a waiter that resumes only in a later
  microtask;
* a processor, adapter, tool or child that goes on after a timer answered for it;
  dispatch results, retry timers and polls that arrive after a cancellation;
* claims taken before and rolled back after a turn that others may collect from;
  several dispatches of one idempotency key at the permission hook; a batch that
  decides under grants it read earlier; two children of one plan;
* a response of the model that mixes calls of every kind, with an abort, a stop or a
  timeout between any two of them; a stream that breaks after its first chunks;
  answers that reach a breaker in another state than the one they were sent in;
* events delivered twice, late or contradicting each other;
* a process that ends between any two awaits and, for approvals, triggers and waits,
  between any two writes of a handler.

Known and without a property, because no text or code says what should happen, or
because the consequence is only a delay:

* Retry timers and polls of a workflow are only in memory: after a restart its run
  stays `running`. A poll that errs or is cancelled leaves its wait condition
  `active`.
* The start-up sweep looks at rows that are five minutes old, once: a row younger
  than that at a quick restart stays open until the next one.
* `setPlanSteps` may throw after the plan was generated (another child completed the
  run): the planner attempt's row stays `running` although its promise rejected.
* Launches per turn count attempts that failed at once, too.
* The dispatch timer of a batch leaves handlers running that nobody waits for.
* `callLLMWithTimeout` gives the call that replaces a failed stream the remaining
  time computed before the stream.
* In `HALF_OPEN` every concurrent request goes through, and
  approvals whose deadline passed still count against `maxPendingApprovals`.

### Parts not modelled

Memory, connectors, search, prompts, gateway, API plumbing, migrations,
observability, file handling, command line and the web console are I/O, text or
derived data; some parts with control of their own have no caller in the
application (see [below](#what-is-not-modelled)). Each is a component in
`PROJECT.json`, with its reason.

## Modules

| Module | Role |
|---|---|
| `BackgroundRuns` | runtime, worker, watchdog, coordinator over the table of background runs |
| `BackgroundRunsProofs` | its theorems |
| `TurnLock` | abstract specification: a lock with a FIFO queue |
| `SessionTurns` | one session: busy tracker, user, webhook and synthetic turns, claims; implements `TurnLock` |
| `SessionTurnsProofs` | its theorems, the refinement of `TurnLock` among them |
| `RuntimeDispatcher` | `dispatch` for a set of actions, their rows and keys |
| `RuntimeDispatcherProofs` | its theorems |
| `WorkflowRun` | one run of a published workflow, for a set of step lists |
| `WorkflowRunProofs` | its theorems |
| `PlannerRun` | one planner run and its plan, as operations |
| `ChildTasks` | attempts of child tasks, foreground, background and planner; extends `PlannerRun` |
| `ChildTasksProofs` | theorems of `ChildTasks` and `PlannerRun` |
| `ToolOrchestrator` | which tool of a batch may start, as operators |
| `AgentKernel` | the kernel loop of several runs, over `ToolOrchestrator` |
| `ForegroundRuns` | the turns of a session around their kernels; extends `AgentKernel` |
| `ForegroundRunsProofs` | theorems of `AgentKernel`, `ForegroundRuns`, `CircuitBreaker` and `LlmFailover` |
| `CircuitBreaker` | one breaker as a record and operators |
| `LlmFailover` | requests over several providers, each behind a breaker |
| `Approvals` | permission decisions, approvals, grants, held actions, approval triggers |
| `ApprovalsProofs` | its theorems |
| `EventTriggers` | schedule and event triggers |
| `WaitConditions` | wait conditions of three owners beside the triggers; extends `EventTriggers` |
| `WaitConditionsProofs` | theorems of `EventTriggers` and `WaitConditions` |
| `MC...` | instances of the above for TLC |

**BackgroundRuns.** `status`, `retryCount`, `notif` are columns of
`background_runs`; `hasSpec`, `due`, `overdue` are the sets of rows with a usable
task spec, a `scheduledAt` that has come and an `expiresAt` that has passed.
`runningRuns` and `stale` are the runtime's memory, `executing` and `rejected` the
worker's. `Finish` is the body shared by complete, fail and cancel: status, slot,
notification, trigger, then `ProcessQueue`. `ProcessQueue` is the fixed point of the
code's loop, the due queued runs of highest priority as far as slots reach; ties,
which the code breaks by row order, are left open. The worker's tick is `TickBegin`
and one `TickTakes` per run; the await of `startBackgroundRun` is the split between
`TickTakes` and `StartRejected`; `ExecutionEnds` is the child's end with
`finishRun`. `CoordinatorCancel/Pause/Resume` are the coordinator's writes. The
watchdog, checkpoints and recovery, like the coordinator's operations on background
runs, are public operations that no route calls at present; they are modelled because
the classes offer them.

**SessionTurns.** `running`, `queue`, `idleCallbacks` are the tracker's entry for
one session (sessions share nothing); `pc` is where each turn is, `processor` its
`process` call. Items (`Notifs`, `Asks`) are `saved`, `claimed`, and counted in
`injected` when they enter a model's context (history). `ClearBusy` is the whole of
`clearBusy`: hand the slot to the head of the queue, or drain all idle callbacks, of
which the first that finds its item unclaimed takes the slot and the others return
for good. `ProcessTimesOut` answers for the processor, which goes on as "late".
`WebhookMessage` is the messaging route, which does not use the tracker.

**RuntimeDispatcher.** `row` and `first` are the table and its lookup by key; `pc`
is the await a dispatch is at; `adapter`, `aborted`, `signalled` follow the adapter
call beyond the dispatch. `hasHook` and `uniqueKeys` are fixed per behaviour: with
and without a permission hook, with the SQL schema's UNIQUE key and with a store
without it (the in-memory one of the dispatcher's tests). `Restart` loses every dispatch
under way and sweeps any subset of the `dispatching` rows, for which of them are old
enough is a matter of time.

**WorkflowRun.** A definition is a record `def` drawn from the constant `Drafts`.
`runStatus`, `stepStatus`, `current`, `openActions`, `waits` are rows; `pending` is
what the process still has to do, a set of pairs of kind and step (a call under way,
an awaited dispatch, a retry timer, a poll); `attempts` is `stepAttemptCounts`;
`lost` and `cancelled` are history. `executeStep`, `handleStepCompletion` and
`advanceToNextStep` call each other in tail position; the model steps through such a
chain one call at a time, and a pending call excludes everything else. A draft is
`Loopless` when no step lies `Ahead` of itself: ahead of a step is what belongs to
every set that holds its successors and is closed under them.

**PlannerRun and ChildTasks.** `plannerStatus` and `steps` are the planner's rows,
with `IsValidTransition` as the code's own table. An attempt has a `row`, a `place`
of its `executeRun`, lifecycle `events`, and, for a foreground attempt, a `waiting`
that says what its tool call was told. `CancelRuns` is the whole of `cancelRun`: row,
event, controller. `Settle` is what an answer of the kernel does to a live row, and
nothing to an ended one. `PlanGenerated` goes on without looking at `isCancelled`
again, as the code does. `PlannerOperation` stands for the tools that act on the run
while its children do.

**AgentKernel, ToolOrchestrator, ForegroundRuns.** `run[r]` is the local state of one
`AgentKernel.run`: the `response` is the sequence of the kinds of its calls, `pos`
the call being handled, `pending` the pairing guard, `answers` the results so far,
`batch` and `tool` the dispatch under way. `HandleCalls` is the synchronous walk over
the calls up to the next await: an internal handler, a batch of consecutive
dispatchable calls, or the end. `DispatchTimesOut` discards what the tools of the
batch had done, and its running tools become `strays`. `lost` remembers which results
that concerns. `ForegroundRuns` adds the row, the place of the turn and the creation
order, by which `CancelActiveRun` picks the newest open row. `TurnReturns` is the
"idempotent terminal write" of the processor, `TurnThrows` the path on which it
writes nothing.

**CircuitBreaker and LlmFailover.** A breaker's operations are functions of its record
and the time. That `canExecute` also moves an `OPEN` breaker to `HALF_OPEN` is kept:
`GetHealthyProviders` asks every breaker and so changes them (`AskEveryBreaker`).
A request is the set `able` of providers its loop may use, its position `i` in the
priority order (`From` finds the next able one), the retry, and for streams whether
anything was yielded in this attempt and in this loop. The scope of the breakers is
part of the `setting`: `provider-runtime.ts` builds them anew for each request, an
adapter filled by `addProvider` shares them. Its definitions are named `AdapterInit`,
`AdapterNext`, `AdapterSpec`, so that one proof module can extend it beside the kernel.

**Approvals.** A call is what the engine is told of it (mode, operation, tool,
resource, what policies, risk rules and the work directory say). The operation is one
of five: tools of the categories admin and connector have `admin`, which the engine
does not ask about. `CheckPermission` is the set of decisions the order of the code
allows, with `batch[b].held` the snapshot of grants a batch decides under. A grant's
resource is compiled to a regular expression without escaping, which the constants
`Matching` (which pattern matches which resource, any relation) and `NoRegExp` (which
compile to none) stand for: `Fits` is the match of tool and pattern, `Covers` adds the
expiry, and a grant that `Breaks` makes the check throw if it is read before one that
covers the call, which is why there may be two decisions. A call that is not allowed or
fails ends its batch, as the orchestrator skips the writes behind it.
`RouteWrites(i, response, n)` are the first n of the answer route's three writes, so
`AnswerApproval` makes all of them and `RestartInAnswer` some. `AnswerClashes` is the
second answer of one millisecond, whose event id is taken. `AnswerSettles` and
`DispatchThrows` are what follows the await. `RequestApproval` and `AnswerByTool` are
the two uses of the tool `approval_request`: it creates a row without a check (`wanted`
are the requests to come), and answers one by writing its row alone.

**EventTriggers and WaitConditions.** A pass is the synchronous evaluation of the
active triggers, one step per trigger; nothing comes in between but the end of the
process (`PassBreaks`), after any number of the writes of a firing. The firing cache
and the tracked operations are memory. A wait has an owner, because the three parts
that register one treat late and repeated events differently: the runtime's are ended
by the scan only, the bridge drops an operation that ended, and the async integration
marks the row again and creates the matching action.

## Runs, bounds and results

Passing runs:

| Run | Instance | Distinct states |
|---|---|---|
| `bg` | 2 runs, one with a session and higher priority; 1 slot, 2 worker slots, 2 recovery attempts, 1 restart | 213,708 |
| `turns` | 2 user turns, a webhook turn, a notification, an ask, auto-continue on, 1 restart | 373,618 |
| `disp` | 4 actions, 3 of them (one a write) with the same key; hook and unique key on and off; 1 restart | 142,040 |
| `flow` | about 300 definitions over 5 step ids; with and without a wait-condition store; cancel and process end anywhere | 44,380 |
| `children` | 3 attempts in a turn that may launch 2; a foreground beside a background attempt; 2 children of one plan of 2 steps; 1 restart | 43,518 |
| `kernel` | every response of up to 3 internal, read and write calls; 2 iterations with refused calls; 2 overlapping turns; 2 parallel reads; 1 restart | 170,642 |
| `llm` | 2 providers, 1 retry, thresholds 3 and 2; 1 request with breakers of its own, 2 that share them | 152,302 |
| `approvals` | 2 batches in 2 sessions over file writes, a file of the work directory and a connector tool; a pattern that matches a second file, one that is no RegExp; a held action, a request for any tool, a trigger; 3 approvals, 2 pending of a session at most, clock to 2, restarts without bound | 497,763 |
| `triggers` | an interval, a one-time and a cron schedule, 2 listeners, 2 events, a wait of each owner; clock to 3, 2 ends of the process | 156,038 |

Why these bounds are enough to be interesting:

* `bg`: two runs compete for one slot while the worker has two, so the queue,
  rejection and leak paths all occur; with two recovery attempts the watchdog's first
  visit of a stale run marks it `recovering` and a later one gives it up; one restart
  leaves rows and memory out of step.
  A second would start from the same kind of state, rows with empty memory, and the
  theorems cover any number.
* `turns`: the two users make the queue longer than one while two idle callbacks
  compete.
* `disp`: three actions of one key are the fewest with a duplicate of a duplicate;
  the fourth shows that keyless actions stay apart.
* `flow`: the definitions cover every step type, every policy with and without a
  hook, 0 to 3 attempts, conditions with missing and dangling targets, empty and
  longer branches, a loop through a condition, a parallel group and a cycle that
  validation rejects.
* `children`: one launch more than allowed; two children replace, mark and close the
  same plan; a cancellation can fall at every place of an attempt.
* `kernel`: three calls are the fewest with a batch between two handlers, or a write
  behind two others, of which the first fails and the second is skipped; with two
  iterations the pairing of one response meets the next request; two turns are enough
  for the wrong one to be cancelled.
* `llm`: one retry makes two attempts per provider, so the third failure, which opens
  a shared breaker, falls in the middle of the other request, and the clock lets the
  breaker recover while attempts are still on their way.
* `approvals`: `OnceTTL` 0 and `AlwaysTTL` 1 with a clock to 2, so that both kinds of
  grant expire between the snapshot and the call; one pending approval fewer than
  there can be rows. The grant of one file covers the other by its pattern, that of a
  third breaks every check of its tool, and the one for any tool covers everything.
* `triggers`: the interval has due times the budget does not cover, the cron schedule
  a gap, the waits a timeout that races the operation's events; two ends of the
  process, so that the second can hit the repetition of what the first broke off.

`CHECK_DEADLOCK FALSE` is set where the system may come to rest: every run, request
or turn has ended and nobody calls, or the bounded clock has stopped.

What they show.

* `bg`: a saved notification is true for ever (`NotificationMatchesOutcome`) and
  comes with exactly one trigger for runs of a session
  (`TriggerOncePerNotification`); ended runs have told their parent
  (`FinishedIsNotified`) and, unless cancelled, are final (`FinalOutcomeKept`);
  a slot outlives its run
  only after a coordinator's cancel (`LeakedSlotIsSilentCancel`); what the worker
  took settles (`InFlightSettles`).
* `turns`: the busy bit is set exactly while one turn owns the slot, and the queue and
  the callbacks hold exactly those who wait (`SlotTellsTheTurns`); nothing is injected
  twice (`InjectedAtMostOnce`); the tracker with its users implements `TurnLock`
  (`IsFifoLock`, with the holder computed from `pc` and the queue as is); every waiter
  is served (`WaitersAreServed`).
* `disp`: one execution per key (`OneExecutionPerKey`); answers and rows agree
  (`AnswerMatchesRow`); outcomes are final (`FinalStatusKept`); a dispatch at its
  adapter is answered (`ExecutingIsAnswered`).
* `flow`: one thread of control, working on the step `current_step_ids` names, and
  always driven except after the conditions that strand a run (`RunIsDriven`); attempt
  counts do not leak between visits (`AttemptsBelongToLiveStep`); run and steps agree
  (`OutcomeMatchesSteps`); without a cancellation outcomes are final and steps end
  once (`EndingsAreFinal`); runs end (`RunsEnd`).
* `children`: the row of an attempt, its events and what its parent was told agree
  (`RowIsTold`); no foreground kernel that was given up runs without its signal
  aborted (`NoForegroundOrphan`); a completed plan has no open step
  (`CompletedPlanIsComplete`); ended attempts do not change, nor do the steps of a
  completed, failed or cancelled plan, and none of these plans, archived ones
  included, lives again (`EndingsAreFinal`); an attempt that reached its kernel gets a terminal row
  (`AttemptsSettle`).
* `kernel`: exactly one result per tool call at every request and return
  (`EveryCallAnsweredOnce`); writes in order, and success or failure reported as it
  was, save for dispatch timeouts (`BatchEffectsAreTold`); a cancelled run is never
  shown as completed, the sweep closes no live run, and only a turn that threw or was
  lost leaves its row open (`RowTellsTheTurn`); no new work after an abort, save the
  handler behind a batch (`NoNewWorkAfterAbort`); turns come back (`RunsReturn`).
* `llm`: the retries of all loops together stay bounded (`SendsAreBounded`); no
  provider's content is delivered twice by one loop (`NoContentTwiceFromOneLoop`); a
  request fails only after everything healthy was called (`EveryProviderTried`); every
  request ends (`RequestsEnd`).
* `approvals`: one grant per approved request and none otherwise, except where the
  process ended inside the route or the tool answered (`GrantMatchesAnswer`); every
  write, deletion and execution in an asking mode ran under a grant that was given
  before, had not expired, and whose tool and pattern fit it (`AllowedIsCovered`). What
  a policy or the work directory allows is free, and so are admin and connector tools,
  which the code does not ask about. Held actions and
  triggers follow the answer (`AnswerIsFollowed`).
* `triggers`: an interval loses none of its due times and fires for no other; no due
  time fires more often than once and once per crash, where a cron or a single time has
  one due time, its pattern (`ScheduleFirings`); a delivery that returned has resumed
  all it matched, also after a crash (`EventFirings`); a wait of the runtime or the bridge is resumed once and
  its row still says why (`WaitResumedOnce`); an ended wait has its action
  (`EndedWaitIsResumed`).

The other three runs each check one statement made by a comment, a test or a table of
the repository, and TLC finds it violated by what the code does. `bg_executed` uses
a reduced next-state relation (`LaunchAndWorkSpec`: only launches and the worker), so
that the counterexample cannot be blamed on something else.

## Fairness

* `BackgroundRuns`: the steps of a synchronous loop are weakly fair, since
  synchronous code runs on. `TickBegin` (the poll timer), `StartRejected` (a ready
  microtask) and `ExecutionEnds` (child runs have their own timeout) are strongly
  fair, because the loops disable everything else while they run: their
  enabledness toggles, and the event loop still gets to them. Callers, the watchdog
  and deadlines owe nothing.
* `SessionTurns`: a ready microtask runs, a processor ends or its timer fires, a
  delivery settles. All weak. Users, webhooks and background runs owe nothing.
* `RuntimeDispatcher`: only timers. Adapters and the permission hook may hang.
* `WorkflowRun`: the synchronous chain runs, dispatches settle (from
  `RuntimeDispatcher`), retry timers fire, and a poll that nothing else ends is
  evaluated until the clock is past its `timeoutAt`. All weak. No condition need
  ever be met.
* `ChildTasks`: the budget timer of a foreground wait fires; the kernel of a
  background child returns (`RunsReturn`: it has iterations and timeouts of its own), the
  plan generator answers, the worker takes an enqueued child. All weak. Foreground
  kernels owe nothing, for their budget answers for them.
* `ForegroundRuns`: an await of the kernel loop settles, since requests and dispatches have timers
  and the loop a last iteration; a turn that begins enters the kernel or throws; a
  kernel that is done returns. All weak. Tools owe nothing: the dispatch timer does.
* `LlmFailover`: the event loop runs what is due, and every attempt is answered. Both
  weak. Until the headers arrive the fetch's timer sees to that; it is cleared then
  (`providers.ts:333`), and `response.json()` and `readErrorBody` have none, so that a
  body ends is an assumption on the provider. The clock owes nothing.
* `Approvals`, `EventTriggers`, `WaitConditions`: none, and no liveness is claimed. Users need
  not answer, and `evaluateScheduleTriggers`, `evaluateWaitConditions` and the
  delivery of events are called by no code of the application at present.

Liveness properties that a restart defeats say so in their premise.

## Proofs

TLAPS checks the eight `...Proofs` modules with no step left out. The theorems hold
for every value of the constants: any number of runs, turns, actions, triggers or
approvals, any definitions and model responses, any limits, any number of restarts.

*Assumptions*, all named and evaluated by TLC on the instances. They give the
constants their types: limits are naturals (at least one iteration, launch, parallel
read or recovery attempt, thresholds of at least one failure and one success), the
kinds of turns and attempts are disjoint, no provider is twice in the priority order, a
draft has its first step among its top-level steps and no id at two places
(`IdsAreUnique`), an async wait has no timeout. The rest says that a marker is no ordinary value: `None`, `NoKey`, `NoAction`,
and `"none"` and `"schedule"` among turns and events.

Hardly any property is inductive alone. What each invariant adds, and why:

**BackgroundRunsProofs**: `TypeCorrect`, `NotificationIsTrue`, `TriggerIsUnique`,
`EndedRunsAreTold`, `OnlySilentCancelsLeak`, `OutcomesAreFinal`, `SlotsAreBounded`.
That a finish writes the one notification of a run needs that there was none; the
guard of the code looks at the status only, so this needs `NotificationMatchesOutcome`:
a live run is not notified. That the watchdog revives no ended run needs that the runs
its loop has still to visit are in `runningRuns` (`WatchedAreRunning`), and that runs in
`runningRuns` have no notification (`LeakedSlotIsSilentCancel`). Their conjunction
with `TypeOK` is the invariant `IInv`. `EndedRunsAreTold` is inductive beside it. The
slot bound is another invariant (`SlotInv`) that needs the types and facts about
cardinalities: `ProcessQueue` starts as many runs as there is room, every other start
looks first.

**RuntimeDispatcherProofs**: `TypeCorrect`, `Idempotency`, `AnswersAreTrue`,
`Stragglers`, `Duplicates`, `OutcomesAreFinal`.
`IInv` adds to the checked properties `KeyOwner` (a keyed action past the duplicate
check is the first row of its key), `FirstIsOriginal` (that row is of this key and
no duplicate itself), `DuplicatesAreOver` (a duplicate is answered and has no
adapter) and `Progress` (which rows, answers and adapters go with each place of a
dispatch). One action changes the state of one dispatch; `LocalStep` and the lemma
`LocalStepKeeps` say what has to be shown of that dispatch for the whole invariant to
be kept, and the proof has one step per action that shows it.

**SessionTurnsProofs**: `SlotIsTrue`, `InjectedOnce`, `Refinement`.
`SlotInv` names the holder of the slot instead of counting holders, and says that
neither list repeats a turn and that each has exactly the turns that stand in it; a
hand-over needs this, for the turn at the head of the queue must be one that waits.
`ContextInv` keeps a notification that entered a context claimed: only its own turn
could roll the claim back, and that turn is over. For the refinement of `TurnLock`,
every action is shown to be a `SlotStep`, what a step may do to the slot and its queue,
and each kind of `SlotStep` to be a step of the lock or a stutter under the mapping.

**WaitConditionsProofs**: `SchedulesFire`, `DeliveriesResume`, `WaitsResumeOnce`,
`EndedWaitsResume`.
For schedules `TriggersInv` counts per due time: one that is in the firing cache was
fired at most once more than the process ended, one that is not at most as often;
`nextRunAt` of an interval lies on its grid; an active trigger has budget left. For
listeners it adds that a stored action has its stored event and that a pass has resumed
whatever it matched and left behind. `WaitsInv` holds the resumes of a wait against
its row, apart for each owner.

**ForegroundRunsProofs**: `CallsAreAnswered`, `BatchesAreTold`, `AbortStopsWork`,
`RowsAreTrue`; and for the LLM adapter `ProvidersAreSpared`, `ContentOnce`,
`FailureIsLastWord`, `OpenBreakersShield`.
`KernelInv` follows the cursor of the loop over the calls of a response: what is
pending is exactly the dispatched batch and the calls from the cursor on, which no tool
has touched (`PhaseInv`). So the first result of a call is the only one, and a synthetic
error hides no tool that completed unless the timeout lost it. The functions of the
run's state that make up the loop (`HandleCalls`, `AcceptErrors`, ...) have a lemma each
that says what they keep. `RowInv` needs one more fact than `RowTellsTheTurn`: an
aborted run's row is already cancelled.

The adapter's invariant `AdapterInv` holds for each request what its position in the
priority order says (`CallInv`). Behind the position every able provider was called
(`Tries`; `FromSkipsNone` says that the next one is found and none passed over), and
was sent at most retries + 1 requests in this loop and as many in the loop before
(`Sends`); at the position the retry counts the attempts; and content came only from
behind the position, or from it when the loop's flag says so, which is why a retry
after content must be refused (`Contents`). Nothing here depends on the breakers, which
other requests move at any time. Of them the invariant says that they are `Sound`: a
closed one is below its failure threshold, a half-open one below its success threshold,
and no failure lies in the future. From this follows `OpenBreakersShield`, which no run
checks: for the reset timeout after its last failure an open breaker lets nothing
through to its provider, and asking it or a late answer, even a success, does not
change that.

**ChildTasksProofs**: `PlansComplete`, `ParentsAreTold`, `GivenUpIsSignalled`,
`EndingsStay`.
`cancelRun` writes the row and the flag in memory together, and `executeRun` decides by
the flag alone; so `ChildInv` ties the flag to the row of each attempt that is under way
(`FlagTellsTheRow`), and the signal to the flag of each foreground kernel
(`KernelsAreReachable`): only a planner child can be cancelled before it has a
controller. The plan changes by the operations of `PlannerRun` only (`PlannerStep`),
and each keeps `PlanInv`.

**ApprovalsProofs**: `GrantsMatch`, `WritesAreCovered`, `AnswersAreFollowed`.
`ApprovalsInv` says which approvals a request has reached: a pending one has no grant and
no request, grants of one approval are the same grant, a held action has one approval,
and a trigger has heard only of answers whose request is done. That a call is covered
although its batch read the grants earlier needs that what it read is still there.
`Matching` and `NoRegExp` are arbitrary: the theorems hold whatever the patterns match.

**WorkflowRunProofs**: `RunsAreDriven`, `AttemptsAreCurrent`, `OutcomesMatch`,
`NothingEndsTwice`.
Every step of a run is one of three: the thread of control goes on to other work
(`GoesOn`), ends the run (`EndsRun`) or strands it (`Strands`). `WorkflowInv` says where
the thread can stand (at a top-level step or inside a branch, in the polling places only
at a polling step), that only a polling step that is waited for or tried again has
attempts, and that only the step the thread stands at is running. One lemma per kind of
step keeps the invariant, and one per handler says which kind it is.

`NothingEndsTwice` is the whole of `EndingsAreFinal`. That a run which ended stays as it
ended (`OutcomesStay`) follows from `WorkflowInv`: nothing is pending any more. That a
step ends once needs a second invariant, `Ordered`: as long as a run of a draft without
loops is not cancelled, nothing that lies ahead of the thread has ended. The thread is
at a step of the top level, and then neither that step nor anything nested in it has
ended, or it is inside a branch, and then the rest of the branch has not. A step that
is left has only rows under it written; its successors lie ahead of it, what lies ahead
of them lies ahead of it too (`AheadOfNext`), and without loops none of that is the
step itself, so all of it is untouched (`ClearStays`, with `UnderApart`: ids are
unique). `Ahead` is a least closed set, which spares the proof an induction over the
path. Only a retry comes back to a step, and the row it comes back to is queued.

*Only model-checked* are the liveness properties (`InFlightSettles`,
`WaitersAreServed`, `ExecutingIsAnswered`, `RunsEnd`, `AttemptsSettle`, `RunsReturn`,
`RequestsEnd`): the prover has no rules for fairness or ENABLED here. Every invariant
and every action property of a passing run, and the refinement, is a theorem; `TurnLock`
has no fairness, so its refinement is proved as a whole.

`SlotBound`, `StragglersAreSignalled`, `DuplicatesPointToOriginal`,
`WritesAreNotReplayed`, the shield of the open breakers and the type invariants of the
first two proof modules are proved and not checked by a run; the other type invariants
are conjuncts of checked and proved properties.

## Where the repository's text and its code disagree

Three have a run, and a finding with the quotation in `PROJECT.json`:

| Run | Statement | What the code does |
|---|---|---|
| `bg_executed` | the worker later executes an enqueued child | a run that `processQueue` marks running is no longer queued, so the worker never takes it, and it holds a slot (`background-runtime.ts:603`) |
| `disp_duplicate` | a duplicate key returns the previous result | the row is inserted before the lookup, and the UNIQUE key rejects it (`runtime-dispatcher.ts:188`) |
| `flow_late` | no transition from a terminal state; a cancelled run stays cancelled | a late dispatch result is applied without looking at the status (`workflow-runtime.ts:397`) |

The models contain the following disagreements too; the properties are stated so
that they hold beside them.

| Statement | What the code does |
|---|---|
| the trigger is "fired exactly once" at a terminal state (`background-runtime.ts:69`) | the coordinator's cancel writes the row only: no notification, no trigger, and the slot stays taken; a watchdog that finds the slot stale then writes `recovering` over the cancelled row (`background-runtime.ts:317`) |
| the worker recovers queued and running children after a restart (`background-child-restart.test.ts:4`) | `tick` reads queued rows only (`background-worker.ts:62`) |
| at most one turn per session (`session-busy-tracker.ts:4`) | messaging webhooks do not use the tracker (`messaging-webhooks.ts:271`); a processor that outlives its timer overlaps, too |
| an auto-continued turn perceives the result (`child-sessions.md:57`) | the notification is claimed before the turn, so the turn's own collection skips it (`background-notification-turn.ts:65`) |
| the answer to `ask_user` is delivered (`ask-user-tool.ts:4`) | a retry that finds the session busy returns for good (`ask-response-turn.ts:50`) |
| cancelling a task stops it (`cancel-modify-task-tool.ts:155`) | during plan generation there is no controller yet, and `isCancelled` is not read again: the cancelled child's kernel runs (`child-session-task-runtime.ts:691`) |
| the snapshot records the input of the run (`MODEL_INPUT_ARCHITECTURE.md:478`) | it is taken from `lastBuiltModelInput`, one field for all runs of a kernel (`agent-kernel.ts:212`) |
| a stream that emitted chunks is not replayed (`adapter.ts:301`) | the same provider is not asked again, but the catch around the loop goes on to the next provider, whose content follows the first one's (`adapter.ts:314`) |
| connector writes "always require explicit user approval" (`docs/security/permission-model.md:60`) | connector and admin tools are checked as `admin` (`tool-executor.ts:437`), which no mode that asks asks about (`permission-engine.ts:460`): without a policy they are allowed (`permission-engine.ts:512`); of the connectors only GitHub's asks itself, for comments (`github-connector.ts:239`) |
| `write_allowed`: "all operations auto-allowed, no approval needed" (`permissions/types.ts:10`) | the engine asks in it as in `ask_on_write` (`permission-engine.ts:461`) |
| `approve_once` makes a "precise grant" (`docs/security/permission-model.md:28`) | the resource is used as an unescaped regular expression (`permission-engine.ts:149`): it may cover other resources, and a name with operators in it need not cover itself |
| run workflows "on a cron schedule" (`docs/product/user-guide.md:104`) | the due time of a cron is its pattern (`event-trigger-runtime.ts:935`), which is also the key of the firing cache (`event-trigger-runtime.ts:318`): it fires once in the life of a process |
| cancel-active-run answers `cancelled` for the active run | a turn that threw leaves its row `initializing` (`processor-orchestration.ts:367`), and the route then cancels that |

Further behaviours the models show, for which no text says otherwise:

* The children of a `parallel_group` are looked up among the top-level steps, not
  found, and the rejected promise has no handler, which ends a Node process.
* A condition that fails under `continue` without a `falseNextStepId`, or whose
  target does not exist, leaves its run `running` with nothing to move it.
* `polling_wait` fails in the application as wired, since `api/context.ts` passes no
  wait-condition store; `retryPolicyV2` does not retry failed dispatches, since no
  recoverability is passed; a compensation hook fails, since the adapter knows no
  such action; steps inside a branch honour only `continue`.
* Workflow runs are not taken up after a restart.
* A refused stream counts twice against its breaker, and the second count makes it
  retryable.
* A dispatch that times out discards the results of tools of its batch that had already
  completed: the model is told that a write failed which succeeded
  (`runtime-dispatcher.ts:356`).
* `approval_request` with a decision writes the row of a pending approval and nothing
  else: no grant, no event, and a held action waits on.
* A grant whose resource is no regular expression makes every later check of its tool
  on a named resource throw, expired or not, until a grant read earlier covers the call.
* Archiving makes the steps of a planner run writable again for a late child:
  `TERMINAL_STATES` (`planner-runtime.ts:90`) does not hold `archived`.
* An event that is delivered again after a crash between its row and its action makes
  `append` throw, and the triggers behind it in the pass do not hear of it.

## What is not modelled

*Inside the modelled parts.* `registerTaskSpec` of the worker; retry counts beyond
their limit; the coordinator's planner, tool and workflow targets; ask expiry and
queries; `shutdown` of the workflow runtime; drafts that use one step id at two
places, where the code's lookups mix two rows; inputs, outputs and template
resolution of steps; backoff durations; planner checkpoints and plan patches, which
nothing writes; the launching of connector operations; the texts, prompts and token
counts of the kernel; all events and audit records other than the lifecycle events
of attempts. In the workflow runtime, a throw inside `handleStepCompletion`, which the
`.catch` behind its `.then` would treat as a failed dispatch, for the rows and the
definition exist, stores do not fail, and a loop of conditions alone, which recurses
until the stack is exhausted, is stepped through for ever instead; and the moment at
which `applyOnFailurePolicy` deletes the attempt count: the code does so after the
steps that follow synchronously, the model before, which differs only if these come
back to the step through a loop and it fails again at once (a poll with `timeoutMs`
0). In the kernel, a throw between the acceptance of an internal handler's result and
the end of its `try` (`agent-kernel.ts:326`), which would commit a second result:
the handlers are the planner's and return plain records, `commitTranscript` only
pushes, and the stream's write callback catches. In the async integration, events
whose `eventType` and `status` differ (`async-integration.ts:233`, `:154`), and an
operation id that is the pattern of another owner's active condition
(`async-integration.ts:134`). The approval rows the GitHub connector writes for
itself. A process that ends inside the trigger writes that follow an approval is
in `EventTriggers` and not again in `Approvals`. `pendingActionId` of an approval is
set by no caller; the path is modelled (`AskForHeld`) because the route serves it.
Each is noted at its component in `PROJECT.json`.

*Parts without a caller in the application*: the retry executor, timeout policy,
recovery manager and orphan scanner; the dead-letter queue, whose route sets a status
nothing reads; `checkPermissionWithJudge` and `approval-handler.ts`; `handleWebhook`
of the trigger runtime, and the rows of `routes/triggers.ts`, which nothing evaluates;
managed browser sessions, which nothing creates. They would be modelled once
something uses them.

*Out of reach or without protocol*: ranking and summarising of memory, search,
connectors, OAuth and MCP clients, format conversion, prompts, gateway, API plumbing,
SQL and migrations, observability, file handling, command line, the web console. They
are the larger part of the repository's lines. Two processes on one database are
outside the model, as the code has no provision for them.

## Plan

Modules worth adding: OAuth token refresh (`connectors/oauth/`), the round budget and
the rate limiter of the search subagent, and browser sessions with their takeover
leases once they are created somewhere.

Proofs: what is left is liveness. Its safety side is there (`RunsAreDriven`: a run has
something to drive it; `NothingEndsTwice`: no step comes twice; `ProvidersAreSpared`:
attempts are bounded); to conclude that runs and requests end needs rules for fairness.
