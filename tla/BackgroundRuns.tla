--------------------------- MODULE BackgroundRuns ---------------------------
(***************************************************************************)
(* Background subagent runs: BackgroundRuntime (the table of runs, its     *)
(* concurrency slots and its terminal notifications), the polling          *)
(* BackgroundSubagentWorker that executes queued runs, and the operations  *)
(* of the CancellationCoordinator that write the same table.               *)
(*                                                                         *)
(* JavaScript runs one synchronous block at a time, so every action is one *)
(* block between two awaits.  The two synchronous loops (the worker's tick *)
(* over the runs it takes, the watchdog's over the runs it watches) take   *)
(* one step per run; `loop` keeps every other action out until they end.   *)
(* Rows survive a restart; runningRuns, the timestamps and the worker do   *)
(* not.                                                                    *)
(***************************************************************************)
EXTENDS Integers, FiniteSets

CONSTANTS
  Runs,                 \* background run identifiers
  SessionRuns,          \* the runs enqueued with a (non-empty) sessionId
  Priority,             \* Runs -> Int
  MaxConcurrentRuns,    \* config.maxConcurrentRuns
  WorkerSlots,          \* BackgroundSubagentWorker.getMaxConcurrent()
  MaxRecoveryAttempts,  \* config.maxRecoveryAttempts
  MaxRestarts           \* bound: process restarts

ASSUME RunsAssumption == IsFiniteSet(Runs) /\ SessionRuns \subseteq Runs
ASSUME PriorityAssumption == Priority \in [Runs -> Int]
ASSUME LimitsAssumption ==
  /\ MaxConcurrentRuns \in Nat
  /\ WorkerSlots \in Nat
  /\ MaxRecoveryAttempts \in Nat \ {0}
  /\ MaxRestarts \in Nat

VARIABLES
  status,       \* background_runs.status; "absent" before the row exists
  retryCount,   \* background_runs.retry_count, saturated at MaxRecoveryAttempts
  notif,        \* background_runs.notification_type
  hasSpec,      \* rows with a valid persisted task spec
  due,          \* rows whose scheduledAt is absent or past
  overdue,      \* rows whose expiresAt is past
  runningRuns,  \* BackgroundRuntimeImpl.runningRuns
  stale,        \* checkpointTimestamps older than watchdogTimeoutMs
  executing,    \* the worker's runs awaiting executeWithRuntime
  rejected,     \* the worker's runs whose startBackgroundRun rejected
  loop,         \* the synchronous loop in progress
  todo,         \* the runs that loop has still to visit
  triggers,     \* how often the parentTurnTrigger fired (history)
  restarts      \* process restarts so far (history)

rowVars == <<status, retryCount, notif, hasSpec, due, overdue>>
memVars == <<runningRuns, stale, executing, rejected, loop, todo>>
vars == <<status, retryCount, notif, hasSpec, due, overdue,
          runningRuns, stale, executing, rejected, loop, todo, triggers, restarts>>

NotificationTypes == {"completed", "failed", "cancelled"}
Statuses == NotificationTypes \cup
            {"absent", "queued", "running", "recovering", "paused", "expired"}

\* (Definitions named Faulty... are wrong variants of the definition that follows
\* them; they show that the properties below can fail.)

FaultyIsTerminal(s) == s \in {"completed", "failed"}

\* BackgroundRuntimeImpl.isTerminal: "expired" is not one of them.
IsTerminal(s) == s \in {"completed", "failed", "cancelled"}

FaultyIsTerminalForCoordinator(s) == s \in {"cancelled", "expired"}

\* CancellationCoordinator.isTerminalStatus, on the statuses a run can have.
IsTerminalForCoordinator(s) == s \in {"completed", "failed", "cancelled", "expired"}

TypeOK ==
  /\ status \in [Runs -> Statuses]
  /\ retryCount \in [Runs -> 0..MaxRecoveryAttempts]
  /\ notif \in [Runs -> NotificationTypes \cup {"none"}]
  /\ hasSpec \subseteq Runs /\ due \subseteq Runs /\ overdue \subseteq Runs
  /\ runningRuns \subseteq Runs /\ stale \subseteq Runs
  /\ executing \subseteq Runs /\ rejected \subseteq Runs
  /\ loop \in {"none", "tick", "watchdog"} /\ todo \subseteq Runs
  /\ triggers \in [Runs -> Nat]
  /\ restarts \in 0..MaxRestarts

Init ==
  /\ status = [r \in Runs |-> "absent"]
  /\ retryCount = [r \in Runs |-> 0]
  /\ notif = [r \in Runs |-> "none"]
  /\ hasSpec = {} /\ due = {} /\ overdue = {}
  /\ runningRuns = {} /\ stale = {} /\ executing = {} /\ rejected = {}
  /\ loop = "none" /\ todo = {}
  /\ triggers = [r \in Runs |-> 0]
  /\ restarts = 0

-----------------------------------------------------------------------------
(* Helpers of BackgroundRuntime *)

SmallerOf(m, n) == IF m < n THEN m ELSE n

\* What sort-by-priority then slice(0, n) may keep of a set of runs.  Ties are
\* broken by row order in the code and by choice here.
TopPriority(Q, n) ==
  {S \in SUBSET Q : /\ Cardinality(S) = SmallerOf(n, Cardinality(Q))
                    /\ \A a \in S, b \in Q \ S : Priority[a] >= Priority[b]}

QueuedAndDue(st) == {r \in Runs : st[r] = "queued" /\ r \in due}

\* processQueue: the queued runs it starts, given the rows and the used slots.
ProcessQueue(st, used) ==
  LET available == MaxConcurrentRuns - Cardinality(used)
  IN IF available <= 0 THEN {{}} ELSE TopPriority(QueuedAndDue(st), available)

FaultySlotsAfter(r) == runningRuns

SlotsAfter(r) == runningRuns \ {r}

FaultyNotificationAfter(r, outcome) ==
  [notif EXCEPT ![r] = IF r \in SessionRuns THEN outcome ELSE @]

\* persistTerminalNotification
NotificationAfter(r, outcome) ==
  [notif EXCEPT ![r] = IF @ = "none" THEN outcome ELSE @]

\* emitParentTurnTrigger
TriggersAfter(r) == [triggers EXCEPT ![r] = IF r \in SessionRuns THEN @ + 1 ELSE @]

\* The common body of completeBackgroundRun, failBackgroundRun and
\* cancelBackgroundRun after their guards: write the status, free the slot,
\* persist the notification unless one is there, fire the trigger, and start
\* queued runs in the slots now free.
Finish(r, outcome) ==
  LET st == [status EXCEPT ![r] = outcome]
      used == SlotsAfter(r)
  IN \E S \in ProcessQueue(st, used) :
       /\ status' = [q \in Runs |-> IF q \in S THEN "running" ELSE st[q]]
       /\ runningRuns' = used \cup S
       /\ stale' = stale \ (S \cup {r})
       /\ notif' = NotificationAfter(r, outcome)
       /\ triggers' = TriggersAfter(r)

RuntimeUnchanged == UNCHANGED <<status, runningRuns, stale, notif, triggers>>

FaultyFailBackgroundRun(r) == Finish(r, "failed")

FailBackgroundRun(r) ==
  IF IsTerminal(status[r]) THEN RuntimeUnchanged ELSE Finish(r, "failed")

\* startBackgroundRun after its guards.
MarkRunning(r) ==
  /\ status' = [status EXCEPT ![r] = "running"]
  /\ runningRuns' = runningRuns \cup {r}
  /\ stale' = stale \ {r}
  /\ UNCHANGED <<notif, triggers>>

SlotsFull == Cardinality(runningRuns) >= MaxConcurrentRuns

-----------------------------------------------------------------------------
(* Callers of BackgroundRuntime: tools, the dispatcher's adapter *)

Idle == loop = "none"

EnqueueBackgroundRun(r, spec, scheduled) ==
  /\ Idle /\ status[r] = "absent"
  /\ status' = [status EXCEPT ![r] = "queued"]
  /\ hasSpec' = IF spec THEN hasSpec \cup {r} ELSE hasSpec
  /\ due' = IF scheduled THEN due ELSE due \cup {r}
  /\ UNCHANGED <<retryCount, notif, overdue, memVars, triggers, restarts>>

\* resume_background_subagent: starts a queued run outside the worker; with no
\* free slot startBackgroundRun returns without a change.
ResumeBackgroundSubagent(r) ==
  /\ Idle /\ status[r] = "queued" /\ ~SlotsFull
  /\ MarkRunning(r)
  /\ UNCHANGED <<retryCount, hasSpec, due, overdue, executing, rejected, loop, todo, restarts>>

CancelBackgroundRun(r) ==
  /\ Idle /\ status[r] \in {"queued", "running", "recovering"}
  /\ Finish(r, "cancelled")
  /\ UNCHANGED <<retryCount, hasSpec, due, overdue, executing, rejected, loop, todo, restarts>>

CheckpointBackgroundRun(r) ==
  /\ Idle /\ status[r] \in {"running", "recovering"}
  /\ stale' = stale \ {r}
  /\ UNCHANGED <<rowVars, runningRuns, executing, rejected, loop, todo, triggers, restarts>>

RecoverFromCheckpoint(r) ==
  /\ Idle /\ status[r] \in {"running", "recovering"}
  /\ status' = [status EXCEPT ![r] = "recovering"]
  /\ UNCHANGED <<retryCount, notif, hasSpec, due, overdue, memVars, triggers, restarts>>

-----------------------------------------------------------------------------
(* CancellationCoordinator: writes the row and nothing else *)

CoordinatorWrites(r, s) ==
  /\ Idle
  /\ status' = [status EXCEPT ![r] = s]
  /\ UNCHANGED <<retryCount, notif, hasSpec, due, overdue, memVars, triggers, restarts>>

CoordinatorCancel(r) ==
  /\ status[r] \in {"queued", "running", "recovering"}
  /\ CoordinatorWrites(r, "cancelled")

CoordinatorPause(r) ==
  /\ status[r] # "absent" /\ ~IsTerminalForCoordinator(status[r])
  /\ CoordinatorWrites(r, "paused")

CoordinatorResume(r) ==
  /\ status[r] # "absent" /\ ~IsTerminalForCoordinator(status[r])
  /\ CoordinatorWrites(r, "running")

-----------------------------------------------------------------------------
(* watchdogTick *)

WatchdogBegin ==
  /\ Idle
  /\ loop' = "watchdog" /\ todo' = runningRuns \cap stale
  /\ UNCHANGED <<rowVars, runningRuns, stale, executing, rejected, triggers, restarts>>

\* One stale run: count the attempt, then give up on it or mark it recovering,
\* whatever its row says by now.
WatchdogVisit(r) ==
  LET attempts == SmallerOf(retryCount[r] + 1, MaxRecoveryAttempts)
  IN /\ loop = "watchdog" /\ r \in todo
     /\ todo' = todo \ {r}
     /\ retryCount' = [retryCount EXCEPT ![r] = attempts]
     /\ IF attempts >= MaxRecoveryAttempts
          THEN FailBackgroundRun(r)
          ELSE /\ status' = [status EXCEPT ![r] = "recovering"]
               /\ UNCHANGED <<runningRuns, stale, notif, triggers>>
     /\ UNCHANGED <<hasSpec, due, overdue, executing, rejected, loop, restarts>>

ExpiredStatus == "expired"

\* processExpiredRuns closes the tick.
WatchdogEnd ==
  /\ loop = "watchdog" /\ todo = {}
  /\ loop' = "none"
  /\ status' = [r \in Runs |-> IF status[r] = "queued" /\ r \in overdue
                                 THEN ExpiredStatus ELSE status[r]]
  /\ UNCHANGED <<retryCount, notif, hasSpec, due, overdue,
                 runningRuns, stale, executing, rejected, todo, triggers, restarts>>

-----------------------------------------------------------------------------
(* BackgroundSubagentWorker *)

\* tick awaits every run it took, so it is processing while one is in flight.
InFlight == executing \cup rejected

TickBegin ==
  LET available == WorkerSlots - Cardinality(runningRuns)
  IN /\ Idle /\ InFlight = {}
     /\ available > 0 /\ QueuedAndDue(status) # {}
     /\ \E S \in TopPriority(QueuedAndDue(status), available) :
          loop' = "tick" /\ todo' = S
     /\ UNCHANGED <<rowVars, runningRuns, stale, executing, rejected, triggers, restarts>>

\* processRun up to its first await: a run without a task spec fails at once;
\* a run that is no longer queued makes startBackgroundRun reject; with no slot
\* left startBackgroundRun returns and the run is executed all the same.
TickTakes(r) ==
  /\ loop = "tick" /\ r \in todo
  /\ \A q \in todo : Priority[r] >= Priority[q]
  /\ todo' = todo \ {r}
  /\ loop' = IF todo' = {} THEN "none" ELSE loop
  /\ \/ /\ r \notin hasSpec
        /\ FailBackgroundRun(r)
        /\ UNCHANGED <<executing, rejected>>
     \/ /\ r \in hasSpec /\ status[r] # "queued"
        /\ rejected' = rejected \cup {r}
        /\ RuntimeUnchanged /\ UNCHANGED executing
     \/ /\ r \in hasSpec /\ status[r] = "queued"
        /\ executing' = executing \cup {r}
        /\ IF SlotsFull THEN RuntimeUnchanged ELSE MarkRunning(r)
        /\ UNCHANGED rejected
  /\ UNCHANGED <<retryCount, hasSpec, due, overdue, restarts>>

FaultyStartRejected(r) ==
  /\ Idle /\ r \in rejected
  /\ rejected' = rejected \ {r}
  /\ RuntimeUnchanged
  /\ UNCHANGED <<retryCount, hasSpec, due, overdue, executing, loop, todo, restarts>>

\* The catch block of processRun after startBackgroundRun rejected.
StartRejected(r) ==
  /\ Idle /\ r \in rejected
  /\ rejected' = rejected \ {r}
  /\ FailBackgroundRun(r)
  /\ UNCHANGED <<retryCount, hasSpec, due, overdue, executing, loop, todo, restarts>>

\* finishRun, with processRun's catch around it: completing or cancelling a
\* row in a state that does not allow it throws, and the catch fails the run.
FinishRun(r, outcome) ==
  LET allowed == IF outcome = "completed" THEN {"running", "recovering"}
                 ELSE {"queued", "running", "recovering"}
  IN IF outcome # "failed" /\ status[r] \in allowed
       THEN Finish(r, outcome)
       ELSE FailBackgroundRun(r)

ExecutionEnds(r, outcome) ==
  /\ Idle /\ r \in executing
  /\ executing' = executing \ {r}
  /\ FinishRun(r, outcome)
  /\ UNCHANGED <<retryCount, hasSpec, due, overdue, rejected, loop, todo, restarts>>

-----------------------------------------------------------------------------
(* Time and restarts *)

ScheduleArrives(r) ==
  /\ Idle /\ status[r] = "queued" /\ r \notin due
  /\ due' = due \cup {r}
  /\ UNCHANGED <<status, retryCount, notif, hasSpec, overdue, memVars, triggers, restarts>>

ExpiryPasses(r) ==
  /\ Idle /\ status[r] = "queued" /\ r \notin overdue
  /\ overdue' = overdue \cup {r}
  /\ UNCHANGED <<status, retryCount, notif, hasSpec, due, memVars, triggers, restarts>>

CheckpointAges(r) ==
  /\ Idle /\ r \in runningRuns /\ r \notin stale
  /\ stale' = stale \cup {r}
  /\ UNCHANGED <<rowVars, runningRuns, executing, rejected, loop, todo, triggers, restarts>>

\* A process restart between two blocks: only the rows survive.
Restart ==
  /\ Idle /\ restarts < MaxRestarts
  /\ restarts' = restarts + 1
  /\ runningRuns' = {} /\ stale' = {} /\ executing' = {} /\ rejected' = {}
  /\ UNCHANGED <<rowVars, loop, todo, triggers>>

-----------------------------------------------------------------------------
CallerStep(r) ==
  \/ \E spec, scheduled \in BOOLEAN : EnqueueBackgroundRun(r, spec, scheduled)
  \/ ResumeBackgroundSubagent(r)
  \/ CancelBackgroundRun(r)
  \/ CheckpointBackgroundRun(r)
  \/ RecoverFromCheckpoint(r)
  \/ CoordinatorCancel(r)
  \/ CoordinatorPause(r)
  \/ CoordinatorResume(r)

TimeStep(r) == ScheduleArrives(r) \/ ExpiryPasses(r) \/ CheckpointAges(r)

WatchdogStep == WatchdogBegin \/ (\E r \in Runs : WatchdogVisit(r)) \/ WatchdogEnd

WorkerStep ==
  \/ TickBegin
  \/ \E r \in Runs : \/ TickTakes(r)
                     \/ StartRejected(r)
                     \/ \E o \in NotificationTypes : ExecutionEnds(r, o)

Next ==
  \/ \E r \in Runs : CallerStep(r) \/ TimeStep(r)
  \/ WatchdogStep
  \/ WorkerStep
  \/ Restart

Spec == Init /\ [][Next]_vars

\* The event loop runs every block that becomes ready, the poll timer keeps
\* firing and a child run ends (it has a timeout of its own).  `Idle` comes and
\* goes with the synchronous loops, so what waits for it needs strong fairness.
Fairness ==
  /\ WF_vars(\E r \in Runs : WatchdogVisit(r))
  /\ WF_vars(WatchdogEnd)
  /\ WF_vars(\E r \in Runs : TickTakes(r))
  /\ SF_vars(TickBegin)
  /\ \A r \in Runs : /\ SF_vars(StartRejected(r))
                     /\ SF_vars(\E o \in NotificationTypes : ExecutionEnds(r, o))

FairSpec == Spec /\ Fairness

-----------------------------------------------------------------------------
(* Properties *)

\* runningRuns never holds more than maxConcurrentRuns runs, although it grows
\* from three places: the worker, processQueue at the end of every terminal
\* transition (also in the middle of a tick), and resume_background_subagent.
SlotBound == Cardinality(runningRuns) <= MaxConcurrentRuns

\* The durable notification tells how the run really ended: once it is saved,
\* the row's status is the notification's type and stays so, whatever the
\* worker, the watchdog, a late cancel or a restart do afterwards.
NotificationMatchesOutcome ==
  \A r \in Runs : notif[r] # "none" => status[r] = notif[r]

\* parentTurnTrigger fires at most once per run, and exactly for the runs of a
\* session whose notification is saved: no auto-continue turn without a pending
\* notification to claim, no second turn for one notification.
TriggerOncePerNotification ==
  \A r \in Runs :
    triggers[r] = IF notif[r] # "none" /\ r \in SessionRuns THEN 1 ELSE 0

\* A run that is completed or failed has told its parent.  (A cancelled one may
\* not have: the coordinator writes the row and tells nobody.)
FinishedIsNotified ==
  \A r \in Runs : status[r] \in {"completed", "failed"} => notif[r] = status[r]

\* A slot may outlive its run in one way only: the coordinator cancelled the row
\* and nobody was told.  Every terminal state the runtime writes frees the slot.
LeakedSlotIsSilentCancel ==
  \A r \in runningRuns :
    /\ notif[r] = "none"
    /\ IsTerminal(status[r]) => status[r] = "cancelled"

\* A completed or failed run never changes its status and no notification is
\* ever rewritten, by any block of any component.
FinalOutcomeKept ==
  [][\A r \in Runs :
       /\ status[r] \in {"completed", "failed"} => status'[r] = status[r]
       /\ notif[r] # "none" => notif'[r] = notif[r]]_vars

\* Unless the process restarts, every run the worker took reaches a terminal
\* state, also when it was paused, expired, cancelled or never marked running
\* meanwhile.
InFlightSettles ==
  \A r \in Runs : r \in InFlight /\ restarts = MaxRestarts ~> IsTerminal(status[r])

-----------------------------------------------------------------------------
(* What a comment says of the program and the code does not do *)

\* "the worker later creates the child session + a NEW subagent_runs attempt,
\* links them and executes the child": a launched run that is due is executed,
\* or someone cancels, fails, pauses or expires it.
EnqueuedChildIsExecuted ==
  \A r \in Runs :
    status[r] = "queued" /\ r \in due
      ~> r \in executing \/ status[r] \notin {"queued", "running"}

=============================================================================
