------------------------ MODULE BackgroundRunsProofs ------------------------
(***************************************************************************)
(* Proofs about BackgroundRuns, for any set of runs and any limits.        *)
(*                                                                         *)
(* None of the safety properties is inductive alone.  A notification stays *)
(* true to its row only because no block that writes rows blindly (the     *)
(* watchdog) can reach a notified run, which holds because every notified  *)
(* run has left runningRuns; so the properties are proved together.        *)
(***************************************************************************)
EXTENDS BackgroundRuns, TLAPS, FiniteSetTheorems

\* The watchdog's loop only holds runs that still have a slot.
WatchedAreRunning == loop = "watchdog" => todo \subseteq runningRuns

OutcomeInv ==
  /\ NotificationMatchesOutcome
  /\ TriggerOncePerNotification
  /\ FinishedIsNotified
  /\ LeakedSlotIsSilentCancel
  /\ WatchedAreRunning

IInv == TypeOK /\ OutcomeInv

-----------------------------------------------------------------------------
\* Whatever processQueue starts is a queued run.
LEMMA ProcessQueueStartsQueued ==
  ASSUME NEW st, NEW used, NEW S \in ProcessQueue(st, used)
  PROVE  S \subseteq Runs /\ \A q \in S : st[q] = "queued"
  BY DEF ProcessQueue, TopPriority, QueuedAndDue

\* Finishing a run that has not ended preserves the invariant: the run gets its
\* one notification and leaves runningRuns; the runs started in its place were
\* queued and therefore never notified.
LEMMA FinishPreserves ==
  ASSUME TypeOK, NotificationMatchesOutcome, TriggerOncePerNotification,
         FinishedIsNotified, LeakedSlotIsSilentCancel,
         NEW r \in Runs, NEW outcome \in NotificationTypes,
         ~IsTerminal(status[r]), Finish(r, outcome)
  PROVE  /\ status' \in [Runs -> Statuses]
         /\ notif' \in [Runs -> NotificationTypes \cup {"none"}]
         /\ triggers' \in [Runs -> Nat]
         /\ runningRuns' \subseteq Runs /\ stale' \subseteq Runs
         /\ runningRuns \ {r} \subseteq runningRuns'
         /\ NotificationMatchesOutcome' /\ TriggerOncePerNotification'
         /\ FinishedIsNotified' /\ LeakedSlotIsSilentCancel'
         /\ \A q \in Runs : status[q] \in {"completed", "failed"} => status'[q] = status[q]
         /\ \A q \in Runs : notif[q] # "none" => notif'[q] = notif[q]
<1> DEFINE st == [status EXCEPT ![r] = outcome]
           used == runningRuns \ {r}
<1>1. PICK S \in ProcessQueue(st, used) :
        /\ status' = [q \in Runs |-> IF q \in S THEN "running" ELSE st[q]]
        /\ runningRuns' = used \cup S
        /\ stale' = stale \ (S \cup {r})
        /\ notif' = [notif EXCEPT ![r] = IF @ = "none" THEN outcome ELSE @]
        /\ triggers' = [triggers EXCEPT ![r] = IF r \in SessionRuns THEN @ + 1 ELSE @]
  BY DEF Finish, SlotsAfter, NotificationAfter, TriggersAfter
<1>2. /\ S \subseteq Runs /\ r \notin S
      /\ \A q \in S : status[q] = "queued"
  <2>1. S \subseteq Runs /\ \A q \in S : st[q] = "queued"
    BY ProcessQueueStartsQueued
  <2> QED BY <2>1 DEF TypeOK, NotificationTypes
<1>3. notif[r] = "none"
  BY DEF NotificationMatchesOutcome, TypeOK, IsTerminal, NotificationTypes
<1>4. \A q \in S : notif[q] = "none"
  BY <1>2 DEF NotificationMatchesOutcome, TypeOK, NotificationTypes
<1>5. /\ status'[r] = outcome /\ notif'[r] = outcome
      /\ \A q \in S : status'[q] = "running" /\ notif'[q] = "none"
      /\ \A q \in Runs \ (S \cup {r}) : status'[q] = status[q]
      /\ \A q \in Runs \ {r} : notif'[q] = notif[q] /\ triggers'[q] = triggers[q]
      /\ triggers'[r] = IF r \in SessionRuns THEN triggers[r] + 1 ELSE triggers[r]
  BY <1>1, <1>2, <1>3, <1>4 DEF TypeOK
<1>6. /\ status' \in [Runs -> Statuses]
      /\ notif' \in [Runs -> NotificationTypes \cup {"none"}]
      /\ triggers' \in [Runs -> Nat]
      /\ runningRuns' \subseteq Runs /\ stale' \subseteq Runs
  BY <1>1, <1>2 DEF TypeOK, Statuses
<1>7. NotificationMatchesOutcome' /\ FinishedIsNotified'
  BY <1>2, <1>4, <1>5 DEF NotificationMatchesOutcome, FinishedIsNotified, NotificationTypes
<1>8. TriggerOncePerNotification'
  BY <1>3, <1>5 DEF TriggerOncePerNotification, NotificationTypes, TypeOK
<1>9. LeakedSlotIsSilentCancel'
  BY <1>1, <1>2, <1>4, <1>5 DEF LeakedSlotIsSilentCancel, IsTerminal, TypeOK
<1>10. /\ \A q \in Runs : status[q] \in {"completed", "failed"} => status'[q] = status[q]
       /\ \A q \in Runs : notif[q] # "none" => notif'[q] = notif[q]
  BY <1>2, <1>3, <1>5 DEF IsTerminal
<1> QED BY <1>1, <1>6, <1>7, <1>8, <1>9, <1>10

\* The initial states satisfy the invariant.
LEMMA InitIInv == Init => IInv
  BY LimitsAssumption, RunsAssumption
  DEF Init, IInv, OutcomeInv, TypeOK, NotificationMatchesOutcome, TriggerOncePerNotification,
         FinishedIsNotified, LeakedSlotIsSilentCancel, WatchedAreRunning, Statuses,
         NotificationTypes, IsTerminal

\* The same for failBackgroundRun, whose early return changes nothing.
LEMMA FailPreserves ==
  ASSUME TypeOK, NotificationMatchesOutcome, TriggerOncePerNotification,
         FinishedIsNotified, LeakedSlotIsSilentCancel,
         NEW r \in Runs, FailBackgroundRun(r)
  PROVE  /\ status' \in [Runs -> Statuses]
         /\ notif' \in [Runs -> NotificationTypes \cup {"none"}]
         /\ triggers' \in [Runs -> Nat]
         /\ runningRuns' \subseteq Runs /\ stale' \subseteq Runs
         /\ runningRuns \ {r} \subseteq runningRuns'
         /\ NotificationMatchesOutcome' /\ TriggerOncePerNotification'
         /\ FinishedIsNotified' /\ LeakedSlotIsSilentCancel'
         /\ \A q \in Runs : status[q] \in {"completed", "failed"} => status'[q] = status[q]
         /\ \A q \in Runs : notif[q] # "none" => notif'[q] = notif[q]
<1>1. CASE IsTerminal(status[r])
  BY <1>1 DEF FailBackgroundRun, RuntimeUnchanged, TypeOK, NotificationMatchesOutcome,
     TriggerOncePerNotification, FinishedIsNotified, LeakedSlotIsSilentCancel
<1>2. CASE ~IsTerminal(status[r])
  <2>1. Finish(r, "failed") /\ "failed" \in NotificationTypes
    BY <1>2 DEF FailBackgroundRun, NotificationTypes
  <2> QED BY <1>2, <2>1, FinishPreserves
<1> QED BY <1>1, <1>2

\* The part of the invariant about rows and slots does not depend on the
\* variables that these blocks leave alone.
LEMMA Untouched ==
  ASSUME IInv, UNCHANGED <<status, notif, triggers, runningRuns>>
  PROVE  /\ NotificationMatchesOutcome' /\ TriggerOncePerNotification'
         /\ FinishedIsNotified' /\ LeakedSlotIsSilentCancel'
         /\ \A q \in Runs : status[q] \in {"completed", "failed"} => status'[q] = status[q]
         /\ \A q \in Runs : notif[q] # "none" => notif'[q] = notif[q]
  BY DEF IInv, OutcomeInv, NotificationMatchesOutcome, TriggerOncePerNotification,
         FinishedIsNotified, LeakedSlotIsSilentCancel

\* A block that writes one row blindly is safe when the run was not notified and
\* the new status is not one that promises a notification.
LEMMA RowWritePreserves ==
  ASSUME TypeOK, NotificationMatchesOutcome, TriggerOncePerNotification,
         FinishedIsNotified, LeakedSlotIsSilentCancel,
         NEW r \in Runs, NEW s \in Statuses \ {"completed", "failed"},
         notif[r] = "none",
         status' = [status EXCEPT ![r] = s],
         UNCHANGED <<notif, triggers>>,
         runningRuns' \subseteq runningRuns \cup {r}
  PROVE  /\ status' \in [Runs -> Statuses]
         /\ NotificationMatchesOutcome' /\ TriggerOncePerNotification'
         /\ FinishedIsNotified' /\ LeakedSlotIsSilentCancel'
         /\ \A q \in Runs : status[q] \in {"completed", "failed"} => status'[q] = status[q]
         /\ \A q \in Runs : notif[q] # "none" => notif'[q] = notif[q]
  BY DEF TypeOK, NotificationMatchesOutcome, TriggerOncePerNotification, FinishedIsNotified,
         LeakedSlotIsSilentCancel, IsTerminal

\* A run whose row is in none of the ended states was never notified.
LEMMA LiveIsUnnotified ==
  ASSUME TypeOK, NotificationMatchesOutcome, NEW r \in Runs, ~IsTerminal(status[r])
  PROVE  notif[r] = "none"
  BY DEF TypeOK, NotificationMatchesOutcome, IsTerminal, NotificationTypes

KeepsOutcomes ==
  /\ \A q \in Runs : status[q] \in {"completed", "failed"} => status'[q] = status[q]
  /\ \A q \in Runs : notif[q] # "none" => notif'[q] = notif[q]

\* Every step preserves the invariant and keeps every final outcome.
LEMMA NextPreserves ==
  ASSUME IInv, [Next]_vars
  PROVE  IInv' /\ KeepsOutcomes
<1> USE LimitsAssumption, RunsAssumption
<1>0. /\ TypeOK /\ NotificationMatchesOutcome /\ TriggerOncePerNotification
      /\ FinishedIsNotified /\ LeakedSlotIsSilentCancel /\ WatchedAreRunning
  BY DEF IInv, OutcomeInv
<1> DEFINE Goal == IInv' /\ KeepsOutcomes
<1>1. ASSUME NEW r \in Runs, NEW spec \in BOOLEAN, NEW scheduled \in BOOLEAN,
             EnqueueBackgroundRun(r, spec, scheduled)
      PROVE  Goal
  <2>1. notif[r] = "none" /\ status' = [status EXCEPT ![r] = "queued"]
    BY <1>0, <1>1, LiveIsUnnotified DEF EnqueueBackgroundRun, IsTerminal
  <2>2. "queued" \in Statuses \ {"completed", "failed"}
    BY DEF Statuses
  <2>3. UNCHANGED <<retryCount, notif, overdue, memVars, triggers, restarts>>
        /\ hasSpec' \subseteq Runs /\ due' \subseteq Runs
    BY <1>0, <1>1 DEF EnqueueBackgroundRun, TypeOK
  <2> QED
    BY <1>0, <2>1, <2>2, <2>3, RowWritePreserves
    DEF IInv, OutcomeInv, KeepsOutcomes, TypeOK, WatchedAreRunning, memVars
<1>2. ASSUME NEW r \in Runs, ResumeBackgroundSubagent(r)
      PROVE  Goal
  <2>1. notif[r] = "none"
    BY <1>0, <1>2, LiveIsUnnotified DEF ResumeBackgroundSubagent, IsTerminal
  <2>2. "running" \in Statuses \ {"completed", "failed"}
    BY DEF Statuses
  <2> QED
    BY <1>0, <1>2, <2>1, <2>2, RowWritePreserves
    DEF ResumeBackgroundSubagent, MarkRunning, IInv, OutcomeInv, KeepsOutcomes, TypeOK,
        WatchedAreRunning
<1>3. ASSUME NEW r \in Runs, CancelBackgroundRun(r)
      PROVE  Goal
  <2>1. "cancelled" \in NotificationTypes /\ ~IsTerminal(status[r]) /\ Finish(r, "cancelled")
    BY <1>3 DEF CancelBackgroundRun, IsTerminal, NotificationTypes
  <2>2. Idle /\ UNCHANGED <<retryCount, hasSpec, due, overdue, executing, rejected, loop, todo, restarts>>
    BY <1>3 DEF CancelBackgroundRun
  <2> QED
    BY <1>0, <2>1, <2>2, FinishPreserves
    DEF IInv, OutcomeInv, KeepsOutcomes, TypeOK, WatchedAreRunning, Idle
<1>4. ASSUME NEW r \in Runs, CheckpointBackgroundRun(r)
      PROVE  Goal
  BY <1>0, <1>4, Untouched
  DEF CheckpointBackgroundRun, rowVars, IInv, OutcomeInv, KeepsOutcomes, TypeOK, WatchedAreRunning
<1>5. ASSUME NEW r \in Runs, RecoverFromCheckpoint(r)
      PROVE  Goal
  <2>1. notif[r] = "none"
    BY <1>0, <1>5, LiveIsUnnotified DEF RecoverFromCheckpoint, IsTerminal
  <2>2. "recovering" \in Statuses \ {"completed", "failed"}
    BY DEF Statuses
  <2> QED
    BY <1>0, <1>5, <2>1, <2>2, RowWritePreserves
    DEF RecoverFromCheckpoint, memVars, IInv, OutcomeInv, KeepsOutcomes, TypeOK, WatchedAreRunning
<1>6. ASSUME NEW r \in Runs, CoordinatorCancel(r) \/ CoordinatorPause(r) \/ CoordinatorResume(r)
      PROVE  Goal
  <2>1. notif[r] = "none"
    BY <1>0, <1>6, LiveIsUnnotified
    DEF CoordinatorCancel, CoordinatorPause, CoordinatorResume, IsTerminal, IsTerminalForCoordinator
  <2>2. PICK s \in Statuses \ {"completed", "failed"} : CoordinatorWrites(r, s)
    BY <1>6 DEF CoordinatorCancel, CoordinatorPause, CoordinatorResume, Statuses, NotificationTypes
  <2> QED
    BY <1>0, <2>1, <2>2, RowWritePreserves
    DEF CoordinatorWrites, memVars, IInv, OutcomeInv, KeepsOutcomes, TypeOK, WatchedAreRunning
<1>7. ASSUME NEW r \in Runs, TimeStep(r)
      PROVE  Goal
  <2>1. UNCHANGED <<status, notif, triggers, runningRuns, loop, todo>>
    BY <1>7 DEF TimeStep, ScheduleArrives, ExpiryPasses, CheckpointAges, rowVars, memVars
  <2>2. TypeOK'
    BY <1>0, <1>7 DEF TimeStep, ScheduleArrives, ExpiryPasses, CheckpointAges, rowVars, memVars, TypeOK
  <2> QED BY <1>0, <2>1, <2>2, Untouched DEF IInv, OutcomeInv, KeepsOutcomes, WatchedAreRunning
<1>8. ASSUME WatchdogBegin
      PROVE  Goal
  BY <1>0, <1>8, Untouched
  DEF WatchdogBegin, rowVars, IInv, OutcomeInv, KeepsOutcomes, TypeOK, WatchedAreRunning
<1>9. ASSUME NEW r \in Runs, WatchdogVisit(r)
      PROVE  Goal
  <2> DEFINE attempts == SmallerOf(retryCount[r] + 1, MaxRecoveryAttempts)
  <2>1. /\ loop = "watchdog" /\ r \in todo
        /\ todo' = todo \ {r}
        /\ retryCount' = [retryCount EXCEPT ![r] = attempts]
        /\ UNCHANGED <<hasSpec, due, overdue, executing, rejected, loop, restarts>>
    BY <1>9 DEF WatchdogVisit
  <2>2. retryCount' \in [Runs -> 0..MaxRecoveryAttempts]
    BY <1>0, <2>1 DEF TypeOK, SmallerOf
  <2>3. todo \subseteq runningRuns
    BY <1>0, <2>1 DEF WatchedAreRunning
  <2>4. CASE attempts >= MaxRecoveryAttempts
    <3>1. FailBackgroundRun(r)
      BY <1>9, <2>4 DEF WatchdogVisit
    <3> QED
      BY <1>0, <2>1, <2>2, <2>3, <3>1, FailPreserves
      DEF IInv, OutcomeInv, KeepsOutcomes, TypeOK, WatchedAreRunning
  <2>5. CASE ~(attempts >= MaxRecoveryAttempts)
    <3>1. /\ status' = [status EXCEPT ![r] = "recovering"]
          /\ UNCHANGED <<runningRuns, stale, notif, triggers>>
      BY <1>9, <2>5 DEF WatchdogVisit
    <3>2. notif[r] = "none" /\ "recovering" \in Statuses \ {"completed", "failed"}
      BY <1>0, <2>1, <2>3 DEF LeakedSlotIsSilentCancel, Statuses
    <3>3. /\ status' \in [Runs -> Statuses]
          /\ NotificationMatchesOutcome' /\ TriggerOncePerNotification'
          /\ FinishedIsNotified' /\ LeakedSlotIsSilentCancel' /\ KeepsOutcomes
      BY <1>0, <3>1, <3>2, RowWritePreserves DEF KeepsOutcomes
    <3> QED
      BY <1>0, <2>1, <2>2, <2>3, <3>1, <3>3
      DEF IInv, OutcomeInv, TypeOK, WatchedAreRunning
  <2> QED BY <2>4, <2>5
<1>10. ASSUME WatchdogEnd
       PROVE  Goal
  <2>1. /\ \A q \in Runs : status'[q] = IF status[q] = "queued" /\ q \in overdue
                                       THEN "expired" ELSE status[q]
        /\ status' \in [Runs -> Statuses]
    BY <1>0, <1>10 DEF WatchdogEnd, ExpiredStatus, TypeOK, Statuses
  <2>2. /\ loop' = "none"
        /\ UNCHANGED <<retryCount, notif, hasSpec, due, overdue,
                       runningRuns, stale, executing, rejected, todo, triggers, restarts>>
    BY <1>10 DEF WatchdogEnd
  <2>3. TypeOK'
    BY <1>0, <2>1, <2>2 DEF TypeOK
  <2> QED
    BY <1>0, <2>1, <2>2, <2>3
    DEF IInv, OutcomeInv, KeepsOutcomes, NotificationMatchesOutcome, TriggerOncePerNotification,
        FinishedIsNotified, LeakedSlotIsSilentCancel, WatchedAreRunning, IsTerminal,
        TypeOK, NotificationTypes
<1>11. ASSUME TickBegin
       PROVE  Goal
  <2>1. /\ UNCHANGED <<rowVars, runningRuns, stale, executing, rejected, triggers, restarts>>
        /\ loop' = "tick" /\ todo' \subseteq Runs
    BY <1>0, <1>11 DEF TickBegin, TopPriority, QueuedAndDue
  <2> QED
    BY <1>0, <2>1, Untouched DEF rowVars, IInv, OutcomeInv, KeepsOutcomes, TypeOK, WatchedAreRunning
<1>12. ASSUME NEW r \in Runs, TickTakes(r)
       PROVE  Goal
  <2>1. /\ loop' \in {"none", "tick"} /\ todo' \subseteq Runs
        /\ UNCHANGED <<retryCount, hasSpec, due, overdue, restarts>>
    BY <1>0, <1>12 DEF TickTakes, TypeOK
  <2>2. CASE FailBackgroundRun(r) /\ UNCHANGED <<executing, rejected>>
    BY <1>0, <2>1, <2>2, FailPreserves
    DEF IInv, OutcomeInv, KeepsOutcomes, TypeOK, WatchedAreRunning
  <2>3. CASE RuntimeUnchanged /\ rejected' \subseteq Runs /\ executing' \subseteq Runs
    BY <1>0, <2>1, <2>3, Untouched
    DEF RuntimeUnchanged, IInv, OutcomeInv, KeepsOutcomes, TypeOK, WatchedAreRunning
  <2>4. CASE /\ status[r] = "queued" /\ MarkRunning(r)
             /\ executing' = executing \cup {r} /\ UNCHANGED rejected
    <3>1. notif[r] = "none" /\ "running" \in Statuses \ {"completed", "failed"}
      BY <1>0, <2>4, LiveIsUnnotified DEF IsTerminal, Statuses
    <3> QED
      BY <1>0, <2>1, <2>4, <3>1, RowWritePreserves
      DEF MarkRunning, IInv, OutcomeInv, KeepsOutcomes, TypeOK, WatchedAreRunning
  <2> QED BY <1>0, <1>12, <2>2, <2>3, <2>4 DEF TickTakes, TypeOK
<1>13. ASSUME NEW r \in Runs, StartRejected(r)
       PROVE  Goal
  <2>1. /\ FailBackgroundRun(r) /\ rejected' \subseteq Runs /\ Idle
        /\ UNCHANGED <<retryCount, hasSpec, due, overdue, executing, loop, todo, restarts>>
    BY <1>0, <1>13 DEF StartRejected, TypeOK
  <2> QED
    BY <1>0, <2>1, FailPreserves
    DEF IInv, OutcomeInv, KeepsOutcomes, TypeOK, WatchedAreRunning, Idle
<1>14. ASSUME NEW r \in Runs, NEW o \in NotificationTypes, ExecutionEnds(r, o)
       PROVE  Goal
  <2>1. /\ executing' \subseteq Runs /\ Idle
        /\ UNCHANGED <<retryCount, hasSpec, due, overdue, rejected, loop, todo, restarts>>
    BY <1>0, <1>14 DEF ExecutionEnds, TypeOK
  <2>2. CASE FailBackgroundRun(r)
    BY <1>0, <2>1, <2>2, FailPreserves
    DEF IInv, OutcomeInv, KeepsOutcomes, TypeOK, WatchedAreRunning, Idle
  <2>3. CASE Finish(r, o) /\ ~IsTerminal(status[r])
    BY <1>0, <2>1, <2>3, FinishPreserves
    DEF IInv, OutcomeInv, KeepsOutcomes, TypeOK, WatchedAreRunning, Idle
  <2> QED BY <1>14, <2>2, <2>3 DEF ExecutionEnds, FinishRun, IsTerminal
<1>15. ASSUME Restart
       PROVE  Goal
  BY <1>0, <1>15
  DEF Restart, rowVars, IInv, OutcomeInv, KeepsOutcomes, TypeOK, WatchedAreRunning, Idle,
      NotificationMatchesOutcome, TriggerOncePerNotification, FinishedIsNotified,
      LeakedSlotIsSilentCancel
<1>16. ASSUME UNCHANGED vars
       PROVE  Goal
  BY <1>0, <1>16, Untouched
  DEF vars, IInv, OutcomeInv, KeepsOutcomes, TypeOK, WatchedAreRunning
<1> QED
  BY <1>1, <1>2, <1>3, <1>4, <1>5, <1>6, <1>7, <1>8, <1>9, <1>10, <1>11, <1>12, <1>13,
     <1>14, <1>15, <1>16
  DEF Next, CallerStep, WatchdogStep, WorkerStep

\* The invariant holds throughout.
THEOREM Invariance == Spec => []IInv
<1>1. IInv /\ [Next]_vars => IInv'
  BY NextPreserves
<1> QED BY InitIInv, <1>1, PTL DEF Spec

\* Every variable keeps its type: the rows their known states, the sets of
\* BackgroundRuntime and of the worker known runs.
THEOREM TypeCorrect == Spec => []TypeOK
<1>1. IInv => TypeOK
  BY DEF IInv
<1> QED BY Invariance, <1>1, PTL

\* The durable notification of a run agrees with its row for ever.
THEOREM NotificationIsTrue == Spec => []NotificationMatchesOutcome
<1>1. IInv => NotificationMatchesOutcome
  BY DEF IInv, OutcomeInv
<1> QED BY Invariance, <1>1, PTL

\* The parent-turn trigger fires at most once per run, with its notification.
THEOREM TriggerIsUnique == Spec => []TriggerOncePerNotification
<1>1. IInv => TriggerOncePerNotification
  BY DEF IInv, OutcomeInv
<1> QED BY Invariance, <1>1, PTL

\* A run that completed or failed has told its parent the same, whoever ended it:
\* its execution, the watchdog, a rejected start or the recovery at startup.
THEOREM EndedRunsAreTold == Spec => []FinishedIsNotified
<1>1. IInv => FinishedIsNotified
  BY DEF IInv, OutcomeInv
<1> QED BY Invariance, <1>1, PTL

\* Every terminal state written by the runtime frees its slot.
THEOREM OnlySilentCancelsLeak == Spec => []LeakedSlotIsSilentCancel
<1>1. IInv => LeakedSlotIsSilentCancel
  BY DEF IInv, OutcomeInv
<1> QED BY Invariance, <1>1, PTL

\* Completed and failed are final, and no notification is rewritten.
THEOREM OutcomesAreFinal == Spec => FinalOutcomeKept
<1>1. IInv /\ [Next]_vars =>
        [\A r \in Runs :
           /\ status[r] \in {"completed", "failed"} => status'[r] = status[r]
           /\ notif[r] # "none" => notif'[r] = notif[r]]_vars
  BY NextPreserves DEF KeepsOutcomes
<1> QED BY Invariance, <1>1, PTL DEF Spec, FinalOutcomeKept

-----------------------------------------------------------------------------
(* The slots *)

SlotInv == TypeOK /\ SlotBound

\* Starting one more run while a slot is free keeps the bound.
LEMMA StartKeepsBound ==
  ASSUME TypeOK, ~SlotsFull, NEW r \in Runs, runningRuns' = runningRuns \cup {r}
  PROVE  SlotBound'
<1>1. IsFiniteSet(runningRuns)
  BY RunsAssumption, FS_Subset DEF TypeOK
<1>2. Cardinality(runningRuns) \in Nat
  BY <1>1, FS_CardinalityType
<1>3. /\ IsFiniteSet(runningRuns \cup {r})
      /\ Cardinality(runningRuns \cup {r}) \in {Cardinality(runningRuns), Cardinality(runningRuns) + 1}
  BY <1>1, <1>2, FS_AddElement
<1> QED BY <1>2, <1>3, LimitsAssumption DEF SlotsFull, SlotBound

\* processQueue fills at most the slots that are free.
LEMMA FinishKeepsBound ==
  ASSUME SlotInv, NEW r \in Runs, NEW outcome, Finish(r, outcome)
  PROVE  SlotBound'
<1> DEFINE st == [status EXCEPT ![r] = outcome]
           used == runningRuns \ {r}
           available == MaxConcurrentRuns - Cardinality(used)
<1>1. PICK S \in ProcessQueue(st, used) : runningRuns' = used \cup S
  BY DEF Finish, SlotsAfter
<1>2. /\ IsFiniteSet(used) /\ Cardinality(used) \in Nat
      /\ Cardinality(used) <= Cardinality(runningRuns)
      /\ Cardinality(runningRuns) \in Nat
  <2>1. IsFiniteSet(runningRuns)
    BY RunsAssumption, FS_Subset DEF SlotInv, TypeOK
  <2> QED BY <2>1, FS_Subset, FS_CardinalityType
<1>3. Cardinality(used) <= MaxConcurrentRuns
  BY <1>2, LimitsAssumption DEF SlotInv, SlotBound
<1>4. CASE available <= 0
  <2>1. S = {}
    BY <1>1, <1>4 DEF ProcessQueue
  <2>2. runningRuns' = used
    BY <1>1, <2>1
  <2> QED BY <1>3, <2>2 DEF SlotBound
<1>5. CASE ~(available <= 0)
  <2> DEFINE Q == QueuedAndDue(st)
  <2>1. /\ IsFiniteSet(Q) /\ Cardinality(Q) \in Nat
    BY RunsAssumption, FS_Subset, FS_CardinalityType DEF QueuedAndDue
  <2>2. S \subseteq Q /\ Cardinality(S) = SmallerOf(available, Cardinality(Q))
    BY <1>1, <1>5 DEF ProcessQueue, TopPriority
  <2>3. IsFiniteSet(S) /\ Cardinality(S) \in Nat
    BY <2>1, <2>2, FS_Subset, FS_CardinalityType
  <2>4. Cardinality(S) <= available
    <3> HIDE DEF Q, used
    <3> QED BY <1>2, <2>1, <2>2, LimitsAssumption DEF SmallerOf
  <2>5. /\ IsFiniteSet(used \cup S) /\ IsFiniteSet(used \cap S)
        /\ Cardinality(used \cup S) = Cardinality(used) + Cardinality(S) - Cardinality(used \cap S)
    BY <1>2, <2>3, FS_Union, FS_Intersection
  <2>6. Cardinality(used \cap S) \in Nat
    BY <2>5, FS_CardinalityType
  <2>7. Cardinality(used \cup S) <= MaxConcurrentRuns
    <3> DEFINE u == Cardinality(used)  s == Cardinality(S)
               i == Cardinality(used \cap S)  t == Cardinality(used \cup S)
    <3>1. u \in Nat /\ s \in Nat /\ i \in Nat /\ t = u + s - i /\ s <= MaxConcurrentRuns - u
      BY <1>2, <2>3, <2>4, <2>5, <2>6
    <3> HIDE DEF u, s, i, t
    <3>2. t <= MaxConcurrentRuns
      BY <3>1, LimitsAssumption
    <3> QED BY <3>2 DEF t
  <2> QED BY <1>1, <2>7 DEF SlotBound
<1> QED BY <1>4, <1>5

\* Every step keeps the bound.
LEMMA NextKeepsBound ==
  ASSUME SlotInv, [Next]_vars
  PROVE  SlotBound'
<1>0. TypeOK /\ SlotBound
  BY DEF SlotInv
<1>1. ASSUME UNCHANGED runningRuns
      PROVE  SlotBound'
  BY <1>0, <1>1 DEF SlotBound
<1>2. ASSUME NEW r \in Runs, FailBackgroundRun(r)
      PROVE  SlotBound'
  BY <1>1, <1>2, FinishKeepsBound DEF FailBackgroundRun, RuntimeUnchanged
<1>3. ASSUME NEW r \in Runs, CallerStep(r) \/ TimeStep(r)
      PROVE  SlotBound'
  <2>1. CASE ResumeBackgroundSubagent(r)
    BY <1>0, <2>1, StartKeepsBound DEF ResumeBackgroundSubagent, MarkRunning
  <2>2. CASE CancelBackgroundRun(r)
    BY <2>2, FinishKeepsBound DEF CancelBackgroundRun
  <2>3. CASE UNCHANGED runningRuns
    BY <1>1, <2>3
  <2> QED
    BY <1>3, <2>1, <2>2, <2>3
    DEF CallerStep, TimeStep, EnqueueBackgroundRun, CheckpointBackgroundRun,
        RecoverFromCheckpoint, CoordinatorCancel, CoordinatorPause, CoordinatorResume,
        CoordinatorWrites, ScheduleArrives, ExpiryPasses, CheckpointAges, memVars
<1>4. ASSUME WatchdogStep
      PROVE  SlotBound'
  BY <1>1, <1>2, <1>4 DEF WatchdogStep, WatchdogBegin, WatchdogVisit, WatchdogEnd
<1>5. ASSUME WorkerStep
      PROVE  SlotBound'
  <2>1. ASSUME NEW r \in Runs, TickTakes(r)
        PROVE  SlotBound'
    <3>1. CASE ~SlotsFull /\ MarkRunning(r)
      BY <1>0, <3>1, StartKeepsBound DEF MarkRunning
    <3> QED BY <1>1, <1>2, <2>1, <3>1 DEF TickTakes, RuntimeUnchanged
  <2>2. ASSUME NEW r \in Runs, NEW o \in NotificationTypes, ExecutionEnds(r, o)
        PROVE  SlotBound'
    BY <1>2, <2>2, FinishKeepsBound DEF ExecutionEnds, FinishRun
  <2> QED BY <1>1, <1>2, <1>5, <2>1, <2>2 DEF WorkerStep, TickBegin, StartRejected
<1>6. ASSUME Restart
      PROVE  SlotBound'
  BY <1>6, FS_EmptySet, LimitsAssumption DEF Restart, SlotBound
<1> QED BY <1>1, <1>3, <1>4, <1>5, <1>6 DEF Next, vars

\* runningRuns never exceeds maxConcurrentRuns, whichever of its three callers
\* adds to it and however they interleave.
THEOREM SlotsAreBounded == Spec => []SlotBound
<1>1. Init => SlotBound
  BY FS_EmptySet, LimitsAssumption DEF Init, SlotBound
<1>2. TypeOK /\ SlotBound /\ [Next]_vars => SlotBound'
  BY NextKeepsBound DEF SlotInv
<1> QED BY TypeCorrect, <1>1, <1>2, PTL DEF Spec
=============================================================================
