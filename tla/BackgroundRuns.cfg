CONSTANTS
  r1 = r1
  r2 = r2
  r3 = r3
  Runs = {r1, r2}
  SessionRuns = {r1}
  Priority <- PriorityOf
  MaxConcurrentRuns = 1
  WorkerSlots = 2
  MaxRecoveryAttempts = 2
  MaxRestarts = 1
SPECIFICATION FairSpec
CHECK_DEADLOCK FALSE
INVARIANTS NotificationMatchesOutcome TriggerOncePerNotification FinishedIsNotified LeakedSlotIsSilentCancel
PROPERTIES FinalOutcomeKept InFlightSettles
