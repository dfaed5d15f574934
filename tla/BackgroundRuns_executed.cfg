CONSTANTS
  r1 = r1
  r2 = r2
  r3 = r3
  Runs = {r1, r2}
  SessionRuns = {r1}
  Priority <- PriorityOf
  MaxConcurrentRuns = 1
  WorkerSlots = 1
  MaxRecoveryAttempts = 2
  MaxRestarts = 0
SPECIFICATION LaunchAndWorkSpec
PROPERTY EnqueuedChildIsExecuted
CHECK_DEADLOCK FALSE
