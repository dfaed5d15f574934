SPECIFICATION Spec
CONSTANTS
  Schedules = {"i", "o", "c"}
  Listeners = {"l", "m"}
  Kind <- MCKind
  Interval <- MCInterval
  Times <- MCTimes
  ExpiresAt <- MCExpiresAt
  MaxFires <- MCMaxFires
  Events = {"e1", "e2"}
  Waits = {"w", "b", "a"}
  Owner <- MCOwner
  TimeoutAt <- MCTimeoutAt
  Stamps = {"t1", "t2"}
  Casts <- MCCasts
  MaxTime = 3
  MaxCrashes = 2
\* The bounded clock stops and every bounded crash may have happened.
CHECK_DEADLOCK FALSE
INVARIANTS ScheduleFirings EventFirings WaitResumedOnce EndedWaitIsResumed
