SPECIFICATION Spec
CONSTANTS
  StepIds = {s1, s2}
  Waits = {"waiting_for_approval"}
  Foreground <- MCForeground
  Background <- MCBackground
  Planners <- MCPlanners
  TurnOf <- MCTurnOf
  Casts <- MCCasts
  MaxLaunches = 2
  MaxRestarts = 1
\* Every attempt may have ended.
CHECK_DEADLOCK FALSE
INVARIANTS RowIsTold NoForegroundOrphan CompletedPlanIsComplete
PROPERTIES EndingsAreFinal AttemptsSettle
