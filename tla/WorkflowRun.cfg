\* Every shape of workflow, every outcome of every step, a cancellation and a restart
\* at any point.
SPECIFICATION FairSpec
CONSTANTS
  Steps = {"a", "b", "c", "d", "e"}
  None = None
  Drafts <- SomeDrafts
CHECK_DEADLOCK FALSE
INVARIANTS RunIsDriven AttemptsBelongToLiveStep OutcomeMatchesSteps
PROPERTIES EndingsAreFinal RunsEnd
