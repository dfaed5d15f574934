\* A result that arrives after the cancellation.
SPECIFICATION FairSpec
CONSTANTS
  Steps = {"a", "b", "c", "d", "e"}
  None = None
  Drafts <- SomeDrafts
PROPERTIES
  EndedRunStaysEnded
CHECK_DEADLOCK FALSE
