CONSTANTS
  Actions = {"r", "s", "w", "free"}
  Keys = {"k"}
  NoKey = "nokey"
  KeyOf <- MCKeyOf
  Writes = {"w"}
  MaxRestarts = 1
SPECIFICATION FairSpec
CHECK_DEADLOCK FALSE
INVARIANTS OneExecutionPerKey AnswerMatchesRow
PROPERTIES FinalStatusKept ExecutingIsAnswered
