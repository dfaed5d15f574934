CONSTANTS
  Actions = {"r", "w"}
  Keys = {"k"}
  NoKey = "nokey"
  KeyOf <- MCKeyOf
  Writes = {"w"}
  MaxRestarts = 0
SPECIFICATION Spec
INVARIANT DuplicateIsAnswered
CHECK_DEADLOCK FALSE
