SPECIFICATION Spec
CONSTANTS
  Runs = {"k1", "k2"}
  MaxParallelReads = 2
  MaxRestarts = 1
  Casts <- MCCasts
\* Every turn may be over.
CHECK_DEADLOCK FALSE
INVARIANTS EveryCallAnsweredOnce BatchEffectsAreTold RowTellsTheTurn
PROPERTIES NoNewWorkAfterAbort RunsReturn
