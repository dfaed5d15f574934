SPECIFICATION Spec
CONSTANTS
  Calls = {"a1", "q1", "b2", "w2", "c2", "any"}
  Matching <- MCMatching
  NoRegExp = {"q"}
  Requests = {"any"}
  Ask <- MCAsk
  Batches = {"m1", "m2"}
  Plan <- MCPlan
  HeldActions = {"h"}
  HeldCall <- MCHeldCall
  Triggers = {"t"}
  MaxFires <- MCMaxFires
  MaxPending = 2
  Casts <- MCCasts
  OnceTTL = 0
  AlwaysTTL = 1
  MaxApprovals = 3
  MaxTime = 2
INVARIANTS GrantMatchesAnswer AllowedIsCovered AnswerIsFollowed
