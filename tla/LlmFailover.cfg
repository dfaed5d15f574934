SPECIFICATION AdapterSpec
CONSTANTS
  Requests = {"r1", "r2"}
  Providers <- MCProviders
  Streamers = {"p1", "p2"}
  MaxRetries = 1
  FailureThreshold = 3
  SuccessThreshold = 2
  ResetTimeout = 1
  Settings <- MCSettings
\* Every request may be done and the clock at its bound.
CHECK_DEADLOCK FALSE
INVARIANTS SendsAreBounded NoContentTwiceFromOneLoop EveryProviderTried
PROPERTIES RequestsEnd
