CONSTANTS
  UserTurns = {"u1", "u2"}
  WebhookTurns = {"w"}
  Notifs = {"n1"}
  Asks = {"a"}
  AutoContinue = TRUE
  MaxRestarts = 1
SPECIFICATION FairSpec
CHECK_DEADLOCK FALSE
INVARIANTS SlotTellsTheTurns InjectedAtMostOnce
PROPERTIES IsFifoLock WaitersAreServed
