SPECIFICATION ApiSpec
CONSTANTS
  Intents <- Racing
  Clients = {c1, c2}
  None = None
  Window = 2
  MaxClock = 3
  MaxIdleSlots = 0
  MaxCrashes = 1
INVARIANTS
  GateKnowsTheLog
  NoncesAdvance
  AcknowledgedIsInTheLog
  RefusalsAreTrue
  AnswersHold
CHECK_DEADLOCK FALSE
