SPECIFICATION FairSpec
CONSTANTS
  BatchSize = 2
  QuietRecovery = TRUE
  MaxSlots = 2
  MaxOther = 1
  MaxCrashes = 2
INVARIANTS
  RulingsInOrder
  QueueMirrorsTheLog
  ProverNeverFails
PROPERTIES
  EverySlotSettles
CHECK_DEADLOCK FALSE
