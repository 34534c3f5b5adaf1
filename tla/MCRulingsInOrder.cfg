SPECIFICATION Spec
CONSTANTS
  BatchSize = 2
  QuietRecovery = FALSE
  MaxSlots = 3
  MaxOther = 0
  MaxCrashes = 1
INVARIANT RulingsInOrder
CHECK_DEADLOCK FALSE
