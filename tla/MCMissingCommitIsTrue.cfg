SPECIFICATION Spec
CONSTANTS
  BatchSize = 2
  QuietRecovery = FALSE
  MaxSlots = 3
  MaxOther = 0
  MaxCrashes = 1
INVARIANT MissingCommitIsTrue
CHECK_DEADLOCK FALSE
