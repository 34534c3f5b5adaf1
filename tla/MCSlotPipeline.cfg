SPECIFICATION Spec
CONSTANTS
  BatchSize = 2
  QuietRecovery = FALSE
  MaxSlots = 3
  MaxOther = 0
  MaxCrashes = 2
INVARIANTS
  TypeOK
  OneRulingPerSlot
  VerdictsCoverAttestedOnce
CHECK_DEADLOCK FALSE
PROPERTY LifeImplemented
