SPECIFICATION FairSpec
CONSTANTS
  Bodies <- Three
  BatchSize = 2
  None = None
  Faults <- Scenarios
  MaxIdleSlots = 1
  MaxCrashes = 1
INVARIANTS
  StatusIsOfTheIntent
  EvidenceVerifies
  MixedEvidenceIsRejected
  ProofsAreOfTheirSlots
  FailuresAreInjected
CHECK_DEADLOCK FALSE
PROPERTY EveryIntentSettles
