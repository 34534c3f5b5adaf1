SPECIFICATION FairSpec
CONSTANTS
  Intents <- ThreeIntents
  Clients = {c1}
  Window = 1
  MaxClock = 2
  MaxIdleSlots = 0
  MaxCrashes = 1
INVARIANTS
  TypeOK
  NoDuplicateInclusion
  NeverDroppedAndCommitted
  PromiseKept
  NothingForgotten
  SlotsAreDense
  CommittedInNonceOrder
PROPERTIES
  PromiseImplemented
  EveryIntentSettles
