SPECIFICATION OrderSpec
CONSTANTS
  Candidates <- MCCandidates
  MaxBuffer = 4
INVARIANTS
  LoopFollowsPolicy
  SlotIsAFunctionOfTheSet
  MarketsDoNotCompete
