SPECIFICATION Spec
CONSTANTS
  Ids = {i1, i2}
  Polled = {i1}
  None = None
  Window = 2
  MaxSlots = 2
  MaxEntries = 6
  MaxFaults = 1
INVARIANTS
  ReadModelIsTheLog
  NotFoundIsTrue
PROPERTY AnswersMoveForward
