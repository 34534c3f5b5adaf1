SPECIFICATION FairSpec
CONSTANTS
  Appenders = {a1, a2}
  Readers = {r1, r2}
  Fallible = {r2}
  MaxBatch = 2
  MaxHead = 3
INVARIANTS
  NoLostWakeup
PROPERTY EveryEntryIsRead
