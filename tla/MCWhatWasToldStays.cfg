SPECIFICATION Spec
CONSTANTS
  Entries = {e1, e2}
  Writers = {w1, w2}
  Readers = {r1, r2}
  Patient = {r2}
  MaxBatch = 2
  MaxRows = 3
  MaxLegacy = 1
  MaxCrashes = 1
  MaxFaults = 1
INVARIANTS
  WhatWasToldStays
CHECK_DEADLOCK FALSE
