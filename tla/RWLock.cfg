SPECIFICATION FairSpec
CONSTANTS
  Readers = {r1, r2, r3, r4}
  Writers = {w1, w2}
  READS = 2
  WRITES = 2
  MaxSpurious = 1
  None = None
INVARIANTS
  Exclusion NoLostWakeup NoLostUpdate
PROPERTIES
  WriterPreference Termination
CHECK_DEADLOCK FALSE
