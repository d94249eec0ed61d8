SPECIFICATION TestSpec
CONSTANTS
  NPROC = 3
  CPUs = {c1, c2}
  Default = 31
  Prios = {5, 50}
  None = None
  ParentSlots = {0}
  TICKS = 2
PROPERTY
  TestEnds
