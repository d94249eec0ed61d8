SPECIFICATION TestSpec
CONSTANTS
  NPROC = 3
  CPUs = {c1}
  Default = 31
  Prios = {5, 50}
  None = None
  ParentSlots = {0, 1, 2}
  TICKS = 2
PROPERTY
  TestEnds
