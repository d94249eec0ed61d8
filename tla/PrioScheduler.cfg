SPECIFICATION FairSpec
CONSTANTS
  NPROC = 3
  CPUs = {c1, c2}
  Default = 31
  Prios = {5, 31}
  None = None
INVARIANTS
  BestSoFar LockDiscipline
PROPERTY
  TopRuns
