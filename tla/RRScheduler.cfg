SPECIFICATION FairSpec
CONSTANTS
  NPROC = 3
  CPUs = {c1, c2}
  None = None
INVARIANTS
  RoundRobin
PROPERTY
  NoStarvation
