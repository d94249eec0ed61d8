SPECIFICATION Spec
CONSTANTS
  NPROC = 3
  CPUs = {c1, c2}
  MaxPid = 3
  KillPids = {0, 2}
  Statuses = {0}
  None = None
SYMMETRY CPUSymmetry
PROPERTY
  BornUnkilled
