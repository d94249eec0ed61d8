SPECIFICATION Spec
CONSTANTS
  NPROC = 3
  CPUs = {c1, c2}
  MaxPid = 4
  KillPids = {1, 2}
  Statuses = {0}
  None = None
SYMMETRY CPUSymmetry
INVARIANTS
  SchedChecks StackInUse NoLostWakeup NoOrphans ScanSound PidsUnique
  Rooted
PROPERTIES
  ReapedByParent BornUnkilled TableSpec
