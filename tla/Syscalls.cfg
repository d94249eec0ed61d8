SPECIFICATION FairSpec
CONSTANTS
  Procs = {p1, p2}
  Modulus = 4
  MaxCount = 2
  Clock = Clock
  None = None
  NPROC = 3
  NFRAMES = 14
  PGSIZE = 4
  AddrMod = 32
  TRAPFRAME = 8
  Word = 2
  Counts = {0, 4, 6}
  SLOTS = 5
  Lengths = {0, 1, 3, 5}
  MaxLines = 3
INVARIANTS
  PauseOnTime NoOversleep PagesAccounted FetchSound ReportsTrue
PROPERTIES
  PauseEnds
CHECK_DEADLOCK FALSE
