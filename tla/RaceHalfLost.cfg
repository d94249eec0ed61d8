SPECIFICATION Spec
CONSTANTS
  Threads = {t1, t2}
  ITERS = 6
INVARIANT
  HalfLost
CHECK_DEADLOCK FALSE
