SPECIFICATION FairSpec
CONSTANTS
  Threads = {t1, t2}
  ITERS = 6
  Customers = {alice, bob, carol}
  ATTEMPTS = 3
  AMOUNT = 2
  Balances = {0, 1, 2, 9, 12, 20}
  NUM_THREADS = 3
  Sizes = {0, 2, 3, 5, 6, 7}
  Workers = {w1, w2}
  main = main
  OPS = 2
  Nodes = {n1, n2, n3, n4, n5}
  Values = {v1, v2}
  Fresh = v1
  Absent = v0
  None = None
INVARIANTS
  AtLeastTwo BooksAgree SumsExact NoDangling NoLeak ChecksPass
PROPERTIES
  ListBehaves Termination
CHECK_DEADLOCK FALSE
