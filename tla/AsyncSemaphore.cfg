SPECIFICATION LiveSpec
CONSTANTS
  Fibers = {f1, f2, f3}
  Poster = poster
  Permits = 1
  Batches = {1, 2, 3}
  Calls = 2
  Posts = 2
CHECK_DEADLOCK FALSE
INVARIANTS TypeOK NoIdlePermit SinglesConservePermits
PROPERTY WaiterServed
