SPECIFICATION LiveSpec
CONSTANTS
  Fibers = {f1, f2, f3, f4}
  Calls = 2
CHECK_DEADLOCK FALSE
INVARIANTS IInv
PROPERTIES ImplementsReadWriteLock WaiterServed
