SPECIFICATION LiveSpec
CONSTANTS
  Fibers = {f1, f2}
  Workers = {w1, w2}
  Drivers = {d1}
  Futures = {x1, x2}
  NoFiber = NoFiber
  NoFuture = NoFuture
CHECK_DEADLOCK FALSE
INVARIANTS IInv FiberInOnePlace NoLostResume
PROPERTY SettledAwaitReturns
