SPECIFICATION LiveSpec
CONSTANTS
  Posters = {p1, p2}
  Owner = owner
  Tasks = {t1, t2, t3, t4}
CHECK_DEADLOCK FALSE
INVARIANTS IInv NoLostWakeUp
PROPERTIES ImplementsTaskQueue QueuedTaskRuns StopEndsTheLoop
