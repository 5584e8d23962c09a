SPECIFICATION LiveSpec
CONSTANTS
  Size = 4
  Majority = 2
CHECK_DEADLOCK FALSE
INVARIANTS IInv VerdictIsTheCount
PROPERTIES ImplementsVote BothComplete
