CONSTANTS
    Key = {1, 2}
    Fiber = {f1}
    Options <- SmallOptions
    Level = {0, 1, 2, 3, 4}
    Spare = FALSE
    MaxWrites = 6
    MaxCrashes = 1
SPECIFICATION Spec
INVARIANT ReadsNewest
CHECK_DEADLOCK FALSE
