CONSTANTS
    Key = {1, 2}
    Fiber = {f1, f2}
    Options <- SmallOptions
    Level = {0, 1, 2, 3, 4}
    Spare = TRUE
    MaxWrites = 4
    MaxCrashes = 1
SPECIFICATION Spec
SYMMETRY Symmetry
INVARIANTS TypeOK ReadsNewest NothingDangles CacheIsCurrent
CHECK_DEADLOCK FALSE
