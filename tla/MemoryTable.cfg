CONSTANTS
    Writer = {w1, w2}
    Batches <- OneValue
    Cuts <- FewCuts
    MaxBatches = 3
    MaxCrashes = 2
    MaxMishaps = 1
SPECIFICATION Spec
SYMMETRY Symmetry
INVARIANTS TypeOK TableIsLog
PROPERTIES RestoredIsPrefix AckedSurvives
CHECK_DEADLOCK FALSE
