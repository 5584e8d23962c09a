CONSTANTS
    Writer = {w1}
    Batches <- TwoActions
    Cuts <- FewCuts
    MaxBatches = 2
    MaxCrashes = 1
    MaxMishaps = 0
SPECIFICATION Spec
PROPERTIES AckedSurvives
CHECK_DEADLOCK FALSE
