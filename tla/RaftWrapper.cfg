CONSTANTS
    Node = {n1, n2, n3}
    None = None
    MaxTerm = 2
    MaxIndex = 2
    MaxPolls = 2
    MaxCrashes = 1
    MaxSends = 2
SPECIFICATION Spec
SYMMETRY Symmetry
CONSTRAINT Explored
INVARIANTS IInv ElectionSafety AppliedAgree
PROPERTIES AppliedIsFinal
CHECK_DEADLOCK FALSE
