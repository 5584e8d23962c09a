SPECIFICATION Spec
CONSTANTS
    MaxCalls = 4
    MaxLength = 2
    MaxIn = 3
    Space = 2
    MaxDrains = 2
INVARIANTS
    TypeOK
    ReadsInOrder
    WritesInOrder
    NothingForgotten
CHECK_DEADLOCK FALSE
