SPECIFICATION Spec
CONSTANTS
    MaxGen = 3
    MaxOverlap = 1
    MaxTries = 2
CHECK_DEADLOCK FALSE
INVARIANTS
    SavedIsRead
