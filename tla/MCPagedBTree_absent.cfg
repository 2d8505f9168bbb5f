SPECIFICATION Spec
CONSTANTS
    MinDegree = 2
    Keys = {0, 1, 2, 3, 4, 5, 6, 7, 8, 9, 10, 11, 12, 13, 14, 15, 16, 17, 18, 19}
    Fillings <- MCTallFilling
    MaxOps = 4
    RemovesAbsent = TRUE
INVARIANT IndexInRange
CHECK_DEADLOCK FALSE
