SPECIFICATION Spec
CONSTANTS
    MinDegree = 2
    Keys = {0, 1, 2, 3, 4, 5, 6, 7, 8, 9, 10, 11, 12}
    Fillings <- MCFillings
    MaxOps = 4
    RemovesAbsent = TRUE
INVARIANTS WellFormed NodesFit PagesAccounted DirtyCovers
CHECK_DEADLOCK FALSE
