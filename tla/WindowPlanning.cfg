SPECIFICATION FairSpec
CONSTANTS
    ViewCount = 5
    ViewLast <- MCViewLast
    ViewUnit <- MCViewUnit
    WindowCount = 4
    WindowLast <- MCWindowLast
    OverBudget <- MCOverBudget
    MaxUnits = 2
    MaxConcurrency = 2
    CanAskBoundary = TRUE
INVARIANTS
    SourceCovered
    MergesRight
PROPERTIES
    MarksKept
    HandsOnInOrder
    Returns
