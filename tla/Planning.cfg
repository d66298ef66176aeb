SPECIFICATION PlanningFairSpec
CONSTANTS
    Units = 5
    UnitLast <- MCUnitLast
    WindowSize = 3
    RowsOf <- MCRowsOf
    PlanOps <- MCPlanOps
    Contexts <- MCContexts
    MaxOps = 2
    MaxItems = 3
INVARIANTS
    WindowsWellCut
    ResultRight
PROPERTIES
    HandsOnInOrder
    GapsRepaired
    WindowsReturn
