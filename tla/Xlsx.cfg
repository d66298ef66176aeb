SPECIFICATION MCSpec
CONSTANTS
    Workbooks <- MCWorkbooks
    MaxCells = 14
    MaxTables = 2
INVARIANTS
    PackageRight
    RegionsApart
    CellsShownOnce
CHECK_DEADLOCK FALSE
