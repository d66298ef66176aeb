SPECIFICATION TablesFairSpec
CONSTANTS
    SpanLists <- MCSpanLists
    IndexLists <- MCIndexLists
    RowSet <- MCRowSet
    Tables <- MCTables
    Chunks <- MCChunks
    Target = 6
    Maximum = 10
INVARIANTS
    RowsShowTheirCells
    CutsWellFormed
    ContextRight
    FragmentsRight
    SplitsRight
PROPERTIES
    CuttingEnds
CHECK_DEADLOCK FALSE
