SPECIFICATION Spec
CONSTANTS
    Documents <- MCDocuments
    MaxUnits = 2
    Target = 4
INVARIANTS
    EvidenceAndNotesKept
    StaleTextFlagged
    BoundariesDrawn
CHECK_DEADLOCK FALSE
