SPECIFICATION Spec
CONSTANTS
    Documents <- MCDocuments
    MaxUnits = 2
    Target = 4
INVARIANTS
    FailuresKept
CHECK_DEADLOCK FALSE
