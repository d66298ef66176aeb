SPECIFICATION MCSpec
INVARIANT ListItemsRead
CHECK_DEADLOCK FALSE
CONSTANTS
    Scripts <- MCScripts
    Sections = 2
    Storage <- MCStorage
    Streams = {1, 2}
    ShortText = 2
    MaxGap = 1
    MaxPrefix = 1
    WideColumns = 3
    WideCells = 4
