SPECIFICATION FairSpec
CONSTANTS
    Cost <- MCCost
    Budget = 4
    Concurrency = 2
    Modes = {"batches", "single", "heuristic"}
INVARIANTS
    TextsRight
    RequestsBounded
PROPERTIES
    ReturnsInOrder
    Returns
CHECK_DEADLOCK FALSE
