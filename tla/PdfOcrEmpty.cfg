SPECIFICATION CallsFairSpec
CONSTANTS
    Documents <- MCDocuments
    Options <- MCOptions
    Workers = {1, 2}
    Retries = {0, 1, 2, 3}
    Backoffs = {0, 1, 3}
    RetryStatus = {429, 500}
    OtherStatus = {401}
PROPERTY
    EmptyTriedLocally
CHECK_DEADLOCK FALSE
