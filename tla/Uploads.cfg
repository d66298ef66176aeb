SPECIFICATION UploadsFairSpec
CONSTANTS
    Calls = {c1, c2}
    Docs = {"report", "broken", "text"}
    Ids = {"img1", "img2"}
    AssetsOf <- MCAssetsOf
    RefsOf <- MCRefsOf
    Bytes <- MCBytes
    MaxTries = 2
    Objects = {1, 2, 3, 4, 5}
    Folder <- MCFolder
    Generic = {2}
    Size <- MCSize
    Broken = {2}
    Endless = {4}
    Torn = 7
    Remotes <- MCRemotes
    Newer <- MCNewer
    Bands <- MCBands
    Tenths <- MCTenths
    Reach = 1
    MaxFaults = 2
    MaxRuns = 2
    Stores <- MCStores
    PerBucket = 2
INVARIANTS
    AssetsRight
    ReportRight
    ScanRight
PROPERTIES
    StoredOnceForAll
    ValidationEnds
CHECK_DEADLOCK FALSE
