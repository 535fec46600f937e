SPECIFICATION FairSpec
CONSTANTS
    Buffers = {b1, b2, b3, b4}
    FB_COUNT = 3
    Boards <- MCBoards
    ScanLimit = 2
    Layouts = {small, large}
    Format = "NV12"
    QueueLimit = 1
    MaxStarts = 2
    MaxFailures = 1
INVARIANTS
    ScanoutIsLeased
    CacheIsSound
    RouteIsPossible
PROPERTIES
    DisplayMovesOn
CHECK_DEADLOCK FALSE
