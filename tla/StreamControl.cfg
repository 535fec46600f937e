SPECIFICATION FairSpec
CONSTANTS
    PoolSize = 2
    ReadyCapacity = 1
    MaxCalls = 3
    MaxFaults = 1
INVARIANTS
    SlotsAccounted
PROPERTIES
    StopIsComplete
    CallsReturn
    ReportsAreApplied
CHECK_DEADLOCK FALSE
