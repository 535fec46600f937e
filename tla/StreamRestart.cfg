SPECIFICATION Spec
CONSTANTS
    PoolSize = 2
    ReadyCapacity = 1
    MaxCalls = 2
    MaxFaults = 1
INVARIANTS
    OldReportsDoNotStop
CHECK_DEADLOCK FALSE
