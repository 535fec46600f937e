SPECIFICATION FairSpec
CONSTANTS
    Inputs = {b1, b2, b3}
    NoInput = NoInput
    PoolSize = 2
    MaxFrames = 4
    MaxFailures = 1
    MaxTeardowns = 1
INVARIANTS
    BuffersAccounted
    JoinFindsNoCallback
PROPERTIES
    FramesInOrder
    WorkerWakes
CHECK_DEADLOCK FALSE
