SPECIFICATION Spec
CONSTANTS
    Inputs = {b1, b2}
    NoInput = NoInput
    PoolSize = 1
    MaxFrames = 2
    MaxFailures = 0
    MaxTeardowns = 1
PROPERTIES
    ReturnsReachTheManager
CHECK_DEADLOCK FALSE
