SPECIFICATION FairSpec
CONSTANTS
    Cameras = {c1}
    MjpegCameras = {c1}
    Clients = {p1}
    Sinks = {s1}
    BufferCount = 1
    CallBudget <- ControlCalls
    MaxFaults = 1
    MaxFailures = 2
    EscalateAfter = 2
INVARIANTS
    RoundsAccounted
    BuffersAccounted
PROPERTIES
    StreamingStrandsNoBuffer
    RestartWaitsForLeases
    RecoveryCompletes
CHECK_DEADLOCK FALSE
