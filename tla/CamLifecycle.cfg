SPECIFICATION Spec
CONSTANTS
    Cameras = {c1}
    MjpegCameras = {}
    Clients = {p1, p2}
    Sinks = {s1}
    BufferCount = 1
    CallBudget <- LifecycleCalls
    MaxFaults = 1
    MaxFailures = 2
    EscalateAfter = 2
INVARIANTS
    NoFrameAfterDelete
    NotRunningMeansNoThread
PROPERTIES
    DeletionIsFinal
CHECK_DEADLOCK FALSE
