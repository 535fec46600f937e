SPECIFICATION Spec
CONSTANTS
    Cameras = {c1}
    MjpegCameras = {}
    Clients = {p1}
    Sinks = {s1}
    BufferCount = 2
    CallBudget <- ControlCalls
    MaxFaults = 1
    MaxFailures = 2
    EscalateAfter = 2
INVARIANTS
    NoHeldBufferQueued
CHECK_DEADLOCK FALSE
