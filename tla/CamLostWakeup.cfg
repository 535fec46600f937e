SPECIFICATION FairSpec
CONSTANTS
    Cameras = {c1}
    MjpegCameras = {}
    Clients = {p1}
    Sinks = {s1}
    BufferCount = 1
    CallBudget <- StartCalls
    MaxFaults = 0
    MaxFailures = 2
    EscalateAfter = 2
PROPERTIES
    PostedCommandsAreTaken
CHECK_DEADLOCK FALSE
