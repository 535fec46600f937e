SPECIFICATION FairSpec
CONSTANTS
    Buffers = {b1, b2}
    Layouts = {small, large}
    Outputs = {o1, o2}
    InputLimit = 1
    Tasks = 1
    MaxPackets = 5
    MaxInits = 2
    MaxFailures = 2
INVARIANTS
    PicturesHaveMemory
PROPERTIES
    CallsAreAnswered
CHECK_DEADLOCK FALSE
