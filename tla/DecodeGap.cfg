SPECIFICATION Spec
CONSTANTS
    ParameterSets <- Sets
    QueueLimit = 4
    MaxPackets = 4
    MaxFailures = 1
INVARIANTS
    NothingUndecodableSent
CHECK_DEADLOCK FALSE
