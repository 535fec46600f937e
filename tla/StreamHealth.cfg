SPECIFICATION Spec
CONSTANTS
    ParameterSets <- Sets
    QueueLimit = 3
    MaxPackets = 4
    MaxFailures = 1
INVARIANTS
    RecoveryIsReported
CHECK_DEADLOCK FALSE
