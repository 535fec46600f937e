SPECIFICATION FairSpec
CONSTANTS
    ParameterSets <- Sets
    QueueLimit = 3
    MaxPackets = 8
    MaxFailures = 2
INVARIANTS
    OnlySendPacketLosesNalus
    GateIsWatched
PROPERTIES
    WakeupsArrive
    SilenceIsReported
CHECK_DEADLOCK FALSE
