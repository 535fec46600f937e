SPECIFICATION FairSpec
CONSTANTS
    n1 = n1
    n2 = n2
    rtsp = rtsp
    monitor = monitor
    Nodes = {n1, n2}
    Rtsp = rtsp
    Others = {monitor}
    Chain <- Chains
    Streams = {main}
    QueueLimit = 1
    PacketFrames = 2
    MaxFrames = 3
    MaxStarts = 1
    MaxShares = 1
    MaxFailures = 1
INVARIANTS
    NoPacketAcrossGap
CHECK_DEADLOCK FALSE
PROPERTIES
    NothingRunsForNobody
    SubscriptionBegins
