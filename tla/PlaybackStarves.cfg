SPECIFICATION FairPlayback
CONSTANTS
    Items <- LongItems
    Rate = 16
    OpusRates = {16}
    MaxQueuedItems = 16
    MaxQueued = 10
    Prebuffer = 8
    Requests <- DefaultRequest
    MaxOpens = 1
    MaxFaults = 1
PROPERTIES
    AudioFlows
CHECK_DEADLOCK FALSE
