SPECIFICATION FairPlayback
CONSTANTS
    Items <- MCItems
    Rate = 48
    OpusRates = {48}
    MaxQueuedItems = 3
    MaxQueued = 4
    Prebuffer = 3
    Requests <- MCRequests
    MaxOpens = 2
    MaxFaults = 2
INVARIANTS
    WorkerIsNotMisled
PROPERTIES
    WorkerGetsOn
CHECK_DEADLOCK FALSE
