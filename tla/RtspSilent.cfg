SPECIFICATION Spec
CONSTANTS
    Clients = {c1}
    Osd = FALSE
    QueueLimit = 1
    MaxSessions = 2
    MaxStarts = 1
    MaxFailures = 0
INVARIANTS
    ActiveMeansAccepting
CHECK_DEADLOCK FALSE
