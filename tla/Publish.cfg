SPECIFICATION FairSpec
CONSTANTS
    Clients = {c1, c2}
    Osd = TRUE
    QueueLimit = 2
    MaxSessions = 2
    MaxStarts = 2
    MaxFailures = 1
INVARIANTS
    AudiencesApart
PROPERTIES
    EncoderFollowsClients
    NobodyWaitsForGood
CHECK_DEADLOCK FALSE
