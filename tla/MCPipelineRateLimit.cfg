CONSTANTS
    w1 = w1
    w2 = w2
    chat = chat
    NoSession = NoSession
    NoToken = NoToken
    Workers <- MCWorkers
    Events <- MCOneEvent
    Jobs <- MCJobs
    EventOf <- MCEventOf
    SessionOf <- MCSessionOf
    Deletable = {}
    Rank <- MCRank
    Tokens <- MCTokens
    LegacyDead = {}
    MaxWindow = 2
    MaxAttempts = 1
    FaultKinds = {"crash"}
    MaxFaults = 1
    MaxDeferred = 1
    MaySwallow = FALSE
SPECIFICATION FairSpec
PROPERTIES
    RateLimitIsDeferred
CHECK_DEADLOCK FALSE
