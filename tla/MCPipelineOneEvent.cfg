CONSTANTS
    w1 = w1
    w2 = w2
    chat = chat
    NoSession = NoSession
    NoToken = NoToken
    Workers <- MCWorkers
    Events <- MCOneEvent
    Jobs <- MCJobs
    EventOf <- MCEventOf
    SessionOf <- MCSessionOf
    Deletable = {1}
    Rank <- MCRank
    Tokens <- MCTokens
    LegacyDead = {}
    MaxWindow = 2
    MaxAttempts = 1
    FaultKinds = {"crash", "stall"}
    MaxFaults = 1
    MaxDeferred = 2
    MaySwallow = TRUE
SPECIFICATION FairSpec
INVARIANTS
    PipeInv
    OneActiveJob
PROPERTIES
    EveryEventSettles
    ImplementsRounds
CHECK_DEADLOCK FALSE
