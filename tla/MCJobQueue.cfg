CONSTANTS
    w1 = w1
    w2 = w2
    e1 = e1
    e2 = e2
    e3 = e3
    chat = chat
    NoSession = NoSession
    NoToken = NoToken
    Workers <- MCWorkers
    Jobs <- MCTwoJobs
    Events <- MCTwoEvents
    EventOf <- MCTwoEventOf
    SessionOf <- MCTwoSessions
    Deletable = {e1}
    Rank <- MCTwoRank
    Tokens <- MCTokens
    LegacyDead = {}
    MaxWindow = 2
    MaxAttempts = 2
    FaultKinds = {"crash", "stall"}
    MaxFaults = 2
SPECIFICATION FairQueueSpec
INVARIANTS
    QueueInv
    OneOwnerPerJob
    AttemptBudget
PROPERTIES
    OnlyOwnerSettles
    ImplementsContract
    EveryJobEnds
CHECK_DEADLOCK FALSE
