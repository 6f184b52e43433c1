CONSTANTS
    w1 = w1
    w2 = w2
    e1 = e1
    e2 = e2
    e3 = e3
    chat = chat
    NoSession = NoSession
    NoToken = NoToken
    Workers <- MCWorkers
    Jobs <- MCJobs
    Events <- MCEvents
    EventOf <- MCEventOf
    SessionOf <- MCSessions
    Deletable = {}
    Rank <- MCRank
    Tokens <- MCTokens
    LegacyDead = {}
    MaxWindow = 2
    MaxAttempts = 2
    FaultKinds = {"stall"}
    MaxFaults = 1
SPECIFICATION QueueSpec
SYMMETRY WorkerSymmetry
PROPERTIES
    LossIsNoSuccess
CHECK_DEADLOCK FALSE
