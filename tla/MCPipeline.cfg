CONSTANTS
    w1 = w1
    w2 = w2
    chat = chat
    NoSession = NoSession
    NoToken = NoToken
    Workers <- MCWorkers
    Events <- MCTwoEvents
    Jobs <- MCJobs
    EventOf <- MCEventOf
    SessionOf <- MCSessionOf
    Deletable = {}
    Rank <- MCRank
    Tokens <- MCTokens
    LegacyDead <- MCLegacyDead
    MaxWindow = 2
    MaxAttempts = 1
    FaultKinds = {"stall"}
    MaxFaults = 1
    MaxDeferred = 1
    MaySwallow = FALSE
SPECIFICATION Spec
SYMMETRY WorkerSymmetry
INVARIANTS
    TypeOK
    RetryAccounting
    ConvergedWasServed
PROPERTIES
    ScanSparesSuccess
CHECK_DEADLOCK FALSE
