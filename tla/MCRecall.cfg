CONSTANTS
    batch = batch
    audit = audit
    receipt = receipt
    x1 = x1
    x2 = x2
    w1 = w1
    w2 = w2
    Stop = Stop
    Nothing = Nothing
    Submissions = {batch, audit}
    Audits = {audit}
    Exposures = {x1}
    IdsOf <- MCIdsOf
    Disabled = {}
    Receipts = {receipt}
    Covers <- MCCovers
    Workers <- MCWorkers
    MaxPending = 1
    MaxAttempts = 2
    MaxRequests = 1
    MaxFaults = 1
SPECIFICATION FairSpec
INVARIANTS
    TypeOK
    ExposureIsTracked
    EffectOnce
    CleanCloseKeepsAll
    RecallInv
PROPERTIES
    ImplementsLedger
    AcceptedWorkSettles
CHECK_DEADLOCK FALSE
