CONSTANTS
    batch = batch
    audit = audit
    receipt = receipt
    x1 = x1
    x2 = x2
    w1 = w1
    w2 = w2
    Stop = Stop
    Nothing = Nothing
    Submissions = {batch}
    Audits = {}
    Exposures = {x1, x2}
    IdsOf <- MCIdsOf
    Disabled = {}
    Receipts = {receipt}
    Covers <- MCCoversBoth
    Workers = {w1}
    MaxPending = 1
    MaxAttempts = 2
    MaxRequests = 1
    MaxFaults = 0
SPECIFICATION Spec
INVARIANTS
    NoFalse404
CHECK_DEADLOCK FALSE
