CONSTANTS
    e1 = e1
    Events = {e1}
    MaxClaims = 2
    MaxFaults = 1
    MaxRestores = 1
SPECIFICATION Spec
INVARIANTS
    DeletionInv
    DeletedStaysDeleted
PROPERTIES
    ErasedComesBackSpared
    OnlyLateClaimsDangle
    OnlyReplayOrphans
CHECK_DEADLOCK FALSE
