CONSTANTS
    Facts <- MCFacts
    ChangePredicates <- MCChangePredicates
    MaxClaims = 4
    MaxCases = 2
    MaxUpkeep = 0
    IdRank <- MCIdRank
    None = None
    Stale = Stale
SPECIFICATION Spec
INVARIANT
    NoOrphanDisputed
CHECK_DEADLOCK FALSE
