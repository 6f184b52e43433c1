CONSTANTS
    Facts <- MCFacts
    ChangePredicates <- MCChangePredicates
    MaxClaims = 4
    MaxCases = 2
    MaxUpkeep = 1
    IdRank <- MCIdRank
    None = None
    Stale = Stale
SPECIFICATION FairSpec
INVARIANTS
    TypeOK
    OneActive
    OnlyObsoleteOrphans
    CleanMeansManual
    DossierHolds
PROPERTIES
    VerdictFitsDocket
    LegalTransitions
    DecidedCaseCloses
CHECK_DEADLOCK FALSE
