SPECIFICATION FairSpec
CONSTANTS
    AreaLen = 2
    Half = 2
    Scopes <- AllScopes
INVARIANTS
    TypeOK
    CoverExact
    NoRevisit
PROPERTIES
    Terminates
CHECK_DEADLOCK FALSE
