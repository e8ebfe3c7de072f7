SPECIFICATION FairSpec
CONSTANTS
    None = None
    Tasks = {t1}
    Capacity = 1
INVARIANTS
    TypeOK
    NoCircularWait
PROPERTIES
    TicksGoOn
CHECK_DEADLOCK FALSE
