SPECIFICATION FairSpec
CONSTANTS
    None = None
    m = m
    s = s
    cm = cm
    cs = cs
    Servers = {m, s}
    Master = m
    Clients = {cm, cs}
    Home <- OneEach
    Ids = {u1, u2}
    Waits = TRUE
    Prompt = TRUE
INVARIANTS
    TypeOK
    NoOrphan
    SessionHasUser
PROPERTIES
    WatchedCleared
    Answered
CHECK_DEADLOCK FALSE
