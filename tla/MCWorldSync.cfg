SPECIFICATION FairSpec
CONSTANTS
    None = None
    m0 = m0
    s1 = s1
    s2 = s2
    Master = m0
    Slaves = {s1}
    Users = {u1}
    Maps = {a, b}
    MaxTransit = 3
    MaxCrashes = 1
    KeepsUp = FALSE
INVARIANTS
    TypeOK
PROPERTIES
    ImplementsReplica
    Converges
CHECK_DEADLOCK FALSE
