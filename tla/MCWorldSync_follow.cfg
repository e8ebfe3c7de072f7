SPECIFICATION FairSpec
CONSTANTS
    None = None
    m0 = m0
    s1 = s1
    s2 = s2
    Master = m0
    Slaves = {s1, s2}
    Users = {u1}
    Maps = {a, b}
    MaxTransit = 1
    MaxCrashes = 1
    KeepsUp = TRUE
PROPERTIES
    NewMasterFollowed
CHECK_DEADLOCK FALSE
