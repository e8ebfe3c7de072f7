SPECIFICATION Spec
CONSTANTS
    None = None
    m0 = m0
    s1 = s1
    s2 = s2
    Nodes <- MCNodes
    ConfMaster <- TwoMasters
    OfflineLimit = 1
    MaxStarts <- OneStart
    MaxCrashes = 0
    KeepsUp = TRUE
INVARIANTS
    OneMasterListed
CHECK_DEADLOCK FALSE
