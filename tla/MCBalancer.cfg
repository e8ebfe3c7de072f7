SPECIFICATION BalancerSpec
CONSTANTS
    None = None
    m0 = m0
    s1 = s1
    s2 = s2
    Nodes <- MCNodes
    ConfMaster <- OneMaster
    OfflineLimit = 1
    MaxStarts <- OneStart
    MaxCrashes = 2
    KeepsUp = TRUE
    Loads <- MCLoads
SYMMETRY SlaveSymmetry
INVARIANTS
    BalancerTypeOK
    UninterruptedServed
PROPERTIES
    SlaveGiven
CHECK_DEADLOCK FALSE
