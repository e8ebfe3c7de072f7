SPECIFICATION FairSpec
CONSTANTS
    None = None
    m0 = m0
    s1 = s1
    s2 = s2
    Nodes <- MCNodes
    ConfMaster <- OneMaster
    OfflineLimit = 1
    MaxStarts <- OneStart
    MaxCrashes = 2
    KeepsUp = TRUE
INVARIANTS
    OneMasterListed
    OneActingMaster
    ListedHasState
PROPERTIES
    MasterHandover
    ImplementsMastership
    ElectedTakesOver
    DeadMasterNoticed
CHECK_DEADLOCK FALSE
