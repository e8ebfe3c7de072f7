SPECIFICATION FairSpec
CONSTANTS
    None = None
    m0 = m0
    s1 = s1
    s2 = s2
    Nodes <- MCNodes
    ConfMaster <- OneMaster
    OfflineLimit = 1
    MaxStarts <- OneStart
    MaxCrashes = 1
    KeepsUp = TRUE
PROPERTIES
    HighAvailability
CHECK_DEADLOCK FALSE
