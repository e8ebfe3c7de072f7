SPECIFICATION Spec
CONSTANTS
    None = None
    m0 = m0
    s1 = s1
    s2 = s2
    Nodes <- MCNodes
    ConfMaster <- OneMaster
    OfflineLimit = 1
    MaxStarts <- MasterReturns
    MaxCrashes = 2
    KeepsUp = FALSE
SYMMETRY SlaveSymmetry
INVARIANTS
    TypeOK
    PeerKnown
    MasterListed
    StateListed
CHECK_DEADLOCK FALSE
