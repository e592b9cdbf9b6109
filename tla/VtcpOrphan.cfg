SPECIFICATION FairSpec
CONSTANTS
    SeqMod = 16
    IssA = 14
    IssB = 3
    SendCap = 2
    MAX_RETRIES = 1
    ORPHAN_RETRIES = 1
    Bursts = {2}
    NetCap = 2
    Setups <- OrphanSetups
PROPERTY OrphansEnd
CHECK_DEADLOCK FALSE
