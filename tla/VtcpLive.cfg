SPECIFICATION FairSpec
CONSTANTS
    SeqMod = 16
    IssA = 14
    IssB = 3
    SendCap = 2
    MAX_RETRIES = 2
    ORPHAN_RETRIES = 1
    Bursts = {2}
    NetCap = 3
    Setups <- LiveSetups
PROPERTIES Delivered OrphansEndOrGap
CHECK_DEADLOCK FALSE
