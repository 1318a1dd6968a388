CONSTANTS
    k1 = k1
    k2 = k2
    NONE = NONE
    Conn <- MCConn
    MaxMsg = 2
SPECIFICATION FairSpec
CHECK_DEADLOCK FALSE
INVARIANTS
    EntryWhileUsed
    StopIsFinal
PROPERTIES
    StopTerminates
