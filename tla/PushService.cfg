CONSTANTS
    m1 = m1
    m2 = m2
    Msg <- MCMsg
    Safe <- MCSafe
    MaxConn = 2
    MaxLogin = 2
    MaxFault = 1
CHECK_DEADLOCK FALSE
SPECIFICATION PushFairSpec
INVARIANTS
    ArrivedMeansHandled
    NothingMissed
PROPERTIES
    SafePushArrives
