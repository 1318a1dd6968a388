CONSTANTS
    c1 = c1
    c2 = c2
    w1 = w1
    w2 = w2
    Nil = Nil
    Call <- MCCall
    Worker <- MCWorker
    ReSendCnt = 1
    GidMod = 4
    MaxDrops = 1
SPECIFICATION CallFairSpec
CHECK_DEADLOCK FALSE
INVARIANTS
    SenderHasReceiver
    EmptyOnlyIfDropped
PROPERTIES
    EveryCallReturns
