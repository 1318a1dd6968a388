CONSTANTS
    MaxError = 3
    MaxCrash = 2
SPECIFICATION EtcdFairSpec
INVARIANTS
    KeptHoldsKey
PROPERTIES
    EventuallyRegistered
    StoppedIsGone
CHECK_DEADLOCK FALSE
