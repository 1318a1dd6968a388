CONSTANTS
    c1 = c1
    c2 = c2
    c3 = c3
    k1 = k1
    k2 = k2
    NIL = NIL
    Cbid <- MCCbid
    Client <- MCClient
    Calls <- MCCalls
    WaitTimes <- MCWaitTimes
    LastAdd = 1
    MaxTime = 2
SPECIFICATION CSpec
INVARIANTS
    ResolvedOnce
    MapMatchesQueue
    SizeDriftBounded
    ListIsQueue
    NoLateCount
PROPERTIES
    TickLeavesOnlyFirst
    ImplementsPromise
    TestEnds
