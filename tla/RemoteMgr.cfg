CONSTANTS
    s1 = s1
    s2 = s2
    a1 = a1
    g1 = g1
    g2 = g2
    NONE = NONE
    Service <- MCService
    Addr <- MCAddr
    Runs <- MCRuns
    Slot <- MCSlot
    MaxRetry = 2
    MaxChanges = 3
    MaxFail = 1
SPECIFICATION FairSpec
CHECK_DEADLOCK FALSE
INVARIANTS
    LbMatchesRemotes
    RoutedIsRead
    NeverPanics
PROPERTIES
    EventuallyRouted
