CONSTANTS
    p1 = p1
    p2 = p2
    Element <- MCElement
    Caller <- MCCaller
    MaxCalls = 4
    NoElement = NoElement
SPECIFICATION LbSpec
INVARIANTS
    IndexInRange
    StaleOnlyIfDeleted
    Balanced
SYMMETRY MCCallerSymmetry
