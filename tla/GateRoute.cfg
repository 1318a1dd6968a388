CONSTANTS
    r1 = r1
    r2 = r2
    Nowhere = Nowhere
    N = 4
    Ordered = {1, 2, 4}
    NeedRsp = {1, 3}
    Allowed = {1, 2, 4}
    Remote <- MCRemote
    Window = 2
    MaxInc = 2
    MaxFlaps = 3
SPECIFICATION RouteSpec
SYMMETRY MCSymmetry
CHECK_DEADLOCK FALSE
INVARIANTS
    AtMostOneResponse
PROPERTIES
    StickyWhileUp
