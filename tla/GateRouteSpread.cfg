CONSTANTS
    r1 = r1
    r2 = r2
    Nowhere = Nowhere
    N = 2
    Ordered = {1, 2}
    NeedRsp = {}
    Allowed = {1, 2}
    Remote <- MCRemote
    Window = 2
    MaxInc = 1
    MaxFlaps = 2
SPECIFICATION RouteSpec
SYMMETRY MCSymmetry
CHECK_DEADLOCK FALSE
PROPERTIES SameInstance
