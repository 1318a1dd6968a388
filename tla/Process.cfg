CONSTANTS
    o1 = o1
    o2 = o2
    call = call
    vertify = vertify
    login = login
    logoff = logoff
    route = route
    c1 = c1
    dialled = dialled
    w1 = w1
    sep = sep
    NONE = NONE
    Req <- MCReq
    Conn <- MCConn
    From <- MCFrom
    Kind <- MCKind
    Rsp <- MCRsp
    Worker <- MCWorker
    OfGate <- MCOfGate
    Dialled <- MCDialled
    Counted <- MCCounted
    UsesDb <- MCUsesDb
    Vertify <- MCVertify
    KeyOk <- MCVertify
    Sep <- sep
SPECIFICATION Spec
CHECK_DEADLOCK FALSE
INVARIANTS
    SizeCounts
    OrderedInOrder
    SyncFirst
    RefusedIffUnverified
    DrainedOnExit
    NoFalseSuccess
PROPERTIES
    ServedUnlessStopped
    StopReturns
