CONSTANTS
    NoTime = NoTime
    Byte = 2
    MAX_PACKET_SIZE = 3
    RECV_BUF_MAX_LEN = 5
    Payload <- MCPayload
    HeartBeatRsp <- MCHeartBeatRsp
    MaxPending = 3
    Warn = 2
    Dead = 5
    Delay = 2
    Stall = 3
SPECIFICATION LoopSpec
CHECK_DEADLOCK FALSE
INVARIANTS
    LivePeerKept
PROPERTIES
    FramingExact
    DeadPeerDropped
