------------------------------ MODULE ReadLoop ------------------------------
(***************************************************************************)
(* HandleRead of one end of a connection (TcpClient in msf_tcp_server.go,  *)
(* Remote in msf_remote_mgr.go): how packets are cut out of the bytes that *)
(* single reads return, and how heartbeats tell a silent peer from a dead  *)
(* one.                                                                    *)
(*                                                                         *)
(* A packet is a sequence of bytes, sent behind its length in two bytes.   *)
(* Decoding may keep the reader waiting (ProduceTaskSeparate, a login).    *)
(* The peer answers a heartbeat request within Delay units of time.        *)
(***************************************************************************)
EXTENDS Naturals, Sequences

CONSTANTS Byte,            \* the number of values of a byte
          MAX_PACKET_SIZE,
          RECV_BUF_MAX_LEN,
          Payload,         \* the packets that the peer sends by itself
          HeartBeatRsp,    \* its answer to a heartbeat
          MaxPending,      \* bound: packets on their way
          Warn, Dead,      \* idle times: send heartbeats, give the peer up
          Delay, Stall,    \* bounds: of the peer's answer, of one decoding
          NoTime           \* not a time

Octet == 0..(Byte - 1)

Packet == Payload \cup {HeartBeatRsp}

ASSUME SizeAssumption == /\ Byte \in Nat /\ MAX_PACKET_SIZE \in Nat
                         /\ MAX_PACKET_SIZE < Byte * Byte
                         /\ \A p \in Packet : /\ p \in Seq(Octet)
                                              /\ Len(p) \in 1..MAX_PACKET_SIZE

(* No packet fills the buffer: 10 MB against 64 KB. *)
ASSUME BufferAssumption == RECV_BUF_MAX_LEN > Byte * Byte

ASSUME IdleAssumption == /\ Warn \in Nat /\ Dead \in Nat /\ Delay \in Nat /\ Stall \in Nat
                         /\ NoTime \notin Nat
                         /\ Warn + 1 + Delay <= Dead
                         /\ Stall + Delay <= Dead

VARIABLES wire,        \* bytes sent and not read
          buf,         \* recvBuf[:remainLen]
          pending,     \* packets sent and not decoded
          got,         \* the packets that the last read handed to RpcDecode
          idle,        \* now - lastActiveTime
          busy,        \* for how long the reader has been decoding, or NoTime
          polled,      \* the read deadline has passed in this unit of time
          ask,         \* for how long the peer has owed an answer, or NoTime
          peer, conn   \* "up" or "dead"; "open" or "closed"

loopVars == <<wire, buf, pending, got, idle, busy, polled, ask, peer, conn>>

LoopInit == /\ wire = <<>> /\ buf = <<>> /\ pending = <<>> /\ got = <<>>
            /\ idle = 0 /\ busy = NoTime /\ polled = FALSE
            /\ ask = NoTime
            /\ peer = "up" /\ conn = "open"

(***************************************************************************)
(* MessageEncode; WriteUint16 puts the high byte first.                    *)
(***************************************************************************)
MessageEncode(p) == <<(Len(p) \div Byte) % Byte, Len(p) % Byte>> \o p

Encoded(ps) ==
    LET first[n \in 0..Len(ps)] ==
          IF n = 0 THEN <<>> ELSE first[n - 1] \o MessageEncode(ps[n])
    IN  first[Len(ps)]

ReadPacketLen(b, offset) == b[offset + 1] * Byte + b[offset + 2]

TooLong(p) == Len(p) > MAX_PACKET_SIZE

(***************************************************************************)
(* MessageDecode: the frames that are complete, the packets in them that   *)
(* it hands to RpcDecode, and where it stops.                              *)
(***************************************************************************)
MessageDecode(b) ==
    LET from[offset \in 0..Len(b)] ==
          IF \/ Len(b) - offset < 2
             \/ Len(b) - offset < 2 + ReadPacketLen(b, offset)
          THEN [frames |-> 0, packets |-> <<>>, offset |-> offset]
          ELSE LET end == offset + 2 + ReadPacketLen(b, offset)
                   p == SubSeq(b, offset + 3, end)
               IN  [frames |-> from[end].frames + 1,
                    packets |-> (IF TooLong(p) THEN <<>> ELSE <<p>>) \o from[end].packets,
                    offset |-> from[end].offset]
    IN  from[0]
-----------------------------------------------------------------------------
Transmit(p) == /\ wire' = wire \o MessageEncode(p)
               /\ pending' = Append(pending, p)

(***************************************************************************)
(* The peer sends a packet, answers the heartbeat, or falls silent with    *)
(* no word of it (its machine or the network is gone).                     *)
(***************************************************************************)
PeerSends == /\ conn = "open" /\ peer = "up"
             /\ Len(pending) < MaxPending
             /\ \E p \in Payload : Transmit(p)
             /\ UNCHANGED <<buf, got, idle, busy, polled, ask, peer, conn>>

Answer == /\ conn = "open" /\ peer = "up"
          /\ ask # NoTime
          /\ Transmit(HeartBeatRsp)
          /\ ask' = NoTime
          /\ UNCHANGED <<buf, got, idle, busy, polled, peer, conn>>

Die == /\ conn = "open" /\ peer = "up"
       /\ peer' = "dead"
       /\ UNCHANGED <<wire, buf, pending, got, idle, busy, polled, ask, conn>>
-----------------------------------------------------------------------------
(* Faulty variant: bytes of an incomplete packet are dropped. *)
RestDropped(b, d) == <<>>

(***************************************************************************)
(* copy(recvBuf, recvBuf[procLen : procLen + remainLen])                   *)
(***************************************************************************)
Rest(b, d) == SubSeq(b, d.offset + 1, Len(b))

(***************************************************************************)
(* conn.Read returns some of the bytes, as far as the buffer has room; the *)
(* packets that are complete now are decoded, which may take time.         *)
(***************************************************************************)
ReadBytes ==
    /\ conn = "open" /\ busy = NoTime
    /\ \E n \in 1..Len(wire) :
          /\ Len(buf) + n <= RECV_BUF_MAX_LEN
          /\ LET b == buf \o SubSeq(wire, 1, n)
                 d == MessageDecode(b)
             IN  /\ buf' = Rest(b, d)
                 /\ got' = d.packets
                 /\ pending' = SubSeq(pending, d.frames + 1, Len(pending))
                 /\ busy' \in IF got' = <<>> THEN {NoTime} ELSE {NoTime, 0}
          /\ wire' = SubSeq(wire, n + 1, Len(wire))
    /\ idle' = 0
    /\ UNCHANGED <<polled, ask, peer, conn>>

DecodeEnds == /\ conn = "open" /\ busy # NoTime
              /\ busy' = NoTime
              /\ UNCHANGED <<wire, buf, pending, got, idle, polled, ask, peer, conn>>

(* Faulty variant: heartbeats only, nobody is given up. *)
TimeoutGoesOn ==
    /\ conn = "open" /\ busy = NoTime
    /\ wire = <<>> /\ ~polled
    /\ polled' = TRUE
    /\ ask' = IF idle > Warn /\ ask = NoTime THEN 0 ELSE ask
    /\ UNCHANGED <<wire, buf, pending, got, idle, busy, peer, conn>>

(* Faulty variant: off by one. *)
TimeoutHasty ==
    /\ conn = "open" /\ busy = NoTime
    /\ wire = <<>> /\ ~polled
    /\ polled' = TRUE
    /\ conn' = IF idle >= Dead THEN "closed" ELSE "open"
    /\ ask' = IF idle \in Warn + 1..Dead /\ ask = NoTime THEN 0 ELSE ask
    /\ UNCHANGED <<wire, buf, pending, got, idle, busy, peer>>

(***************************************************************************)
(* The read deadline passes (every 100 ms) while nothing is to be read.    *)
(***************************************************************************)
Timeout ==
    /\ conn = "open" /\ busy = NoTime
    /\ wire = <<>> /\ ~polled
    /\ polled' = TRUE
    /\ conn' = IF idle > Dead THEN "closed" ELSE "open"
    /\ ask' = IF idle \in Warn + 1..Dead /\ ask = NoTime THEN 0 ELSE ask
    /\ UNCHANGED <<wire, buf, pending, got, idle, busy, peer>>

(***************************************************************************)
(* A read or a heartbeat fails: the word came after all that the peer is   *)
(* gone.                                                                   *)
(***************************************************************************)
Fail == /\ conn = "open" /\ busy = NoTime
        /\ peer = "dead"
        /\ conn' = "closed"
        /\ UNCHANGED <<wire, buf, pending, got, idle, busy, polled, ask, peer>>

Older(t) == IF t = NoTime THEN NoTime ELSE t + 1

(***************************************************************************)
(* A unit of time passes: not before the reader has polled, unless it is   *)
(* busy, nor beyond the bounds of the peer's answer and of the decoding.   *)
(***************************************************************************)
Tick ==
    /\ conn = "open"
    /\ busy = NoTime => polled
    /\ busy # NoTime => busy < Stall
    /\ peer = "up" /\ ask # NoTime => ask < Delay
    /\ idle' = IF idle > Dead THEN idle ELSE idle + 1
    /\ busy' = Older(busy)
    /\ ask' = IF peer = "up" THEN Older(ask) ELSE ask
    /\ polled' = FALSE
    /\ UNCHANGED <<wire, buf, pending, got, peer, conn>>

LoopNext == PeerSends \/ Answer \/ Die \/ ReadBytes \/ DecodeEnds \/ Timeout \/ Fail \/ Tick

(***************************************************************************)
(* Time passes and the reader runs.  Nothing makes the peer send, answer   *)
(* or die, and an error need not be reported.                              *)
(***************************************************************************)
LoopSpec == /\ LoopInit /\ [][LoopNext]_loopVars
            /\ WF_loopVars(Tick)
            /\ WF_loopVars(ReadBytes \/ DecodeEnds \/ Timeout)
-----------------------------------------------------------------------------
(***************************************************************************)
(* However the reads cut the stream, the reader stays in step with it: the *)
(* bytes it keeps and those to come are those of the packets not decoded   *)
(* yet, and each read decodes the packets sent first, each once, in order. *)
(***************************************************************************)
FramingExact ==
    [][/\ buf' \o wire' = Encoded(pending')
       /\ pending' # pending /\ Len(pending') <= Len(pending) =>
             pending = got' \o pending']_loopVars

(***************************************************************************)
(* Its inductive invariant.                                                *)
(***************************************************************************)
FrameInv == /\ pending \in Seq(Packet)
            /\ buf \in Seq(Octet) /\ wire \in Seq(Octet)
            /\ buf \o wire = Encoded(pending)

(***************************************************************************)
(* A peer that answers its heartbeats in time is never given up, however   *)
(* long it has nothing else to say.                                        *)
(***************************************************************************)
LivePeerKept == peer = "up" => conn = "open"

(***************************************************************************)
(* The inductive invariant: how long the reader can have been idle, seen   *)
(* from what it and the peer owe each other.  The first heartbeat is sent  *)
(* after Warn, or later if a decoding kept the reader from it.             *)
(***************************************************************************)
TimesOK == /\ idle \in Nat
           /\ busy \in Nat \cup {NoTime}
           /\ ask \in Nat \cup {NoTime}
           /\ polled \in BOOLEAN

FirstAsk(t) == t <= Warn + 1 \/ t <= Stall

IdleInv ==
    /\ busy # NoTime => /\ busy <= Stall
                        /\ idle = busy
                        /\ polled => busy = 0
    /\ peer = "up" /\ ask # NoTime => ask <= Delay
    /\ peer = "up" /\ conn = "open" /\ wire = <<>> =>
          /\ ask # NoTime => FirstAsk(idle - ask)
          /\ ask = NoTime => FirstAsk(idle)
          /\ ask = NoTime /\ polled => idle <= Warn

(***************************************************************************)
(* A peer that fell silent is given up.                                    *)
(***************************************************************************)
DeadPeerDropped == peer = "dead" ~> conn = "closed"
=============================================================================
