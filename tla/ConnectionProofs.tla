-------------------------- MODULE ConnectionProofs --------------------------
(***************************************************************************)
(* Proofs about the connections of a process: the reading end of one to a  *)
(* peer (ReadLoop, for all packets, buffer sizes, thresholds and delays    *)
(* that the assumptions allow), and the one to etcd (EtcdDriver, for any   *)
(* number of failures and crashes).                                        *)
(***************************************************************************)
EXTENDS ReadLoop, EtcdDriver, WellFoundedInduction, TLAPS

USE ZenonT(5), SMTT(60), SMTT(90)

LEMMA IdleInit == LoopInit => TimesOK /\ IdleInv /\ LivePeerKept
<1> SUFFICES ASSUME LoopInit PROVE TimesOK /\ IdleInv /\ LivePeerKept
  OBVIOUS
<1>1. TimesOK
  BY ZenonT(60), 0 \in Nat DEF LoopInit, TimesOK
<1>2. IdleInv
  BY IdleAssumption DEF LoopInit, IdleInv, FirstAsk
<1>3. LivePeerKept
  BY DEF LoopInit, LivePeerKept
<1> QED
  BY <1>1, <1>2, <1>3

LEMMA IdleStep ==
  TimesOK /\ IdleInv /\ LivePeerKept /\ [LoopNext]_loopVars
     => (TimesOK /\ IdleInv /\ LivePeerKept)'
<1> SUFFICES ASSUME TimesOK, IdleInv, LivePeerKept, [LoopNext]_loopVars
             PROVE  (TimesOK /\ IdleInv /\ LivePeerKept)'
  OBVIOUS
<1> USE IdleAssumption DEF TimesOK, IdleInv, FirstAsk, LivePeerKept
<1>1. CASE PeerSends
  BY <1>1 DEF PeerSends, Transmit, MessageEncode
<1>2. CASE Answer
  BY <1>2 DEF Answer, Transmit, MessageEncode
<1>3. CASE Die
  BY <1>3 DEF Die
<1>4. CASE ReadBytes
  <2>1. /\ conn = "open" /\ idle' = 0
        /\ busy' = NoTime \/ busy' = 0
        /\ UNCHANGED <<polled, ask, peer, conn>>
    BY <1>4 DEF ReadBytes
  <2> QED
    BY <2>1
<1>5. CASE DecodeEnds
  BY <1>5 DEF DecodeEnds
<1>6. CASE Timeout
  BY <1>6 DEF Timeout
<1>7. CASE Fail
  BY <1>7 DEF Fail
<1>8. CASE Tick
  <2> USE DEF Tick, Older
  <2>1. /\ idle' \in Nat
        /\ busy' \in Nat \cup {NoTime}
        /\ ask' \in Nat \cup {NoTime}
        /\ polled' = FALSE
        /\ LivePeerKept'
    BY <1>8
  <2>2. busy' # NoTime => busy' <= Stall /\ idle' = busy' /\ ~polled'
    BY <1>8
  <2>3. peer = "up" /\ ask' # NoTime => ask' <= Delay
    BY <1>8
  <2>4. ASSUME peer = "up", wire = <<>>
        PROVE  /\ ask' # NoTime => FirstAsk(idle' - ask')
               /\ ask' = NoTime => FirstAsk(idle')
    <3>1. CASE ask = NoTime /\ busy = NoTime
      BY <1>8, <2>4, <3>1
    <3>2. CASE ask = NoTime /\ busy # NoTime
      BY <1>8, <2>4, <3>2
    <3>3. CASE ask # NoTime
      BY <1>8, <2>4, <3>3
    <3> QED
      BY <3>1, <3>2, <3>3
  <2>5. UNCHANGED <<wire, peer, conn>>
    BY <1>8
  <2>6. IdleInv'
    BY ONLY <2>1, <2>2, <2>3, <2>4, <2>5 DEF IdleInv
  <2>7. TimesOK'
    BY ONLY <2>1, ZenonT(60) DEF TimesOK
  <2> QED
    BY ONLY <2>1, <2>6, <2>7
<1>9. CASE UNCHANGED loopVars
  BY <1>9 DEF loopVars
<1> QED
  BY ONLY [LoopNext]_loopVars, <1>1, <1>2, <1>3, <1>4, <1>5, <1>6, <1>7, <1>8, <1>9,
     ZenonT(60) DEF LoopNext

(***************************************************************************)
(* A peer that answers its heartbeats within Delay is never given up, for  *)
(* all thresholds and delays that fit together.                            *)
(***************************************************************************)
THEOREM LivePeerKeptHolds == LoopSpec => []LivePeerKept
<1>1. LoopInit => TimesOK /\ IdleInv /\ LivePeerKept
  BY IdleInit
<1>2. TimesOK /\ IdleInv /\ LivePeerKept /\ [LoopNext]_loopVars
         => (TimesOK /\ IdleInv /\ LivePeerKept)'
  BY IdleStep
<1> QED
  BY <1>1, <1>2, PTL DEF LoopSpec
-----------------------------------------------------------------------------
(***************************************************************************)
(* The framing of the stream. Encoded and MessageDecode are recursive      *)
(* functions of the data, so the facts about them are proved by induction: *)
(* UpTo is induction up to a bound, from the least counterexample.         *)
(***************************************************************************)
LEMMA UpTo ==
  ASSUME NEW C \in Nat, NEW T \in SUBSET Nat, 0 \in T,
         \A i \in 1..C : i - 1 \in T => i \in T
  PROVE  0..C \subseteq T
<1> DEFINE F == (0..C) \ T
<1>1. SUFFICES ASSUME F # {} PROVE FALSE
  OBVIOUS
<1>2. F \in SUBSET Nat
  BY SMTT(30)
<1>3. PICK i \in F : \A y \in F : <<y, i>> \notin OpToRel(<, Nat)
  BY <1>1, <1>2, WFMin, NatLessThanWellFounded, ZenonT(20)
<1>4. i \in 0..C /\ i \notin T /\ \A y \in 0..C : y \notin T => ~(y < i)
  BY <1>2, <1>3 DEF OpToRel
<1>5. i # 0
  BY <1>4
<1>6. i \in 1..C /\ i - 1 \in 0..C /\ i - 1 < i
  BY <1>4, <1>5
<1> QED
  BY <1>4, <1>6

(***************************************************************************)
(* Two bytes hold the length of every packet.                              *)
(***************************************************************************)
LEMMA TwoBytes ==
  ASSUME NEW B \in Nat, NEW n \in Nat, n < B * B
  PROVE  /\ (n \div B) % B \in 0..(B - 1) /\ n % B \in 0..(B - 1)
         /\ ((n \div B) % B) * B + (n % B) = n
<1> DEFINE q == n \div B
           r == n % B
<1>1. B > 0
  BY SMTT(30)
<1>2. q \in Int /\ r \in 0..(B - 1) /\ n = q * B + r
  BY <1>1, SMTT(30)
<1> HIDE DEF q, r
<1>3. q >= 0
  BY <1>1, <1>2, SMTT(30)
<1>4. q < B
  BY <1>1, <1>2, SMTT(30)
<1>5. q % B = q
  BY <1>1, <1>2, <1>3, <1>4, SMTT(30)
<1>6. (n \div B) % B = q /\ n % B = r
  BY <1>5, ZenonT(20) DEF q, r
<1>7. q \in 0..(B - 1)
  BY <1>2, <1>3, <1>4, SMTT(30)
<1> QED
  BY ONLY <1>2, <1>6, <1>7

LEMMA TwoBefore ==
  ASSUME NEW S, NEW a \in S, NEW c \in S, NEW p \in Seq(S)
  PROVE  /\ <<a, c>> \o p \in Seq(S) /\ Len(<<a, c>> \o p) = Len(p) + 2
         /\ (<<a, c>> \o p)[1] = a /\ (<<a, c>> \o p)[2] = c
         /\ \A i \in 1..Len(p) : (<<a, c>> \o p)[i + 2] = p[i]
BY SMTT(30)

LEMMA EncodedPacket ==
  ASSUME NEW p \in Packet
  PROVE  /\ p \in Seq(Octet) /\ Len(p) \in Nat /\ ~TooLong(p)
         /\ MessageEncode(p) \in Seq(Octet) /\ Len(MessageEncode(p)) = Len(p) + 2
         /\ MessageEncode(p)[1] * Byte + MessageEncode(p)[2] = Len(p)
         /\ \A i \in 1..Len(p) : MessageEncode(p)[i + 2] = p[i]
<1> DEFINE h == (Len(p) \div Byte) % Byte
           l == Len(p) % Byte
<1>1. p \in Seq(Octet) /\ Len(p) \in Nat /\ Len(p) < Byte * Byte /\ ~TooLong(p) /\ Byte \in Nat
  BY SizeAssumption DEF Octet, TooLong
<1>2. h \in 0..(Byte - 1) /\ l \in 0..(Byte - 1) /\ h * Byte + l = Len(p)
  <2> DEFINE n == Len(p)
  <2> HIDE DEF n
  <2>1. n \in Nat /\ n < Byte * Byte /\ Byte \in Nat
    BY <1>1 DEF n
  <2>2. /\ (n \div Byte) % Byte \in 0..(Byte - 1) /\ n % Byte \in 0..(Byte - 1)
        /\ ((n \div Byte) % Byte) * Byte + (n % Byte) = n
    BY ONLY <2>1, TwoBytes, ZenonT(20)
  <2> QED
    BY <2>2 DEF n
<1>3. MessageEncode(p) = <<h, l>> \o p
  BY DEF MessageEncode
<1> HIDE DEF h, l
<1>4. h \in Octet /\ l \in Octet
  BY <1>2 DEF Octet
<1>5. /\ MessageEncode(p) \in Seq(Octet) /\ Len(MessageEncode(p)) = Len(p) + 2
      /\ MessageEncode(p)[1] = h /\ MessageEncode(p)[2] = l
      /\ \A i \in 1..Len(p) : MessageEncode(p)[i + 2] = p[i]
  BY ONLY <1>1, <1>3, <1>4, TwoBefore, SMTT(30)
<1> QED
  BY ONLY <1>1, <1>2, <1>5, ZenonT(20)

(***************************************************************************)
(* What the recursive definition of Encoded says.                          *)
(***************************************************************************)
FirstEntry(ps, f, n) == IF n = 0 THEN <<>> ELSE f[n - 1] \o MessageEncode(ps[n])

EncodesTo(ps, f) == f = [n \in 0..Len(ps) |-> FirstEntry(ps, f, n)]

LEMMA FirstExists ==
  ASSUME NEW ps, Len(ps) \in Nat
  PROVE  \E f : EncodesTo(ps, f)
<1> DEFINE N == Len(ps)
           P(g, C) == g = [n \in 0..C |-> FirstEntry(ps, g, n)]
           T == {C \in Nat : \E g : P(g, C)}
<1>1. 0 \in T
  <2> DEFINE g == [n \in 0..0 |-> <<>>]
  <2>1. P(g, 0)
    BY DEF FirstEntry
  <2> QED
    BY <2>1, ZenonT(20)
<1>2. ASSUME NEW i \in 1..N, i - 1 \in T PROVE i \in T
  <2>1. PICK g : P(g, i - 1)
    BY <1>2, ZenonT(20)
  <2> DEFINE h == [n \in 0..i |-> IF n = i THEN g[i - 1] \o MessageEncode(ps[i]) ELSE g[n]]
  <2>2. \A n \in 0..i : h[n] = FirstEntry(ps, h, n)
    <3> TAKE n \in 0..i
    <3>1. n # 0 => n - 1 \in 0..(i - 1) /\ h[n - 1] = g[n - 1]
      BY SMTT(30)
    <3>2. n # i => n \in 0..(i - 1) /\ h[n] = g[n]
      BY SMTT(30)
    <3>3. n = i => n # 0 /\ h[n] = g[n - 1] \o MessageEncode(ps[n])
      <4>1. i # 0
        BY SMTT(30)
      <4> QED
        BY <4>1, ZenonT(20)
    <3>4. n \in 0..(i - 1) => g[n] = FirstEntry(ps, g, n)
      BY <2>1, ZenonT(20)
    <3> HIDE DEF h
    <3> QED
      BY ONLY <3>1, <3>2, <3>3, <3>4, ZenonT(20) DEF FirstEntry
  <2>3. P(h, i)
    <3>1. h = [n \in 0..i |-> h[n]]
      BY ZenonT(20)
    <3> HIDE DEF h
    <3> QED
      BY ONLY <2>2, <3>1, ZenonT(20)
  <2>4. i \in Nat
    BY SMTT(30)
  <2> HIDE DEF P
  <2> QED
    BY <2>3, <2>4, ZenonT(20)
<1>3. N \in T
  <2>1. N \in Nat /\ T \in SUBSET Nat /\ N \in 0..N
    BY SMTT(30)
  <2> HIDE DEF T, N
  <2> QED
    BY <1>1, <1>2, <2>1, UpTo, ZenonT(20)
<1> QED
  BY <1>3, ZenonT(20) DEF EncodesTo

LEMMA EncodedIs ==
  ASSUME NEW ps, Len(ps) \in Nat
  PROVE  \E f : EncodesTo(ps, f) /\ Encoded(ps) = f[Len(ps)]
<1> DEFINE f == CHOOSE g : EncodesTo(ps, g)
<1>1. EncodesTo(ps, f)
  BY FirstExists, ZenonT(20)
<1>2. Encoded(ps) = f[Len(ps)]
  BY ZenonT(20) DEF Encoded, EncodesTo, FirstEntry
<1> QED
  BY <1>1, <1>2, ZenonT(20)

LEMMA Prefixes ==
  ASSUME NEW ps, Len(ps) \in Nat, NEW f, EncodesTo(ps, f)
  PROVE  /\ f[0] = <<>>
         /\ \A n \in 1..Len(ps) : f[n] = f[n - 1] \o MessageEncode(ps[n])
<1>1. 0 \in 0..Len(ps) /\ \A n \in 1..Len(ps) : n \in 0..Len(ps) /\ n # 0
  BY SMTT(30)
<1>2. \A n \in 0..Len(ps) : f[n] = FirstEntry(ps, f, n)
  BY ZenonT(20) DEF EncodesTo
<1> QED
  BY <1>1, <1>2, ZenonT(20) DEF FirstEntry

LEMMA PrefixTypes ==
  ASSUME NEW ps \in Seq(Packet), NEW f, EncodesTo(ps, f), NEW n \in 0..Len(ps)
  PROVE  f[n] \in Seq(Octet)
<1> DEFINE N == Len(ps)
           T == {i \in Nat : i <= N => f[i] \in Seq(Octet)}
<1>0. N \in Nat /\ \A i \in 1..N : ps[i] \in Packet
  BY SMTT(30)
<1>1. 0 \in T
  <2>1. f[0] = <<>>
    BY <1>0, Prefixes, ZenonT(20)
  <2>2. <<>> \in Seq(Octet) /\ 0 \in Nat
    BY SMTT(30)
  <2> QED
    BY <2>1, <2>2, ZenonT(20)
<1>2. ASSUME NEW i \in 1..N, i - 1 \in T PROVE i \in T
  <2>1. f[i - 1] \in Seq(Octet) /\ i \in Nat
    BY <1>2, SMTT(30)
  <2>2. f[i] = f[i - 1] \o MessageEncode(ps[i])
    BY <1>0, Prefixes, ZenonT(20)
  <2>3. MessageEncode(ps[i]) \in Seq(Octet)
    BY <1>0, EncodedPacket, ZenonT(20)
  <2>4. f[i] \in Seq(Octet)
    BY ONLY <2>1, <2>2, <2>3, SMTT(30)
  <2> QED
    BY <2>1, <2>4, ZenonT(20)
<1>3. N \in Nat /\ T \in SUBSET Nat
  BY SMTT(30)
<1>4. 0..N \subseteq T
  <2> HIDE DEF T, N
  <2> QED
    BY <1>1, <1>2, <1>3, UpTo, ZenonT(20)
<1> QED
  BY <1>3, <1>4, SMTT(30)

(***************************************************************************)
(* Packets that are sent one after the other are encoded one after the     *)
(* other.                                                                  *)
(***************************************************************************)
PartOf(ts, ps, j) == /\ j + Len(ts) <= Len(ps)
                     /\ \A m \in 1..Len(ts) : ts[m] = ps[j + m]

Continues(f, g, j, n) == f[j + n] = f[j] \o g[n]

LEMMA Associative == \A s, t, u \in Seq(Octet) : (s \o t) \o u = s \o (t \o u)
BY SMTT(30)

LEMMA Shift ==
  ASSUME NEW ps \in Seq(Packet), NEW ts \in Seq(Packet), NEW j \in 0..Len(ps),
         PartOf(ts, ps, j), NEW f, EncodesTo(ps, f), NEW g, EncodesTo(ts, g), NEW n \in 0..Len(ts)
  PROVE  Continues(f, g, j, n)
<1> DEFINE M == Len(ts)
           T == {i \in Nat : i <= M => f[j + i] = f[j] \o g[i]}
<1>0. /\ M \in Nat /\ Len(ps) \in Nat /\ f[j] \in Seq(Octet) /\ j + 0 = j
      /\ \A i \in 1..M : ts[i] \in Packet
  BY PrefixTypes, SMTT(30)
<1>1. 0 \in T
  <2>1. g[0] = <<>>
    BY <1>0, Prefixes, ZenonT(20)
  <2>2. f[j] \o <<>> = f[j]
    BY ONLY <1>0, SMTT(30)
  <2> QED
    BY ONLY <1>0, <2>1, <2>2, 0 \in Nat, ZenonT(20)
<1>2. ASSUME NEW i \in 1..M, i - 1 \in T PROVE i \in T
  <2>0. /\ i \in Nat /\ i - 1 \in 0..M /\ i - 1 <= M /\ j + i \in 1..Len(ps)
        /\ j + (i - 1) = (j + i) - 1
    BY <1>0, SMTT(30) DEF PartOf
  <2>1. f[j + (i - 1)] = f[j] \o g[i - 1]
    BY <1>2, <2>0, ZenonT(20)
  <2>2. /\ f[j + i] = f[(j + i) - 1] \o MessageEncode(ps[j + i])
        /\ g[i] = g[i - 1] \o MessageEncode(ts[i])
    BY <1>0, <2>0, Prefixes, ZenonT(20)
  <2>3. g[i - 1] \in Seq(Octet) /\ MessageEncode(ts[i]) \in Seq(Octet)
    BY <1>0, <2>0, PrefixTypes, EncodedPacket, ZenonT(20)
  <2>4. f[j + i] = (f[j] \o g[i - 1]) \o MessageEncode(ts[i])
    BY <2>0, <2>1, <2>2, ZenonT(20) DEF PartOf
  <2>5. (f[j] \o g[i - 1]) \o MessageEncode(ts[i]) = f[j] \o (g[i - 1] \o MessageEncode(ts[i]))
    BY ONLY <1>0, <2>3, Associative, ZenonT(20)
  <2> QED
    BY ONLY <2>0, <2>2, <2>4, <2>5, ZenonT(20)
<1>3. M \in Nat /\ T \in SUBSET Nat
  BY <1>0, ZenonT(20)
<1>4. 0..M \subseteq T
  <2> HIDE DEF T, M
  <2> QED
    BY <1>1, <1>2, <1>3, UpTo, ZenonT(20)
<1>5. n \in 0..M /\ n <= M
  BY <1>0, SMTT(30)
<1> QED
  BY <1>4, <1>5, ZenonT(20) DEF Continues

(***************************************************************************)
(* A packet that is sent adds its own bytes at the end.                    *)
(***************************************************************************)
LEMMA EncodedAppend ==
  ASSUME NEW ps \in Seq(Packet), NEW p \in Packet
  PROVE  Encoded(Append(ps, p)) = Encoded(ps) \o MessageEncode(p)
<1> DEFINE qs == Append(ps, p)
           N == Len(ps)
<1>1. /\ qs \in Seq(Packet) /\ N \in Nat /\ Len(qs) = N + 1 /\ Len(qs) \in Nat
      /\ PartOf(ps, qs, 0)
      /\ 0 \in 0..Len(qs) /\ 0 + N = N /\ N \in 0..N
      /\ N + 1 \in 1..Len(qs) /\ (N + 1) - 1 = N /\ qs[N + 1] = p
  BY SMTT(30) DEF PartOf
<1> HIDE DEF qs, N
<1>2. PICK f : EncodesTo(qs, f) /\ Encoded(qs) = f[Len(qs)]
  BY <1>1, EncodedIs, ZenonT(20)
<1>3. PICK g : EncodesTo(ps, g) /\ Encoded(ps) = g[N]
  BY <1>1, EncodedIs, ZenonT(20) DEF N
<1>4. f[0] = <<>> /\ f[N + 1] = f[N] \o MessageEncode(p)
  BY ONLY <1>1, <1>2, Prefixes, ZenonT(20)
<1>5. Continues(f, g, 0, N)
  BY <1>1, <1>2, <1>3, Shift, ZenonT(20) DEF N
<1>6. g[N] \in Seq(Octet)
  BY <1>1, <1>3, PrefixTypes, ZenonT(20) DEF N
<1>7. <<>> \o g[N] = g[N]
  BY ONLY <1>6, SMTT(30)
<1> QED
  BY ONLY <1>1, <1>2, <1>3, <1>4, <1>5, <1>7, ZenonT(20) DEF qs, Continues

(***************************************************************************)
(* The bytes of the packets up to n come first, then those of the others.  *)
(***************************************************************************)
LEMMA EncodedRest ==
  ASSUME NEW ps \in Seq(Packet), NEW f, EncodesTo(ps, f), NEW n \in 0..Len(ps)
  PROVE  /\ Encoded(SubSeq(ps, n + 1, Len(ps))) \in Seq(Octet)
         /\ f[Len(ps)] = f[n] \o Encoded(SubSeq(ps, n + 1, Len(ps)))
<1> DEFINE ts == SubSeq(ps, n + 1, Len(ps))
           M == Len(ts)
<1>1. /\ ts \in Seq(Packet) /\ M \in Nat /\ n + M = Len(ps) /\ M \in 0..M
      /\ PartOf(ts, ps, n)
  BY SMTT(30) DEF PartOf
<1> HIDE DEF ts
<1>2. PICK g : EncodesTo(ts, g) /\ Encoded(ts) = g[Len(ts)]
  BY <1>1, EncodedIs, ZenonT(20)
<1>3. Continues(f, g, n, M)
  BY <1>1, <1>2, Shift, ZenonT(20)
<1>4. g[M] \in Seq(Octet)
  BY <1>1, <1>2, PrefixTypes, ZenonT(20)
<1> QED
  BY ONLY <1>1, <1>2, <1>3, <1>4, ZenonT(20) DEF ts, Continues

(***************************************************************************)
(* The frame of packet n in the stream.                                    *)
(***************************************************************************)
StandsAt(e, X, o) == \A i \in 1..Len(e) : X[o + i] = e[i]

LEMMA InTheMiddle ==
  ASSUME NEW S, NEW a \in Seq(S), NEW e \in Seq(S), NEW c \in Seq(S)
  PROVE  /\ Len(a \o e) = Len(a) + Len(e) /\ Len(a \o e) <= Len((a \o e) \o c)
         /\ StandsAt(e, (a \o e) \o c, Len(a))
BY SMTT(30) DEF StandsAt

FrameAt(ps, f, n, X, o) ==
    /\ Len(f[n]) = o + 2 + Len(ps[n])
    /\ ReadPacketLen(X, o) = Len(ps[n])
    /\ StandsAt(ps[n], X, o + 2)

LEMMA Frame ==
  ASSUME NEW ps \in Seq(Packet), NEW f, EncodesTo(ps, f), NEW n \in 1..Len(ps)
  PROVE  FrameAt(ps, f, n, f[Len(ps)], Len(f[n - 1]))
<1> DEFINE X == f[Len(ps)]
           o == Len(f[n - 1])
           e == MessageEncode(ps[n])
           p == ps[n]
           c == Encoded(SubSeq(ps, n + 1, Len(ps)))
<1>1. Len(ps) \in Nat /\ p \in Packet /\ n \in 0..Len(ps) /\ n - 1 \in 0..Len(ps)
  BY SMTT(30)
<1>2. f[n] = f[n - 1] \o e
  BY <1>1, Prefixes, ZenonT(20)
<1>3. c \in Seq(Octet) /\ X = f[n] \o c
  BY <1>1, EncodedRest, ZenonT(20)
<1>4. f[n - 1] \in Seq(Octet)
  BY <1>1, PrefixTypes, ZenonT(20)
<1>5. /\ e \in Seq(Octet) /\ Len(p) \in Nat /\ Len(e) = Len(p) + 2
      /\ e[1] * Byte + e[2] = Len(p)
      /\ \A i \in 1..Len(p) : e[i + 2] = p[i]
  BY <1>1, EncodedPacket, ZenonT(20)
<1>6. /\ Len(f[n]) = o + Len(e) /\ Len(f[n]) <= Len(X)
      /\ StandsAt(e, X, o)
  <2> HIDE DEF e, c
  <2> DEFINE a == f[n - 1]
  <2> HIDE DEF a
  <2>1. X = (a \o e) \o c /\ f[n] = a \o e /\ o = Len(a) /\ a \in Seq(Octet)
    BY <1>2, <1>3, <1>4, ZenonT(20) DEF a
  <2>2. /\ Len(a \o e) = Len(a) + Len(e) /\ Len(a \o e) <= Len((a \o e) \o c)
        /\ StandsAt(e, (a \o e) \o c, Len(a))
    BY ONLY <1>3, <1>5, <2>1, InTheMiddle, ZenonT(20)
  <2> QED
    BY ONLY <2>1, <2>2, ZenonT(20)
<1>7. o \in Nat
  BY <1>4, SMTT(30)
<1> HIDE DEF e, c, p, X, o
<1>8. X[o + 1] = e[1] /\ X[o + 2] = e[2] /\ Len(f[n]) = o + 2 + Len(p)
  BY ONLY <1>5, <1>6, <1>7, SMTT(30) DEF StandsAt
<1>9. \A i \in 1..Len(p) : X[o + 2 + i] = p[i]
  <2> TAKE i \in 1..Len(p)
  <2>1. i + 2 \in 1..Len(e) /\ o + 2 + i = o + (i + 2)
    BY ONLY <1>5, <1>7, i \in 1..Len(p), SMTT(30)
  <2>2. X[o + (i + 2)] = e[i + 2] /\ e[i + 2] = p[i]
    BY ONLY <1>5, <1>6, <2>1, i \in 1..Len(p), ZenonT(20) DEF StandsAt
  <2> QED
    BY ONLY <2>1, <2>2, ZenonT(20)
<1> QED
  BY ONLY <1>5, <1>6, <1>7, <1>8, <1>9, ZenonT(20) DEF FrameAt, ReadPacketLen, StandsAt, p, X, o

(***************************************************************************)
(* What the recursive definition of MessageDecode says.                    *)
(***************************************************************************)
Stops(b, o) == \/ Len(b) - o < 2
               \/ Len(b) - o < 2 + ReadPacketLen(b, o)

EndOf(b, o) == o + 2 + ReadPacketLen(b, o)

Decoded(p, next) ==
    [frames |-> next.frames + 1,
     packets |-> (IF TooLong(p) THEN <<>> ELSE <<p>>) \o next.packets,
     offset |-> next.offset]

DecodeEntry(b, f, o) ==
    IF Stops(b, o) THEN [frames |-> 0, packets |-> <<>>, offset |-> o]
    ELSE Decoded(SubSeq(b, o + 3, EndOf(b, o)), f[EndOf(b, o)])

DecodesTo(b, f) == f = [o \in 0..Len(b) |-> DecodeEntry(b, f, o)]

LEMMA LaterEnd ==
  ASSUME NEW b \in Seq(Octet), NEW o \in 0..Len(b), ~Stops(b, o)
  PROVE  EndOf(b, o) \in (o + 1)..Len(b)
<1>1. Len(b) \in Nat /\ o + 1 \in 1..Len(b) /\ o + 2 \in 1..Len(b)
  BY SMTT(30) DEF Stops
<1>2. b[o + 1] \in Octet /\ b[o + 2] \in Octet /\ Byte \in Nat
  BY <1>1, SizeAssumption, SMTT(30)
<1>3. ReadPacketLen(b, o) \in Nat
  <2>1. b[o + 1] \in Nat /\ b[o + 2] \in Nat
    BY ONLY <1>2, SMTT(30) DEF Octet
  <2>2. \A x, y, z \in Nat : x * y + z \in Nat
    BY ONLY SMTT(30)
  <2> QED
    BY ONLY <1>2, <2>1, <2>2, ZenonT(20) DEF ReadPacketLen
<1> QED
  BY <1>1, <1>3, SMTT(30) DEF Stops, EndOf

LEMMA FromExists ==
  ASSUME NEW b \in Seq(Octet)
  PROVE  \E f : DecodesTo(b, f)
<1> DEFINE L == Len(b)
           P(g, C) == g = [o \in (L - C)..L |-> DecodeEntry(b, g, o)]
           T == {C \in Nat : C <= L => \E g : P(g, C)}
<1>0. L \in Nat
  BY SMTT(30)
<1>1. 0 \in T
  <2> DEFINE g == [o \in (L - 0)..L |-> [frames |-> 0, packets |-> <<>>, offset |-> o]]
  <2>1. ASSUME NEW o \in (L - 0)..L PROVE Stops(b, o)
    BY <1>0, SMTT(30) DEF Stops
  <2>2. P(g, 0)
    <3> DEFINE G == g
    <3>1. \A o \in (L - 0)..L : [frames |-> 0, packets |-> <<>>, offset |-> o] = DecodeEntry(b, G, o)
      <4> HIDE DEF G
      <4> QED
        BY ONLY <2>1, ZenonT(20) DEF DecodeEntry
    <3> QED
      BY ONLY <3>1, ZenonT(20)
  <2> HIDE DEF P
  <2> QED
    BY ONLY <2>2, 0 \in Nat, ZenonT(20)
<1>2. ASSUME NEW i \in 1..L, i - 1 \in T PROVE i \in T
  <2>0. i \in Nat /\ i - 1 <= L /\ L - i \in 0..L
    BY <1>0, SMTT(30)
  <2>1. PICK g : P(g, i - 1)
    BY <1>2, <2>0, ZenonT(20)
  <2> DEFINE h == [o \in (L - i)..L |-> IF o = L - i THEN DecodeEntry(b, g, o) ELSE g[o]]
  <2>2. \A o \in (L - (i - 1))..L : o \in (L - i)..L /\ o # L - i /\ h[o] = g[o]
    BY <1>0, SMTT(30)
  <2>3. \A o \in (L - (i - 1))..L : g[o] = DecodeEntry(b, g, o)
    BY <2>1, ZenonT(20)
  <2>4. \A o \in (L - i)..L : h[o] = DecodeEntry(b, h, o)
    <3> TAKE o \in (L - i)..L
    <3>1. o \in 0..L /\ (o # L - i => o \in (L - (i - 1))..L)
      BY <1>0, SMTT(30)
    <3>2. h[o] = DecodeEntry(b, g, o)
      <4>1. CASE o = L - i
        BY <4>1, ZenonT(20)
      <4>2. CASE o # L - i
        BY <2>2, <2>3, <3>1, <4>2, ZenonT(20)
      <4> QED
        BY <4>1, <4>2
    <3>3. ~Stops(b, o) => h[EndOf(b, o)] = g[EndOf(b, o)]
      <4> SUFFICES ASSUME ~Stops(b, o) PROVE h[EndOf(b, o)] = g[EndOf(b, o)]
        OBVIOUS
      <4>1. EndOf(b, o) \in (o + 1)..L
        BY <3>1, LaterEnd, ZenonT(20)
      <4>2. EndOf(b, o) \in (L - (i - 1))..L
        BY ONLY <1>0, <4>1, i \in 1..L, o \in (L - i)..L, SMTT(30)
      <4> QED
        BY ONLY <2>2, <4>2, ZenonT(20)
    <3> HIDE DEF h
    <3> QED
      BY ONLY <3>2, <3>3, ZenonT(20) DEF DecodeEntry
  <2>5. P(h, i)
    <3>1. h = [o \in (L - i)..L |-> h[o]]
      BY ZenonT(20)
    <3> HIDE DEF h
    <3> QED
      BY ONLY <2>4, <3>1, ZenonT(20)
  <2> HIDE DEF P
  <2> QED
    BY <2>0, <2>5, ZenonT(20)
<1>3. L \in T
  <2>1. T \in SUBSET Nat /\ L \in 0..L
    BY <1>0, SMTT(30)
  <2> HIDE DEF T, L
  <2> QED
    BY <1>0, <1>1, <1>2, <2>1, UpTo, ZenonT(20)
<1>4. L - L = 0 /\ L <= L
  BY <1>0, SMTT(30)
<1> QED
  BY <1>3, <1>4, ZenonT(20) DEF DecodesTo

LEMMA MessageDecodeIs ==
  ASSUME NEW b \in Seq(Octet)
  PROVE  \E f : DecodesTo(b, f) /\ MessageDecode(b) = f[0]
<1> DEFINE f == CHOOSE g : DecodesTo(b, g)
<1>1. DecodesTo(b, f)
  BY FromExists, ZenonT(20)
<1>2. MessageDecode(b) = f[0]
  BY ZenonT(20) DEF MessageDecode, DecodesTo, DecodeEntry, Decoded, Stops, EndOf
<1> QED
  BY <1>1, <1>2, ZenonT(20)

(***************************************************************************)
(* How many packets of the stream are complete in its first L bytes.       *)
(***************************************************************************)
LEMMA Complete ==
  ASSUME NEW N \in Nat, NEW len, \A n \in 0..N : len[n] \in Nat, len[0] = 0, NEW L \in Nat
  PROVE  \E j \in 0..N : len[j] <= L /\ (j # N => L < len[j + 1])
<1> SUFFICES ASSUME \A j \in 0..N : len[j] <= L => j # N /\ ~(L < len[j + 1]) PROVE FALSE
  OBVIOUS
<1> DEFINE T == {n \in Nat : n <= N => len[n] <= L}
<1>1. 0 \in T
  BY SMTT(30)
<1>2. ASSUME NEW i \in 1..N, i - 1 \in T PROVE i \in T
  <2>1. len[i - 1] <= L /\ i - 1 \in 0..N /\ (i - 1) + 1 = i /\ i \in 0..N /\ i \in Nat
    BY <1>2, SMTT(30)
  <2>2. ~(L < len[i]) /\ len[i] \in Nat
    BY <2>1, ZenonT(20)
  <2>3. len[i] <= L
    BY ONLY <2>2, L \in Nat, SMTT(30)
  <2> QED
    BY <2>1, <2>3, ZenonT(20)
<1>3. N \in T
  <2>1. T \in SUBSET Nat /\ N \in 0..N
    BY SMTT(30)
  <2> HIDE DEF T
  <2> QED
    BY <1>1, <1>2, <2>1, UpTo, ZenonT(20)
<1> QED
  BY <1>3, SMTT(30)

(***************************************************************************)
(* What MessageDecode reads of the bytes b, the first ones of the stream   *)
(* X, at the frame of a packet.                                            *)
(***************************************************************************)
ReadsFrame(b, L, o, p) ==
    /\ Stops(b, o) <=> L < o + 2 + Len(p)
    /\ ~Stops(b, o) => /\ EndOf(b, o) = o + 2 + Len(p)
                       /\ SubSeq(b, o + 3, EndOf(b, o)) = p

LEMMA ReadFrame ==
  ASSUME NEW X \in Seq(Octet), NEW b, NEW L \in 0..Len(X), b = SubSeq(X, 1, L),
         NEW p \in Packet, NEW o \in Nat, o <= L,
         ReadPacketLen(X, o) = Len(p), StandsAt(p, X, o + 2)
  PROVE  ReadsFrame(b, L, o, p)
<1>1. /\ b \in Seq(Octet) /\ Len(b) = L /\ \A i \in 1..L : b[i] = X[i]
      /\ Len(X) \in Nat /\ L \in Nat
  BY SMTT(30)
<1>2. p \in Seq(Octet) /\ Len(p) \in Nat
  BY EncodedPacket, ZenonT(20)
<1>3. L - o >= 2 => ReadPacketLen(b, o) = Len(p)
  <2> SUFFICES ASSUME L - o >= 2 PROVE ReadPacketLen(b, o) = Len(p)
    OBVIOUS
  <2>1. o + 1 \in 1..L /\ o + 2 \in 1..L
    BY <1>1, SMTT(30)
  <2>2. b[o + 1] = X[o + 1] /\ b[o + 2] = X[o + 2]
    BY <1>1, <2>1, ZenonT(20)
  <2> QED
    BY <2>2, ZenonT(20) DEF ReadPacketLen
<1>4. Stops(b, o) <=> L < o + 2 + Len(p)
  <2>1. CASE L - o < 2
    <3>1. Stops(b, o)
      BY <1>1, <2>1, ZenonT(20) DEF Stops
    <3> QED
      BY <1>1, <1>2, <2>1, <3>1, SMTT(30)
  <2>2. CASE L - o >= 2
    <3>1. Stops(b, o) <=> (L - o < 2 \/ L - o < 2 + Len(p))
      BY <1>1, <1>3, <2>2, ZenonT(20) DEF Stops
    <3> QED
      BY <1>1, <1>2, <2>2, <3>1, SMTT(30)
  <2> QED
    BY <1>1, <2>1, <2>2, SMTT(30)
<1>5. ASSUME ~Stops(b, o)
      PROVE  EndOf(b, o) = o + 2 + Len(p) /\ SubSeq(b, o + 3, EndOf(b, o)) = p
  <2> DEFINE e == o + 2 + Len(p)
  <2>1. L - o >= 2 /\ e <= L /\ e \in Nat
    BY <1>1, <1>2, <1>4, <1>5, SMTT(30)
  <2>2. EndOf(b, o) = e
    BY <1>3, <2>1, ZenonT(20) DEF EndOf
  <2>3. \A i \in 1..Len(p) : o + 2 + i \in 1..L /\ b[o + 2 + i] = p[i]
    <3> TAKE i \in 1..Len(p)
    <3>1. o + 2 + i \in 1..L
      BY <1>1, <1>2, <2>1, SMTT(30)
    <3> QED
      BY <1>1, <3>1, ZenonT(20) DEF StandsAt
  <2> DEFINE r == SubSeq(b, o + 3, e)
  <2>4. r \in Seq(Octet) /\ Len(r) = Len(p) /\ \A i \in 1..Len(p) : r[i] = b[o + 2 + i]
    BY ONLY <1>1, <1>2, <2>1, o \in Nat, SMTT(30)
  <2> HIDE DEF r
  <2>5. \A i \in 1..Len(p) : r[i] = p[i]
    BY ONLY <2>3, <2>4, ZenonT(20)
  <2>6. r = p
    BY ONLY <1>2, <2>4, <2>5, SMTT(30)
  <2> QED
    BY ONLY <2>2, <2>6, ZenonT(20) DEF r
<1> QED
  BY <1>4, <1>5, ZenonT(20) DEF ReadsFrame

(***************************************************************************)
(* MessageDecode takes the complete packets of the stream, and stops at    *)
(* the end of the last one.                                                *)
(***************************************************************************)
PrefixDecodes(ps, f, L, b) ==
  \E j \in 0..Len(ps) :
     /\ Len(f[j]) <= L
     /\ MessageDecode(b) = [frames |-> j, packets |-> SubSeq(ps, 1, j), offset |-> Len(f[j])]

LEMMA DecodePrefix ==
  ASSUME NEW ps \in Seq(Packet), NEW f, EncodesTo(ps, f), NEW X, X = f[Len(ps)],
         NEW L \in 0..Len(X), NEW b, b = SubSeq(X, 1, L)
  PROVE  PrefixDecodes(ps, f, L, b)
<1> USE DEF PrefixDecodes
<1> DEFINE N == Len(ps)
           len == [n \in 0..N |-> Len(f[n])]
<1>1. N \in Nat /\ 0 \in 0..N /\ N \in 0..N /\ \A n \in 1..N : ps[n] \in Packet
  BY SMTT(30)
<1>2. \A n \in 0..N : f[n] \in Seq(Octet)
  BY PrefixTypes, ZenonT(20)
<1>3. \A n \in 0..N : len[n] = Len(f[n]) /\ len[n] \in Nat
  <2> SUFFICES ASSUME NEW n \in 0..N PROVE Len(f[n]) \in Nat
    BY ZenonT(20)
  <2>1. f[n] \in Seq(Octet)
    BY <1>2, ZenonT(20)
  <2> QED
    BY ONLY <2>1, SMTT(30)
<1>4. X \in Seq(Octet) /\ Len(X) = len[N] /\ L \in Nat /\ Len(X) \in Nat /\ L <= Len(X)
  <2>1. X \in Seq(Octet) /\ Len(X) = len[N]
    BY <1>1, <1>2, <1>3, ZenonT(20)
  <2> QED
    BY <2>1, SMTT(30)
<1>5. len[0] = 0
  <2>1. f[0] = <<>>
    BY <1>1, Prefixes, ZenonT(20)
  <2>2. Len(<<>>) = 0
    BY ONLY SMTT(30)
  <2> QED
    BY ONLY <1>1, <1>3, <2>1, <2>2, ZenonT(20)
<1>6. b \in Seq(Octet) /\ Len(b) = L
  BY <1>4, SMTT(30)
<1> HIDE DEF len
<1>7. PICK j \in 0..N : len[j] <= L /\ (j # N => L < len[j + 1])
  BY <1>1, <1>3, <1>4, <1>5, Complete, ZenonT(20)
<1>8. PICK from : DecodesTo(b, from) /\ MessageDecode(b) = from[0]
  BY <1>6, MessageDecodeIs, ZenonT(20)
<1>9. \A o \in 0..L : from[o] = DecodeEntry(b, from, o)
  BY <1>6, <1>8, ZenonT(20) DEF DecodesTo
<1>10. ASSUME NEW n \in 1..N
       PROVE  /\ n - 1 \in 0..N /\ n \in 0..N /\ ps[n] \in Packet /\ len[n - 1] \in Nat
              /\ len[n] = len[n - 1] + 2 + Len(ps[n]) /\ Len(ps[n]) \in Nat
              /\ len[n - 1] <= L =>
                    /\ Stops(b, len[n - 1]) <=> L < len[n]
                    /\ ~Stops(b, len[n - 1]) =>
                          /\ EndOf(b, len[n - 1]) = len[n]
                          /\ SubSeq(b, len[n - 1] + 3, EndOf(b, len[n - 1])) = ps[n]
  <2>1. n - 1 \in 0..N /\ n \in 0..N /\ ps[n] \in Packet
    BY <1>1, SMTT(30)
  <2>2. len[n - 1] = Len(f[n - 1]) /\ len[n] = Len(f[n]) /\ len[n - 1] \in Nat
    BY <1>3, <2>1, ZenonT(20)
  <2> DEFINE o == len[n - 1]
  <2> HIDE DEF o
  <2>3. /\ Len(f[n]) = o + 2 + Len(ps[n]) /\ ReadPacketLen(X, o) = Len(ps[n])
        /\ StandsAt(ps[n], X, o + 2)
    <3>1. FrameAt(ps, f, n, f[Len(ps)], Len(f[n - 1]))
      BY Frame, ZenonT(20)
    <3> QED
      BY ONLY <2>2, <3>1, X = f[Len(ps)], ZenonT(20) DEF o, FrameAt
  <2>4. Len(ps[n]) \in Nat
    BY <2>1, EncodedPacket, ZenonT(20)
  <2>5. o <= L => ReadsFrame(b, L, o, ps[n])
    BY <1>4, <2>1, <2>2, <2>3, ReadFrame, ZenonT(20) DEF o
  <2> QED
    BY ONLY <2>1, <2>2, <2>3, <2>4, <2>5, ZenonT(20) DEF o, ReadsFrame
<1> DEFINE R(m) == [frames |-> j - m, packets |-> SubSeq(ps, m + 1, j), offset |-> len[j]]
           T == {i \in Nat : i <= j => len[j - i] <= len[j] /\ from[len[j - i]] = R(j - i)}
<1>11. 0 \in T
  <2>1. /\ len[j] \in 0..L /\ len[j] \in Nat /\ j - 0 = j /\ j - j = 0 /\ len[j] <= len[j]
        /\ SubSeq(ps, j + 1, j) = <<>>
    BY <1>3, <1>4, <1>7, SMTT(30)
  <2>2. Stops(b, len[j])
    <3>1. CASE j = N
      <4>1. L - len[j] < 2
        BY ONLY <1>4, <1>7, <2>1, <3>1, SMTT(30)
      <4> QED
        BY <1>6, <4>1, ZenonT(20) DEF Stops
    <3>2. CASE j # N
      <4>1. j + 1 \in 1..N /\ (j + 1) - 1 = j
        BY <1>1, <3>2, SMTT(30)
      <4> QED
        BY ONLY <1>7, <1>10, <3>2, <4>1, ZenonT(20)
    <3> QED
      BY <3>1, <3>2
  <2>3. from[len[j]] = [frames |-> 0, packets |-> <<>>, offset |-> len[j]]
    BY ONLY <1>9, <2>1, <2>2, ZenonT(20) DEF DecodeEntry
  <2> QED
    BY ONLY <2>1, <2>3, 0 \in Nat, ZenonT(20)
<1>12. ASSUME NEW i \in 1..j, i - 1 \in T PROVE i \in T
  <2> DEFINE n == j - (i - 1)
  <2>1. /\ n \in 1..N /\ n - 1 = j - i /\ i \in Nat /\ i - 1 <= j /\ (j - n) + 1 = j - (n - 1)
        /\ n \in 1..j /\ (n - 1) + 1 = n
    BY <1>1, SMTT(30)
  <2>2. len[n] <= len[j] /\ from[len[n]] = R(n)
    BY ONLY <1>12, <2>1, ZenonT(20)
  <2> HIDE DEF n
  <2> DEFINE o == len[n - 1]
             p == ps[n]
  <2>3. /\ n - 1 \in 0..N /\ n \in 0..N /\ p \in Packet /\ o \in Nat
        /\ len[n] = o + 2 + Len(p) /\ Len(p) \in Nat
        /\ o <= L => /\ Stops(b, o) <=> L < len[n]
                     /\ ~Stops(b, o) => /\ EndOf(b, o) = len[n]
                                        /\ SubSeq(b, o + 3, EndOf(b, o)) = p
    BY ONLY <1>10, <2>1, ZenonT(20)
  <2> HIDE DEF o, p
  <2>4. len[n] \in Nat /\ len[j] \in Nat
    BY ONLY <1>3, <2>3, j \in 0..N, ZenonT(20)
  <2>5. o <= L /\ ~(L < len[n]) /\ o <= len[j] /\ o \in 0..L
    BY ONLY <1>4, <1>7, <2>2, <2>3, <2>4, SMTT(30)
  <2>6. from[o] = Decoded(p, R(n))
    <3>1. ~Stops(b, o) /\ EndOf(b, o) = len[n] /\ SubSeq(b, o + 3, EndOf(b, o)) = p
      BY ONLY <2>3, <2>5, ZenonT(20)
    <3>2. from[o] = Decoded(SubSeq(b, o + 3, EndOf(b, o)), from[EndOf(b, o)])
      BY ONLY <1>9, <2>5, <3>1, ZenonT(20) DEF DecodeEntry
    <3> HIDE DEF R
    <3> QED
      BY ONLY <2>2, <3>1, <3>2, ZenonT(20)
  <2>7. ~TooLong(p)
    BY <2>3, EncodedPacket, ZenonT(20)
  <2>8. <<p>> \o SubSeq(ps, n + 1, j) = SubSeq(ps, n, j)
    <3>1. ps \in Seq(Packet) /\ n \in 1..j /\ j \in 0..Len(ps) /\ p = ps[n]
      BY <2>1 DEF p
    <3> QED
      BY ONLY <3>1, SMTT(30)
  <2>9. Decoded(p, R(n)) = R(n - 1)
    BY ONLY <2>1, <2>7, <2>8, ZenonT(20) DEF Decoded
  <2>10. len[j - i] <= len[j] /\ from[len[j - i]] = R(j - i)
    <3> HIDE DEF R
    <3> QED
      BY ONLY <2>1, <2>5, <2>6, <2>9, ZenonT(20) DEF o
  <2> QED
    BY ONLY <2>1, <2>10, ZenonT(20)
<1>13. j \in T
  <2>1. T \in SUBSET Nat /\ j \in 0..j /\ j \in Nat
    BY <1>1, SMTT(30)
  <2> HIDE DEF T
  <2> QED
    BY <1>11, <1>12, <2>1, UpTo, ZenonT(20)
<1>14. j - j = 0 /\ j <= j /\ j - 0 = j /\ 0 + 1 = 1
  BY <1>1, SMTT(30)
<1>15. MessageDecode(b) = R(0)
  BY ONLY <1>5, <1>8, <1>13, <1>14, ZenonT(20)
<1>16. len[j] = Len(f[j])
  BY <1>3, ZenonT(20)
<1> QED
  BY ONLY <1>7, <1>14, <1>15, <1>16, j \in 0..N, ZenonT(20)

(***************************************************************************)
(* A sequence in two parts, and what a read moves from one to the other.   *)
(***************************************************************************)
LEMMA SameEntries ==
  ASSUME NEW S, NEW s \in Seq(S), NEW t \in Seq(S), Len(s) = Len(t),
         \A i \in 1..Len(t) : s[i] = t[i]
  PROVE  s = t
BY SMTT(30)

LEMMA Joined ==
  ASSUME NEW S, NEW v \in Seq(S), NEW u \in Seq(S), NEW w \in Seq(S),
         Len(w) = Len(v) + Len(u),
         \A i \in 1..Len(v) : w[i] = v[i],
         \A i \in 1..Len(u) : w[Len(v) + i] = u[i]
  PROVE  v \o u = w
<1>1. v \o u \in Seq(S) /\ Len(v \o u) = Len(w) /\ Len(w) \in Nat /\ Len(v) \in Nat /\ Len(u) \in Nat
  BY SMTT(30)
<1>2. ASSUME NEW i \in 1..Len(w) PROVE (v \o u)[i] = w[i]
  <2>1. CASE i <= Len(v)
    BY <1>1, <2>1, SMTT(30)
  <2>2. CASE ~(i <= Len(v))
    <3>1. i - Len(v) \in 1..Len(u) /\ Len(v) + (i - Len(v)) = i
      BY <1>1, <2>2, SMTT(30)
    <3>2. (v \o u)[i] = u[i - Len(v)]
      BY <1>1, <2>2, <3>1, SMTT(30)
    <3> QED
      BY <3>1, <3>2, ZenonT(20)
  <2> QED
    BY <2>1, <2>2
<1> QED
  BY <1>1, <1>2, SameEntries, ZenonT(20)

LEMMA TwoParts ==
  ASSUME NEW S, NEW s \in Seq(S), NEW j \in 0..Len(s)
  PROVE  SubSeq(s, 1, j) \o SubSeq(s, j + 1, Len(s)) = s /\ SubSeq(s, j + 1, Len(s)) \in Seq(S)
<1> DEFINE v == SubSeq(s, 1, j)
           u == SubSeq(s, j + 1, Len(s))
<1>1. v \in Seq(S) /\ Len(v) = j /\ \A i \in 1..Len(v) : s[i] = v[i]
  BY SMTT(30)
<1>2. u \in Seq(S) /\ Len(s) = j + Len(u) /\ \A i \in 1..Len(u) : s[j + i] = u[i]
  BY SMTT(30)
<1> HIDE DEF v, u
<1>3. v \o u = s
  BY <1>1, <1>2, Joined, ZenonT(20)
<1> QED
  BY <1>2, <1>3, ZenonT(20) DEF v, u

LEMMA CutAndJoined ==
  ASSUME NEW S, NEW s \in Seq(S), NEW t \in Seq(S), NEW n \in 1..Len(t)
  PROVE  /\ s \o SubSeq(t, 1, n) = SubSeq(s \o t, 1, Len(s) + n)
         /\ Len(s) + n \in 0..Len(s \o t)
         /\ \A k \in 0..(Len(s) + n) :
               SubSeq(SubSeq(s \o t, 1, Len(s) + n), k + 1, Len(s) + n) \o SubSeq(t, n + 1, Len(t))
                  = SubSeq(s \o t, k + 1, Len(s \o t))
<1> DEFINE X == s \o t
           L == Len(s) + n
           u == SubSeq(t, n + 1, Len(t))
<1>1. /\ X \in Seq(S) /\ Len(X) = Len(s) + Len(t) /\ Len(s) \in Nat /\ Len(t) \in Nat /\ L \in 1..Len(X)
      /\ s \o SubSeq(t, 1, n) = SubSeq(X, 1, L)
  BY SMTT(30)
<1>2. u \in Seq(S) /\ Len(u) = Len(X) - L /\ \A i \in 1..Len(u) : u[i] = X[L + i]
  BY SMTT(30)
<1> HIDE DEF X, L, u
<1>3. ASSUME NEW k \in 0..L
      PROVE  SubSeq(SubSeq(X, 1, L), k + 1, L) \o u = SubSeq(X, k + 1, Len(X))
  <2> DEFINE v == SubSeq(SubSeq(X, 1, L), k + 1, L)
             w == SubSeq(X, k + 1, Len(X))
  <2>1. v \in Seq(S) /\ Len(v) = L - k /\ \A i \in 1..(L - k) : v[i] = X[k + i]
    BY ONLY <1>1, k \in 0..L, SMTT(30)
  <2>2. w \in Seq(S) /\ Len(w) = Len(X) - k /\ \A i \in 1..(Len(X) - k) : w[i] = X[k + i]
    BY ONLY <1>1, k \in 0..L, SMTT(30)
  <2> HIDE DEF v, w
  <2>3. Len(w) = Len(v) + Len(u) /\ \A i \in 1..Len(v) : w[i] = v[i]
    BY ONLY <1>1, <1>2, <2>1, <2>2, k \in 0..L, SMTT(30)
  <2>4. ASSUME NEW i \in 1..Len(u) PROVE w[Len(v) + i] = u[i]
    <3>1. Len(v) + i \in 1..(Len(X) - k) /\ k + (Len(v) + i) = L + i
      BY ONLY <1>1, <1>2, <2>1, <2>2, k \in 0..L, i \in 1..Len(u), SMTT(30)
    <3> QED
      BY ONLY <1>2, <2>2, <3>1, i \in 1..Len(u), ZenonT(20)
  <2>5. v \o u = w
    BY <1>2, <2>1, <2>2, <2>3, <2>4, Joined, ZenonT(20)
  <2> QED
    BY ONLY <2>5, ZenonT(20) DEF v, w
<1>4. L \in 0..Len(X)
  BY <1>1, SMTT(30)
<1> QED
  BY ONLY <1>1, <1>3, <1>4, ZenonT(20) DEF X, L, u

LEMMA Behind ==
  ASSUME NEW S, NEW s \in Seq(S), NEW t \in Seq(S)
  PROVE  SubSeq(s \o t, Len(s) + 1, Len(s \o t)) = t /\ Len(s) <= Len(s \o t)
BY SMTT(30)

(***************************************************************************)
(* FrameInv is inductive: what is in the buffer and on the wire is the     *)
(* encoding of the packets not yet decoded, before and after every step.   *)
(***************************************************************************)
LEMMA FrameInit == LoopInit => FrameInv
<1> SUFFICES ASSUME LoopInit PROVE FrameInv
  OBVIOUS
<1>1. /\ pending = <<>> /\ buf = <<>> /\ wire = <<>> /\ <<>> \in Seq(Packet) /\ <<>> \in Seq(Octet)
      /\ <<>> \o <<>> = <<>> /\ Len(<<>>) = 0 /\ 0 \in Nat
  BY SMTT(30) DEF LoopInit
<1>2. PICK f : EncodesTo(<<>>, f) /\ Encoded(<<>>) = f[0]
  BY ONLY <1>1, EncodedIs, ZenonT(20)
<1>3. f[0] = <<>>
  BY ONLY <1>1, <1>2, Prefixes, ZenonT(20)
<1> QED
  BY ONLY <1>1, <1>2, <1>3, ZenonT(20) DEF FrameInv

LEMMA TransmitFrames ==
  ASSUME FrameInv, NEW p \in Packet, Transmit(p), buf' = buf
  PROVE  FrameInv' /\ ~(Len(pending') <= Len(pending))
<1> DEFINE e == MessageEncode(p)
<1>1. pending' = Append(pending, p) /\ wire' = wire \o e
  BY DEF Transmit
<1>2. e \in Seq(Octet)
  BY EncodedPacket, ZenonT(20)
<1> HIDE DEF e
<1>3. pending' \in Seq(Packet) /\ ~(Len(pending') <= Len(pending))
  BY <1>1, SMTT(30) DEF FrameInv
<1>4. wire' \in Seq(Octet)
  BY <1>1, <1>2, SMTT(30) DEF FrameInv
<1>5. buf \o (wire \o e) = (buf \o wire) \o e
  BY <1>2, Associative, ZenonT(20) DEF FrameInv
<1>6. Encoded(pending') = Encoded(pending) \o e
  BY <1>1, EncodedAppend, ZenonT(20) DEF FrameInv, e
<1> QED
  BY <1>1, <1>3, <1>4, <1>5, <1>6, ZenonT(20) DEF FrameInv

LEMMA ReadFrames ==
  ASSUME FrameInv, ReadBytes
  PROVE  FrameInv' /\ pending = got' \o pending'
<1> DEFINE X == buf \o wire
           N == Len(pending)
<1>1. PICK n \in 1..Len(wire) :
         LET b == buf \o SubSeq(wire, 1, n)
             d == MessageDecode(b)
         IN  /\ buf' = Rest(b, d) /\ got' = d.packets
             /\ pending' = SubSeq(pending, d.frames + 1, Len(pending))
             /\ wire' = SubSeq(wire, n + 1, Len(wire))
  BY ZenonT(20) DEF ReadBytes
<1> DEFINE L == Len(buf) + n
           b == buf \o SubSeq(wire, 1, n)
           d == MessageDecode(b)
<1>2. /\ pending \in Seq(Packet) /\ buf \in Seq(Octet) /\ wire \in Seq(Octet)
      /\ X = Encoded(pending)
  BY ZenonT(20) DEF FrameInv
<1>3. N \in Nat /\ Len(b) = L /\ wire' \in Seq(Octet)
  BY <1>1, <1>2, SMTT(30)
<1>4. b = SubSeq(X, 1, L) /\ L \in 0..Len(X)
  BY <1>2, CutAndJoined, ZenonT(20)
<1>5. \A k \in 0..L : SubSeq(b, k + 1, L) \o wire' = SubSeq(X, k + 1, Len(X))
  <2>1. \A k \in 0..L : SubSeq(SubSeq(X, 1, L), k + 1, L) \o SubSeq(wire, n + 1, Len(wire))
                           = SubSeq(X, k + 1, Len(X))
    BY <1>2, CutAndJoined, ZenonT(20)
  <2> HIDE DEF b, X, L
  <2> QED
    BY <1>1, <1>4, <2>1, ZenonT(20)
<1>6. buf' = SubSeq(b, d.offset + 1, L) /\ got' = d.packets /\ pending' = SubSeq(pending, d.frames + 1, N)
  BY <1>1, <1>3, ZenonT(20) DEF Rest
<1>7. wire' = SubSeq(wire, n + 1, Len(wire))
  BY <1>1, ZenonT(20)
<1> HIDE DEF X, L, b, d, N
<1>8. PICK f : EncodesTo(pending, f) /\ X = f[Len(pending)]
  BY <1>2, <1>3, EncodedIs, ZenonT(20) DEF N
<1>9. PICK j \in 0..N :
         /\ Len(f[j]) <= L
         /\ d = [frames |-> j, packets |-> SubSeq(pending, 1, j), offset |-> Len(f[j])]
  <2>1. PrefixDecodes(pending, f, L, b)
    BY <1>2, <1>4, <1>8, DecodePrefix, ZenonT(20)
  <2> QED
    BY ONLY <2>1, ZenonT(20) DEF PrefixDecodes, N, d
<1> DEFINE rest == SubSeq(pending, j + 1, N)
           k == Len(f[j])
<1>10. f[j] \in Seq(Octet) /\ Encoded(rest) \in Seq(Octet) /\ X = f[j] \o Encoded(rest)
  BY <1>2, <1>8, EncodedRest, PrefixTypes, ZenonT(20) DEF N
<1>11. SubSeq(X, k + 1, Len(X)) = Encoded(rest)
  BY ONLY <1>10, Behind, ZenonT(20)
<1>12. k \in Nat /\ L \in Nat /\ k \in 0..L
  <2>1. L \in Nat
    BY <1>2, SMTT(30) DEF L
  <2>2. k \in Nat
    BY ONLY <1>10, SMTT(30)
  <2> QED
    BY ONLY <1>9, <2>1, <2>2, SMTT(30)
<1>13. buf' = SubSeq(b, k + 1, L) /\ got' = SubSeq(pending, 1, j) /\ pending' = rest
  BY ONLY <1>6, <1>9, ZenonT(20)
<1> HIDE DEF k
<1>14. buf' \o wire' = Encoded(pending')
  BY ONLY <1>5, <1>11, <1>12, <1>13, ZenonT(20)
<1>15. buf' \in Seq(Octet)
  <2>1. b \in Seq(Octet)
    BY <1>2, SMTT(30) DEF b
  <2> QED
    BY ONLY <1>3, <1>12, <1>13, <2>1, SMTT(30)
<1>16. pending' \in Seq(Packet) /\ pending = got' \o pending'
  BY <1>2, <1>13, TwoParts, ZenonT(20) DEF N
<1> QED
  BY ONLY <1>3, <1>14, <1>15, <1>16, ZenonT(20) DEF FrameInv

LEMMA FrameStep ==
  ASSUME FrameInv, [LoopNext]_loopVars
  PROVE  /\ FrameInv'
         /\ pending' # pending /\ Len(pending') <= Len(pending) => pending = got' \o pending'
<1>1. CASE PeerSends
  <2>1. PICK p \in Packet : Transmit(p) /\ buf' = buf
    BY <1>1, ZenonT(20) DEF PeerSends, Packet
  <2> QED
    BY <2>1, TransmitFrames, ZenonT(20)
<1>2. CASE Answer
  <2>1. Transmit(HeartBeatRsp) /\ buf' = buf /\ HeartBeatRsp \in Packet
    BY <1>2, ZenonT(20) DEF Answer, Packet
  <2> QED
    BY <2>1, TransmitFrames, ZenonT(20)
<1>3. CASE ReadBytes
  BY <1>3, ReadFrames, ZenonT(20)
<1>4. CASE Die \/ DecodeEnds \/ Timeout \/ Fail \/ Tick \/ UNCHANGED loopVars
  <2>1. wire' = wire /\ buf' = buf /\ pending' = pending
    BY <1>4, ZenonT(20) DEF Die, DecodeEnds, Timeout, Fail, Tick, loopVars
  <2> QED
    BY <2>1, ZenonT(20) DEF FrameInv
<1> QED
  BY <1>1, <1>2, <1>3, <1>4, ZenonT(20) DEF LoopNext

(***************************************************************************)
(* HandleRead and MessageDecode cut the stream into the packets that were  *)
(* sent, however the reads cut it, for every size of a byte, of the buffer *)
(* and of a packet, and for packets with any content.                      *)
(***************************************************************************)
THEOREM FramingExactHolds == LoopSpec => FramingExact
<1>1. FrameInv /\ [LoopNext]_loopVars => FrameInv'
  BY FrameStep
<1>2. FrameInv /\ [LoopNext]_loopVars =>
         [/\ buf' \o wire' = Encoded(pending')
          /\ pending' # pending /\ Len(pending') <= Len(pending) =>
                pending = got' \o pending']_loopVars
  BY FrameStep, ZenonT(20) DEF FrameInv
<1> QED
  BY <1>1, <1>2, FrameInit, PTL DEF LoopSpec, FramingExact
-----------------------------------------------------------------------------
INSTANCE FiniteSetTheorems

(***************************************************************************)
(* The inductive invariant of the registration.  Nothing is renewed while  *)
(* a registration is under way, and the lease that it is about to renew    *)
(* has the key if it still exists; this is what makes it safe for Stop and *)
(* for etcd to drop a lease between any two of its steps.                  *)
(***************************************************************************)
EtcdInv ==
    /\ EtcdTypeOK
    /\ IsFiniteSet(leases) /\ 0 \notin leases
    /\ watcher \in {"grant", "put", "keep"} => kept = {}
    /\ watcher = "keep" /\ lease \in leases => key = lease
    /\ KeptHoldsKey

LEMMA NewLeaseIsNew ==
  ASSUME IsFiniteSet(leases), leases \subseteq Nat, lease \in Nat
  PROVE  /\ NewLease \in Nat \ {0} /\ NewLease \notin leases \cup {lease}
         /\ IsFiniteSet(leases \cup {NewLease})
<1>1. PICK n \in Nat : n = Cardinality(leases)
  BY FS_CardinalityType
<1>2. PICK T : T = leases \cup {lease}
  OBVIOUS
<1>3. IsFiniteSet(T) /\ Cardinality(T) \in Nat /\ Cardinality(T) <= n + 1
  <2>1. IsFiniteSet(T) /\ (Cardinality(T) = n \/ Cardinality(T) = n + 1)
    BY <1>1, <1>2, FS_AddElement
  <2> QED
    BY <1>1, <2>1, SMTT(30)
<1>4. PICK I : I = 1..(n + 2)
  OBVIOUS
<1>5. Cardinality(I) = n + 2
  <2>1. n + 2 \in Int /\ 1 \in Int
    BY <1>1
  <2>2. Cardinality(1..(n + 2)) = IF 1 > n + 2 THEN 0 ELSE (n + 2) - 1 + 1
    BY <2>1, FS_Interval, ZenonT(60)
  <2> QED
    BY <1>1, <1>4, <2>2, SMTT(30)
<1>6. ~(I \subseteq T)
  <2>1. I \subseteq T => Cardinality(I) <= Cardinality(T)
    BY <1>3, FS_Subset
  <2> QED
    BY <1>1, <1>3, <1>5, <2>1, SMTT(30)
<1>7. \E x \in 1..(Cardinality(leases) + 2) : x \notin leases \cup {lease}
  BY <1>1, <1>2, <1>4, <1>6
<1>8. NewLease \in 1..(Cardinality(leases) + 2) /\ NewLease \notin leases \cup {lease}
  BY <1>7 DEF NewLease
<1> QED
  BY <1>1, <1>8, FS_AddElement, SMTT(30)

LEMMA EtcdInitInv == EtcdInit => EtcdInv
<1>1. IsFiniteSet({}) /\ 0 \in Nat /\ 0 \in 0..MaxError /\ 0 \in 0..MaxCrash
  BY FS_EmptySet, EtcdAssumption, SMTT(30)
<1> QED
  BY <1>1 DEF EtcdInit, EtcdInv, EtcdTypeOK, KeptHoldsKey

(***************************************************************************)
(* Revoke and the expiry of a lease take the key away with it.             *)
(***************************************************************************)
LEMMA DropKeeps ==
  ASSUME EtcdInv, NEW l, Drop(l), UNCHANGED <<watcher, lease>>,
         errors' \in 0..MaxError,
         spc' \in {"run", "revoke", "close", "exit", "stopped"},
         UNCHANGED <<started, exit, closed, crashes>>
  PROVE  EtcdInv'
<1>1. IsFiniteSet(leases')
  BY FS_RemoveElement DEF Drop, EtcdInv
<1>2. EtcdTypeOK' /\ 0 \notin leases' /\ KeptHoldsKey'
  BY DEF Drop, EtcdInv, EtcdTypeOK, KeptHoldsKey
<1> QED
  BY <1>1, <1>2 DEF Drop, EtcdInv

LEMMA EtcdInvStep ==
  ASSUME EtcdInv, [EtcdNext]_etcdVars
  PROVE  EtcdInv'
<1>0. /\ errors \in 0..MaxError /\ crashes \in 0..MaxCrash
      /\ MaxError \in Nat /\ MaxCrash \in Nat
  BY EtcdAssumption DEF EtcdInv, EtcdTypeOK
<1>e. Error => errors' \in 0..MaxError
  BY <1>0 DEF Error
<1>1. CASE Grant
  <2>1. /\ NewLease \in Nat \ {0} /\ NewLease \notin leases \cup {lease}
        /\ IsFiniteSet(leases \cup {NewLease})
    BY NewLeaseIsNew DEF EtcdInv, EtcdTypeOK
  <2>2. /\ leases' = leases \/ leases' = leases \cup {NewLease}
        /\ lease' = lease \/ lease' = NewLease
        /\ watcher' \in {"put", "watch"} /\ started' \in BOOLEAN /\ errors' \in 0..MaxError
        /\ kept = {} /\ UNCHANGED <<spc, exit, closed, kept, key, crashes>>
    BY <1>0, <1>1, <1>e DEF Grant, EtcdInv, EtcdTypeOK
  <2> QED
    BY <2>1, <2>2 DEF EtcdInv, EtcdTypeOK, KeptHoldsKey
<1>2. CASE Put
  <2>1. /\ key' = key \/ (key' = lease /\ lease \in leases)
        /\ watcher' = "keep" => key' = lease
        /\ watcher' \in {"keep", "watch"} /\ started' \in BOOLEAN /\ errors' \in 0..MaxError
        /\ kept = {} /\ UNCHANGED <<spc, lease, exit, closed, leases, kept, crashes>>
    BY <1>0, <1>2, <1>e DEF Put, EtcdInv, EtcdTypeOK
  <2> QED
    BY <2>1 DEF EtcdInv, EtcdTypeOK, KeptHoldsKey
<1>3. CASE KeepAlive
  <2>1. /\ kept' = kept \/ kept' = kept \cup ({lease} \cap leases)
        /\ watcher' = "watch" /\ started' \in BOOLEAN /\ errors' \in 0..MaxError
        /\ kept = {} /\ (lease \in leases => key = lease)
        /\ UNCHANGED <<spc, lease, exit, closed, leases, key, crashes>>
    BY <1>0, <1>3, <1>e DEF KeepAlive, EtcdInv, EtcdTypeOK
  <2> QED
    BY <2>1 DEF EtcdInv, EtcdTypeOK, KeptHoldsKey
<1>4. CASE LeaseWatch
  <2>1. /\ watcher' \in {"done", "grant", "watch"} /\ errors' \in 0..MaxError
        /\ watcher' = "grant" => key = 0
        /\ UNCHANGED <<started, spc, lease, exit, closed, leases, kept, key, crashes>>
    BY <1>0, <1>4, <1>e DEF LeaseWatch, EtcdInv, EtcdTypeOK
  <2>2. key = 0 => kept = {}
    BY DEF EtcdInv, EtcdTypeOK, KeptHoldsKey
  <2> QED
    BY <2>1, <2>2 DEF EtcdInv, EtcdTypeOK, KeptHoldsKey
<1>5. CASE Stop \/ Exit \/ UNCHANGED etcdVars
  BY <1>5 DEF Stop, Exit, etcdVars, EtcdInv, EtcdTypeOK, KeptHoldsKey
<1>6. CASE Revoke
  <2>1. CASE Drop(lease) /\ UNCHANGED errors
    BY <1>0, <1>6, <2>1, DropKeeps DEF Revoke
  <2>2. CASE Error /\ UNCHANGED <<leases, kept, key>>
    BY <1>6, <1>e, <2>2 DEF Revoke, EtcdInv, EtcdTypeOK, KeptHoldsKey
  <2> QED
    BY <1>6, <2>1, <2>2 DEF Revoke
<1>7. CASE Close
  BY <1>7 DEF Close, EtcdInv, EtcdTypeOK, KeptHoldsKey
<1>8. CASE Crash
  <2>1. crashes' \in 0..MaxCrash /\ 0 \in Nat
    BY <1>0, <1>8, SMTT(30) DEF Crash
  <2> QED
    BY <1>8, <2>1 DEF Crash, EtcdInv, EtcdTypeOK, KeptHoldsKey
<1>9. ASSUME NEW l \in leases, Expires(l) PROVE EtcdInv'
  <2>1. errors' \in 0..MaxError /\ spc' = spc
    BY <1>0, <1>9 DEF Expires
  <2> QED
    BY <1>9, <2>1, DropKeeps DEF Expires, EtcdInv, EtcdTypeOK
<1> QED
  BY <1>1, <1>2, <1>3, <1>4, <1>5, <1>6, <1>7, <1>8, <1>9 DEF EtcdNext, Regist, Stopping

(***************************************************************************)
(* A lease that a service renews is the one its key hangs on, whatever     *)
(* fails, expires or crashes, and whatever Stop does beside LeaseWatch.    *)
(***************************************************************************)
THEOREM RenewedHoldsKey == EtcdSpec => []KeptHoldsKey
<1>1. EtcdInv => KeptHoldsKey
  BY DEF EtcdInv
<1> QED
  BY <1>1, EtcdInitInv, EtcdInvStep, PTL DEF EtcdSpec
=============================================================================
