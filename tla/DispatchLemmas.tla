--------------------------- MODULE DispatchLemmas ---------------------------
(***************************************************************************)
(* What the actions of Dispatch do to the streams, the sessions, the pool  *)
(* and the answers, for any set of requests, connections and goroutines.   *)
(***************************************************************************)
EXTENDS Dispatch, TLAPS

USE ZenonT(5), SMTT(60), SMTT(90)

(***************************************************************************)
(* What the actions of Dispatch may do together; a process restricts them. *)
(***************************************************************************)
DispatchNext ==
    \/ \E r \in Req : Arrive(r)
    \/ \E c \in Conn : \/ HandleRead(c) \/ Close(c) \/ Refuse(c) \/ DecodeSync(c) \/ Decode(c)
                       \/ ProduceTask(c) \/ ProduceTaskSeparate(c)
    \/ \E w \in Worker : TakeTask(w)
    \/ \E g \in Goroutine : RpcHandle(g) \/ Reject(g) \/ Respond(g) \/ EndTask(g)

LEMMA ExceptType ==
  ASSUME NEW S, NEW T, NEW f \in [S -> T], NEW x \in S, NEW y \in T
  PROVE  [f EXCEPT ![x] = y] \in [S -> T]
OBVIOUS

LEMMA ExceptAt ==
  ASSUME NEW S, NEW T, NEW f \in [S -> T], NEW x \in S, NEW y
  PROVE  [f EXCEPT ![x] = y][x] = y /\ \A z \in S \ {x} : [f EXCEPT ![x] = y][z] = f[z]
OBVIOUS

(***************************************************************************)
(* A task starts.                                                          *)
(***************************************************************************)
LEMMA StartTaskType ==
  ASSUME TypeOK, NEW g \in Goroutine, NEW r \in Req, StartTask(g, r)
  PROVE  /\ phase' \in [Goroutine -> {"idle", "process", "respond", "end"}]
         /\ task' \in [Goroutine -> Req \cup {NONE}]
         /\ started' \subseteq Req
<1>1. /\ phase' = [phase EXCEPT ![g] = "process"]
      /\ task' = [task EXCEPT ![g] = r]
      /\ started' = started \cup {r}
  BY ZenonT(60) DEF StartTask
<1>2. /\ phase \in [Goroutine -> {"idle", "process", "respond", "end"}]
      /\ task \in [Goroutine -> Req \cup {NONE}]
      /\ started \subseteq Req
  BY ZenonT(60) DEF TypeOK
<1>3. phase' \in [Goroutine -> {"idle", "process", "respond", "end"}]
  BY ONLY <1>1, <1>2, g \in Goroutine, ExceptType
<1>4. task' \in [Goroutine -> Req \cup {NONE}]
  BY ONLY <1>1, <1>2, g \in Goroutine, r \in Req, ExceptType
<1>5. started' \subseteq Req
  BY ONLY <1>1, <1>2, r \in Req
<1> QED
  BY <1>3, <1>4, <1>5

LEMMA TypeInit == Init => TypeOK
BY DispatchAssumption, SMTT(30) DEF Init, TypeOK, Goroutine

LEMMA InPoolReq ==
  ASSUME TypeOK, DispatchInv
  PROVE  InPool \subseteq Req
<1>1. ASSUME NEW c \in Conn, reader[c] = "send" PROVE Head(batch[c]) \in Req
  BY <1>1, SMTT(30) DEF TypeOK, DispatchInv, StreamInv
<1>2. Range(taskCh) \subseteq Req
  BY DEF DispatchInv, PoolInv, Handed, Sent
<1>3. ASSUME NEW g \in Goroutine, phase[g] # "idle" PROVE task[g] \in Req
  BY <1>3 DEF DispatchInv, PoolInv, Handed, Sent, Running
<1> QED
  BY <1>1, <1>2, <1>3 DEF InPool

LEMMA TypeStep ==
  ASSUME TypeOK, DispatchInv, [DispatchNext]_vars
  PROVE  TypeOK'
<1>1. ASSUME NEW r \in Req, Arrive(r) PROVE TypeOK'
  BY <1>1, DispatchAssumption, SMTT(30) DEF Arrive, TypeOK, pvars, hvars
<1>2. ASSUME NEW c \in Conn, HandleRead(c) PROVE TypeOK'
  <2>1. PICK n \in 1..Len(wire[c]) :
           /\ batch' = [batch EXCEPT ![c] = SubSeq(wire[c], 1, n)]
           /\ wire' = [wire EXCEPT ![c] = SubSeq(wire[c], n + 1, Len(wire[c]))]
    BY <1>2, ZenonT(60) DEF HandleRead
  <2>2. wire[c] \in Seq(Req) /\ wire[c] # <<>>
    BY <2>1, SMTT(30) DEF TypeOK
  <2>3. SubSeq(wire[c], 1, n) \in Seq(Req) /\ SubSeq(wire[c], n + 1, Len(wire[c])) \in Seq(Req)
    BY <2>2
  <2>4. Head(wire[c]) \in Req
    BY <2>2
  <2> QED
    BY <1>2, <2>1, <2>3, <2>4 DEF HandleRead, TypeOK, pvars, hvars
<1>3. ASSUME NEW c \in Conn, Close(c) PROVE TypeOK'
  BY <1>3 DEF Close, TypeOK, pvars, hvars
<1>4. ASSUME NEW c \in Conn, reader[c] \in {"decode", "send"}
      PROVE  batch[c] \in Seq(Req) /\ Head(batch[c]) \in Req /\ Tail(batch[c]) \in Seq(Req)
  BY <1>4, SMTT(30) DEF TypeOK, DispatchInv, StreamInv
<1>16. ASSUME NEW c \in Conn, Refuse(c) PROVE TypeOK'
  BY <1>4, <1>16, SMTT(30) DEF Refuse, NextPacket, TypeOK, pvars, hvars
<1>5. ASSUME NEW c \in Conn, DecodeSync(c) PROVE TypeOK'
  BY <1>4, <1>5, SMTT(30) DEF DecodeSync, NextPacket, TypeOK, pvars, hvars
<1>6. ASSUME NEW c \in Conn, Decode(c) PROVE TypeOK'
  BY <1>4, <1>6, SMTT(30) DEF Decode, TypeOK, pvars, hvars
<1>7. ASSUME NEW c \in Conn, ProduceTask(c) PROVE TypeOK'
  BY <1>4, <1>7, SMTT(30) DEF ProduceTask, NextPacket, TypeOK, pvars, hvars
<1>8. ASSUME NEW c \in Conn, ProduceTaskSeparate(c) PROVE TypeOK'
  <2>1. StartTask(Sep, Head(batch[c])) /\ reader[c] = "send" /\ Sep \in Goroutine
    BY <1>8, ZenonT(60) DEF ProduceTaskSeparate, Goroutine
  <2>2. /\ phase' \in [Goroutine -> {"idle", "process", "respond", "end"}]
        /\ task' \in [Goroutine -> Req \cup {NONE}]
        /\ started' \subseteq Req
    BY <1>4, <2>1, StartTaskType
  <2>3. /\ batch' \in [Conn -> Seq(Req)]
        /\ reader' \in [Conn -> {"read", "decode", "send", "closed"}]
    BY <1>4, <1>8 DEF ProduceTaskSeparate, NextPacket, TypeOK
  <2> QED
    BY <1>8, <2>2, <2>3 DEF ProduceTaskSeparate, TypeOK, hvars
<1>9. ASSUME NEW w \in Worker, TakeTask(w) PROVE TypeOK'
  <2>1. taskCh \in Seq(Req) /\ Head(taskCh) \in Req /\ Tail(taskCh) \in Seq(Req)
    BY <1>9, SMTT(30) DEF TakeTask, TypeOK
  <2>2. StartTask(w, Head(taskCh)) /\ w \in Goroutine
    BY <1>9, ZenonT(60) DEF TakeTask, Goroutine
  <2>3. /\ phase' \in [Goroutine -> {"idle", "process", "respond", "end"}]
        /\ task' \in [Goroutine -> Req \cup {NONE}]
        /\ started' \subseteq Req
    BY <2>1, <2>2, StartTaskType
  <2> QED
    BY <1>9, <2>1, <2>3 DEF TakeTask, TypeOK, rvars, hvars
<1>10. ASSUME NEW g \in Goroutine, phase[g] # "idle"
       PROVE  task[g] \in Req /\ session[task[g]] \in Req
  <2>1. task[g] \in Handed
    BY <1>10 DEF DispatchInv, PoolInv, Running
  <2>2. task[g] \in Req
    BY <2>1 DEF Handed, Sent
  <2> QED
    BY <2>1, <2>2, SMTT(30) DEF DispatchInv, SessionInv, TypeOK
<1>11. ASSUME NEW g \in Goroutine, RpcHandle(g) PROVE TypeOK'
  <2>1. /\ phase[g] # "idle"
        /\ err' = err \/ err' = [err EXCEPT ![session[task[g]]] = task[g]]
        /\ failed' \subseteq failed \cup {task[g]}
    BY <1>11 DEF RpcHandle
  <2>2. err \in [Req -> Req \cup {NONE}]
    BY DEF TypeOK
  <2>3. task[g] \in Req /\ session[task[g]] \in Req
    BY <1>10, <2>1
  <2>4. err' \in [Req -> Req \cup {NONE}]
    BY ONLY <2>1, <2>2, <2>3, ExceptType
  <2> QED
    BY <1>11, <2>1, <2>3, <2>4 DEF RpcHandle, TypeOK, rvars
<1>12. ASSUME NEW g \in Goroutine, Reject(g) PROVE TypeOK'
  BY <1>10, <1>12 DEF Reject, MessageSend, TypeOK, rvars, hvars
<1>13. ASSUME NEW g \in Goroutine, Respond(g) PROVE TypeOK'
  BY <1>10, <1>13, SMTT(30) DEF Respond, MessageSend, TypeOK, rvars, hvars
<1>14. ASSUME NEW g \in Goroutine, EndTask(g) PROVE TypeOK'
  BY <1>10, <1>14, SMTT(30) DEF EndTask, TypeOK, rvars, hvars
<1>15. CASE UNCHANGED vars
  BY <1>15 DEF vars, TypeOK
<1> QED
  BY <1>1, <1>2, <1>3, <1>5, <1>6, <1>7, <1>8, <1>9, <1>11, <1>12, <1>13, <1>14, <1>15, <1>16
     DEF DispatchNext
-----------------------------------------------------------------------------
(***************************************************************************)
(* The streams.  A step that does not touch a connection keeps its stream; *)
(* taking the first packet of a batch makes one more request sent.         *)
(***************************************************************************)
Untouched(c) == /\ wire'[c] = wire[c] /\ batch'[c] = batch[c] /\ reader'[c] = reader[c]
                /\ cur'[c] = cur[c] /\ arrived'[c] = arrived[c]

LEMMA StreamSame ==
  ASSUME NEW c \in Conn, StreamInv(c), Untouched(c)
  PROVE  StreamInv(c)' /\ sentTo(c)' = sentTo(c) /\ nArrived(c)' = nArrived(c)
<1>1. /\ nArrived(c)' = nArrived(c) /\ nBatch(c)' = nBatch(c) /\ nWire(c)' = nWire(c)
  BY DEF Untouched, nArrived, nBatch, nWire
<1>2. sentTo(c)' = sentTo(c)
  BY <1>1 DEF sentTo
<1> QED
  BY <1>1, <1>2, ZenonT(60) DEF StreamInv, Untouched

LEMMA Lengths ==
  ASSUME TypeOK, NEW c \in Conn
  PROVE  /\ nArrived(c) \in Nat /\ nBatch(c) \in Nat /\ nWire(c) \in Nat
         /\ arrived[c] \in Seq(Req) /\ batch[c] \in Seq(Req) /\ wire[c] \in Seq(Req)
BY SMTT(30) DEF TypeOK, nArrived, nBatch, nWire

LEMMA SentBound ==
  ASSUME TypeOK, NEW c \in Conn, StreamInv(c)
  PROVE  /\ sentTo(c) \in Nat /\ sentTo(c) <= nArrived(c)
         /\ nArrived(c) = sentTo(c) + nBatch(c) + nWire(c)
<1>1. sentTo(c) \in Nat
  BY ZenonT(60) DEF StreamInv
<1> QED
  BY <1>1, Lengths DEF sentTo

LEMMA Appended ==
  ASSUME NEW q \in Seq(Req), NEW x \in Req
  PROVE  /\ Len(Append(q, x)) = Len(q) + 1
         /\ \A i \in 1..Len(q) : Append(q, x)[i] = q[i]
         /\ Append(q, x)[Len(q) + 1] = x
OBVIOUS

(***************************************************************************)
(* A request at the end of a stream: n requests arrived, of which s were   *)
(* sent, k are in the batch and m on the wire.                             *)
(***************************************************************************)
LEMMA AppendedStream ==
  ASSUME NEW a, NEW a2, NEW w, NEW w2, NEW b, NEW r, NEW s \in Nat,
         NEW n \in Nat, NEW m \in Nat, NEW k \in Nat, n = s + k + m,
         \A i \in 1..n : a2[i] = a[i], a2[n + 1] = r,
         \A i \in 1..m : w2[i] = w[i], w2[m + 1] = r,
         \A i \in 1..n : a[i] # r,
         \A i, j \in 1..n : a[i] = a[j] => i = j,
         \A i \in 1..k : b[i] = a[s + i],
         \A i \in 1..m : w[i] = a[s + k + i]
  PROVE  /\ \A i, j \in 1..(n + 1) : a2[i] = a2[j] => i = j
         /\ \A i \in 1..k : b[i] = a2[s + i]
         /\ \A i \in 1..(m + 1) : w2[i] = a2[s + k + i]
<1>1. \A i, j \in 1..(n + 1) : a2[i] = a2[j] => i = j
  <2> TAKE i, j \in 1..(n + 1)
  <2> HAVE a2[i] = a2[j]
  <2>1. CASE i \in 1..n /\ j \in 1..n
    BY <2>1, SMTT(30)
  <2>2. CASE i = n + 1 /\ j \in 1..n
    BY <2>2
  <2>3. CASE i \in 1..n /\ j = n + 1
    BY <2>3
  <2> QED
    BY <2>1, <2>2, <2>3, SMTT(30)
<1>2. \A i \in 1..k : b[i] = a2[s + i]
  <2> TAKE i \in 1..k
  <2>1. s + i \in 1..n
    BY SMTT(30)
  <2> QED
    BY <2>1
<1>3. \A i \in 1..(m + 1) : w2[i] = a2[s + k + i]
  <2> TAKE i \in 1..(m + 1)
  <2>1. CASE i \in 1..m
    <3>1. s + k + i \in 1..n
      BY <2>1, SMTT(30)
    <3> QED
      BY <2>1, <3>1
  <2>2. CASE i = m + 1
    BY <2>2, SMTT(30)
  <2> QED
    BY <2>1, <2>2, SMTT(30)
<1> QED
  BY <1>1, <1>2, <1>3

LEMMA StreamArrive ==
  ASSUME TypeOK, NEW r \in Req, Arrive(r), \A c \in Conn : StreamInv(c)
  PROVE  /\ \A c \in Conn : StreamInv(c)' /\ sentTo(c)' = sentTo(c)
         /\ \A c \in Conn : \A i \in 1..nArrived(c) : arrived'[c][i] = arrived[c][i]
         /\ \A c \in Conn : nArrived(c)' \in {nArrived(c), nArrived(c) + 1}
<1> DEFINE d == From[r]
<1>1. d \in Conn
  BY DispatchAssumption
<1> HIDE DEF d
<1>2. /\ d = From[r]
      /\ r \notin Range(arrived[d])
      /\ wire' = [wire EXCEPT ![d] = Append(wire[d], r)]
      /\ arrived' = [arrived EXCEPT ![d] = Append(arrived[d], r)]
      /\ reader' = reader /\ batch' = batch /\ cur' = cur
  BY DEF Arrive, d
<1>3. /\ wire'[d] = Append(wire[d], r) /\ arrived'[d] = Append(arrived[d], r)
      /\ \A c \in Conn \ {d} : Untouched(c)
  BY <1>1, <1>2 DEF TypeOK, Untouched
<1>4. \A c \in Conn \ {d} : /\ StreamInv(c)' /\ sentTo(c)' = sentTo(c)
                             /\ arrived'[c] = arrived[c] /\ nArrived(c)' = nArrived(c)
  BY <1>3, StreamSame DEF Untouched
<1>5. StreamInv(d)
  BY <1>1
<1>6. /\ nArrived(d) \in Nat /\ nBatch(d) \in Nat /\ nWire(d) \in Nat
      /\ arrived[d] \in Seq(Req) /\ wire[d] \in Seq(Req)
      /\ sentTo(d) \in Nat /\ sentTo(d) <= nArrived(d)
      /\ nArrived(d) = sentTo(d) + nBatch(d) + nWire(d)
  BY <1>1, <1>5, Lengths, SentBound
<1>7. /\ nArrived(d)' = nArrived(d) + 1 /\ nWire(d)' = nWire(d) + 1 /\ nBatch(d)' = nBatch(d)
      /\ \A i \in 1..nArrived(d) : arrived'[d][i] = arrived[d][i]
      /\ arrived'[d][nArrived(d) + 1] = r
      /\ \A i \in 1..nWire(d) : wire'[d][i] = wire[d][i]
      /\ wire'[d][nWire(d) + 1] = r
  <2>1. ASSUME NEW q \in Seq(Req), NEW q2, q2 = Append(q, r)
        PROVE  /\ Len(q2) = Len(q) + 1 /\ q2[Len(q) + 1] = r
               /\ \A i \in 1..Len(q) : q2[i] = q[i]
    BY <2>1, Appended, ZenonT(60)
  <2>2. /\ Len(arrived'[d]) = Len(arrived[d]) + 1 /\ arrived'[d][Len(arrived[d]) + 1] = r
        /\ \A i \in 1..Len(arrived[d]) : arrived'[d][i] = arrived[d][i]
    BY ONLY <1>3, <1>6, <2>1, ZenonT(60)
  <2>3. /\ Len(wire'[d]) = Len(wire[d]) + 1 /\ wire'[d][Len(wire[d]) + 1] = r
        /\ \A i \in 1..Len(wire[d]) : wire'[d][i] = wire[d][i]
    BY ONLY <1>3, <1>6, <2>1, ZenonT(60)
  <2>4. nBatch(d)' = nBatch(d)
    BY ONLY <1>2, ZenonT(60) DEF nBatch
  <2> QED
    BY ONLY <2>2, <2>3, <2>4, ZenonT(60) DEF nArrived, nWire
<1>8. \A i \in 1..nArrived(d) : arrived[d][i] # r
  BY <1>2, <1>6 DEF Range, nArrived
<1>9. sentTo(d)' = sentTo(d)
  BY ONLY <1>6, <1>7 DEF sentTo
<1>10. StreamInv(d)'
  <2>0. /\ nArrived(d) \in Nat /\ nBatch(d) \in Nat /\ nWire(d) \in Nat
        /\ sentTo(d) \in Nat /\ nArrived(d) = sentTo(d) + nBatch(d) + nWire(d)
    BY <1>6
  <2>1. /\ \A i, j \in 1..nArrived(d) : arrived[d][i] = arrived[d][j] => i = j
        /\ \A i \in 1..nBatch(d) : batch[d][i] = arrived[d][sentTo(d) + i]
        /\ \A i \in 1..nWire(d) : wire[d][i] = arrived[d][sentTo(d) + nBatch(d) + i]
        /\ \A i \in 1..nArrived(d) : From[arrived[d][i]] = d
    BY <1>5, ZenonT(60) DEF StreamInv
  <2>2. /\ \A i, j \in 1..(nArrived(d) + 1) : arrived'[d][i] = arrived'[d][j] => i = j
        /\ \A i \in 1..nBatch(d) : batch[d][i] = arrived'[d][sentTo(d) + i]
        /\ \A i \in 1..(nWire(d) + 1) : wire'[d][i] = arrived'[d][sentTo(d) + nBatch(d) + i]
    BY ONLY <1>7, <1>8, <2>0, <2>1, AppendedStream, SMTT(60)
  <2>3. \A i \in 1..(nArrived(d) + 1) : From[arrived'[d][i]] = d
    <3> TAKE i \in 1..(nArrived(d) + 1)
    <3>1. i \in 1..nArrived(d) \/ i = nArrived(d) + 1
      BY ONLY <2>0, i \in 1..(nArrived(d) + 1)
    <3>2. CASE i \in 1..nArrived(d)
      BY ONLY <1>7, <2>1, <3>2, ZenonT(60)
    <3>3. CASE i = nArrived(d) + 1
      BY ONLY <1>2, <1>7, <3>3, ZenonT(60)
    <3> QED
      BY ONLY <3>1, <3>2, <3>3
  <2>4. /\ reader[d] \in {"decode", "send"} <=> batch[d] # <<>>
        /\ reader[d] \in {"decode", "send"} => cur[d] # NONE
        /\ reader[d] = "send" => Kind[batch[d][1]] # "sync"
    BY <1>5, ZenonT(60) DEF StreamInv
  <2>5. /\ sentTo(d)' \in Nat
        /\ \A i \in 1..nArrived(d)' : From[arrived'[d][i]] = d
        /\ \A i, j \in 1..nArrived(d)' : arrived'[d][i] = arrived'[d][j] => i = j
        /\ \A i \in 1..nBatch(d)' : batch'[d][i] = arrived'[d][sentTo(d)' + i]
        /\ \A i \in 1..nWire(d)' : wire'[d][i] = arrived'[d][sentTo(d)' + nBatch(d)' + i]
    <3>1. /\ nArrived(d)' = nArrived(d) + 1 /\ nWire(d)' = nWire(d) + 1
          /\ nBatch(d)' = nBatch(d) /\ batch' = batch /\ sentTo(d) \in Nat
      BY ONLY <1>2, <1>7, <2>0
    <3> QED
      BY ONLY <1>9, <2>2, <2>3, <3>1, ZenonT(60)
  <2>6. /\ reader'[d] \in {"decode", "send"} <=> batch'[d] # <<>>
        /\ reader'[d] \in {"decode", "send"} => cur'[d] # NONE
        /\ reader'[d] = "send" => Kind[batch'[d][1]] # "sync"
    BY ONLY <1>2, <2>4, ZenonT(60)
  <2> QED
    BY ONLY <2>5, <2>6, ZenonT(60) DEF StreamInv
<1> QED
  BY ONLY <1>4, <1>7, <1>9, <1>10

LEMMA Cut ==
  ASSUME NEW q \in Seq(Req), NEW n \in 1..Len(q)
  PROVE  /\ SubSeq(q, 1, n) \in Seq(Req) /\ SubSeq(q, n + 1, Len(q)) \in Seq(Req)
         /\ Len(SubSeq(q, 1, n)) = n
         /\ Len(SubSeq(q, n + 1, Len(q))) = Len(q) - n
         /\ \A i \in 1..n : SubSeq(q, 1, n)[i] = q[i]
         /\ \A i \in 1..(Len(q) - n) : SubSeq(q, n + 1, Len(q))[i] = q[n + i]
         /\ SubSeq(q, 1, n) # <<>>
OBVIOUS

LEMMA Elements ==
  ASSUME NEW q \in Seq(Req)
  PROVE  /\ Len(q) \in Nat /\ DOMAIN q = 1..Len(q)
         /\ q # <<>> => Len(q) # 0
         /\ \A i \in 1..Len(q) : q[i] \in Req
OBVIOUS

LEMMA Tailed ==
  ASSUME NEW q \in Seq(Req), q # <<>>
  PROVE  /\ Len(q) \in Nat \ {0} /\ Len(Tail(q)) = Len(q) - 1 /\ Tail(q) \in Seq(Req)
         /\ Head(q) = q[1] /\ Head(q) \in Req
         /\ \A i \in 1..(Len(q) - 1) : Tail(q)[i] = q[i + 1]
         /\ Tail(q) # <<>> <=> Len(q) > 1
<1>1. Tail(q) \in Seq(Req) /\ Len(Tail(q)) = Len(q) - 1 /\ Len(q) \in Nat \ {0}
  OBVIOUS
<1>2. Tail(q) # <<>> <=> Len(Tail(q)) # 0
  <2>1. Tail(q) # <<>> => Len(Tail(q)) \in Nat \ {0}
    BY ONLY <1>1, Elements
  <2>2. Tail(q) = <<>> => Len(Tail(q)) = 0
    BY ONLY Len(<<>>) = 0, ZenonT(60)
  <2> QED
    BY ONLY <2>1, <2>2, ZenonT(60)
<1>3. \A n \in Nat \ {0} : (n - 1 = 0 => ~(n > 1)) /\ (n - 1 # 0 => n > 1)
  OBVIOUS
<1>4. Tail(q) # <<>> <=> Len(q) > 1
  BY ONLY <1>1, <1>2, <1>3, ZenonT(60)
<1>5. \A i \in 1..Len(Tail(q)) : Tail(q)[i] = q[i + 1]
  OBVIOUS
<1>6. \A i \in 1..(Len(q) - 1) : Tail(q)[i] = q[i + 1]
  BY ONLY <1>1, <1>5, ZenonT(60)
<1>7. Head(q) = q[1] /\ Head(q) \in Req
  OBVIOUS
<1> QED
  BY ONLY <1>1, <1>4, <1>6, <1>7, ZenonT(60)

LEMMA StreamRead ==
  ASSUME TypeOK, NEW d \in Conn, HandleRead(d), \A c \in Conn : StreamInv(c)
  PROVE  \A c \in Conn : StreamInv(c)' /\ sentTo(c)' = sentTo(c)
<1>1. PICK n \in 1..Len(wire[d]) :
         /\ batch' = [batch EXCEPT ![d] = SubSeq(wire[d], 1, n)]
         /\ wire' = [wire EXCEPT ![d] = SubSeq(wire[d], n + 1, Len(wire[d]))]
  BY ZenonT(60) DEF HandleRead
<1>2. /\ reader[d] = "read" /\ reader'[d] = "decode" /\ cur'[d] = Head(wire[d])
      /\ batch'[d] = SubSeq(wire[d], 1, n)
      /\ wire'[d] = SubSeq(wire[d], n + 1, Len(wire[d]))
      /\ arrived' = arrived
      /\ \A c \in Conn \ {d} : Untouched(c)
  <2>1. /\ wire \in [Conn -> Seq(Req)] /\ batch \in [Conn -> Seq(Req)]
        /\ cur \in [Conn -> Req \cup {NONE}]
        /\ reader \in [Conn -> {"read", "decode", "send", "closed"}]
    BY ZenonT(60) DEF TypeOK
  <2>2. /\ reader[d] = "read" /\ reader' = [reader EXCEPT ![d] = "decode"]
        /\ cur' = [cur EXCEPT ![d] = Head(wire[d])] /\ arrived' = arrived
    BY ZenonT(60) DEF HandleRead
  <2>3. /\ batch'[d] = SubSeq(wire[d], 1, n)
        /\ \A c \in Conn \ {d} : batch'[c] = batch[c]
    BY ONLY d \in Conn, <1>1, <2>1, ExceptAt, ZenonT(60)
  <2>4. /\ wire'[d] = SubSeq(wire[d], n + 1, Len(wire[d]))
        /\ \A c \in Conn \ {d} : wire'[c] = wire[c]
    BY ONLY d \in Conn, <1>1, <2>1, ExceptAt, ZenonT(60)
  <2>5. /\ reader'[d] = "decode" /\ cur'[d] = Head(wire[d])
        /\ \A c \in Conn \ {d} : reader'[c] = reader[c] /\ cur'[c] = cur[c]
    BY ONLY d \in Conn, <2>1, <2>2, ExceptAt, ZenonT(60)
  <2> QED
    BY ONLY <2>2, <2>3, <2>4, <2>5, ZenonT(60) DEF Untouched
<1>3. \A c \in Conn \ {d} : StreamInv(c)' /\ sentTo(c)' = sentTo(c)
  BY <1>2, StreamSame
<1>4. StreamInv(d)
  OBVIOUS
<1>5. /\ nArrived(d) \in Nat /\ nBatch(d) \in Nat /\ nWire(d) \in Nat
      /\ sentTo(d) \in Nat /\ nArrived(d) = sentTo(d) + nBatch(d) + nWire(d)
      /\ sentTo(d) = nArrived(d) - nBatch(d) - nWire(d)
  BY <1>4, Lengths, SentBound DEF sentTo
<1>6. nBatch(d) = 0 /\ n \in 1..nWire(d)
  BY <1>1, <1>2, <1>4 DEF StreamInv, nBatch, nWire
<1>7. /\ nBatch(d)' = n /\ nWire(d)' = nWire(d) - n /\ nArrived(d)' = nArrived(d)
      /\ \A i \in 1..n : batch'[d][i] = wire[d][i]
      /\ \A i \in 1..(nWire(d) - n) : wire'[d][i] = wire[d][n + i]
      /\ batch'[d] # <<>>
  <2>1. wire[d] \in Seq(Req)
    BY Lengths
  <2>2. /\ Len(SubSeq(wire[d], 1, n)) = n
        /\ Len(SubSeq(wire[d], n + 1, Len(wire[d]))) = Len(wire[d]) - n
        /\ \A i \in 1..n : SubSeq(wire[d], 1, n)[i] = wire[d][i]
        /\ \A i \in 1..(Len(wire[d]) - n) :
              SubSeq(wire[d], n + 1, Len(wire[d]))[i] = wire[d][n + i]
        /\ SubSeq(wire[d], 1, n) # <<>>
    BY ONLY n \in 1..Len(wire[d]), <2>1, Cut, ZenonT(60)
  <2>3. nBatch(d)' = n /\ nWire(d)' = nWire(d) - n /\ nArrived(d)' = nArrived(d)
    BY ONLY <1>2, <2>2, ZenonT(60) DEF nBatch, nWire, nArrived
  <2>4. nWire(d) = Len(wire[d])
    BY DEF nWire
  <2>5. /\ \A i \in 1..n : batch'[d][i] = wire[d][i]
        /\ batch'[d] # <<>>
    BY ONLY <1>2, <2>2, ZenonT(60)
  <2>6. \A i \in 1..(nWire(d) - n) : wire'[d][i] = wire[d][n + i]
    BY ONLY <1>2, <2>2, <2>4, ZenonT(60)
  <2> QED
    BY ONLY <2>3, <2>5, <2>6, ZenonT(60)
<1>8. sentTo(d)' = sentTo(d)
  BY ONLY <1>5, <1>6, <1>7, SMTT(60) DEF sentTo
<1>9. Head(wire[d]) # NONE
  <2>1. wire[d] # <<>> /\ wire[d] \in Seq(Req)
    BY <1>1, Lengths
  <2> QED
    BY <2>1, Tailed, DispatchAssumption
<1>10. /\ \A i \in 1..nArrived(d) : From[arrived[d][i]] = d
       /\ \A i, j \in 1..nArrived(d) : arrived[d][i] = arrived[d][j] => i = j
       /\ \A i \in 1..nWire(d) : wire[d][i] = arrived[d][sentTo(d) + nBatch(d) + i]
  BY <1>4, ZenonT(60) DEF StreamInv
<1>11. \A i \in 1..n : batch'[d][i] = arrived[d][sentTo(d) + i]
  <2> TAKE i \in 1..n
  <2>1. i \in 1..nWire(d) /\ sentTo(d) + nBatch(d) + i = sentTo(d) + i
    BY ONLY i \in 1..n, <1>5, <1>6
  <2> QED
    BY ONLY i \in 1..n, <1>7, <1>10, <2>1, ZenonT(60)
<1>12. \A i \in 1..(nWire(d) - n) : wire'[d][i] = arrived[d][sentTo(d) + n + i]
  <2> TAKE i \in 1..(nWire(d) - n)
  <2>1. n + i \in 1..nWire(d) /\ sentTo(d) + nBatch(d) + (n + i) = sentTo(d) + n + i
    BY ONLY i \in 1..(nWire(d) - n), <1>5, <1>6
  <2> QED
    BY ONLY i \in 1..(nWire(d) - n), <1>7, <1>10, <2>1, ZenonT(60)
<1>13. /\ sentTo(d)' \in Nat
       /\ \A i \in 1..nArrived(d)' : From[arrived'[d][i]] = d
       /\ \A i, j \in 1..nArrived(d)' : arrived'[d][i] = arrived'[d][j] => i = j
       /\ \A i \in 1..nBatch(d)' : batch'[d][i] = arrived'[d][sentTo(d)' + i]
       /\ \A i \in 1..nWire(d)' : wire'[d][i] = arrived'[d][sentTo(d)' + nBatch(d)' + i]
  BY ONLY <1>2, <1>5, <1>7, <1>8, <1>10, <1>11, <1>12, ZenonT(60)
<1>14. /\ reader'[d] \in {"decode", "send"} <=> batch'[d] # <<>>
       /\ reader'[d] \in {"decode", "send"} => cur'[d] # NONE
       /\ reader'[d] = "send" => Kind[batch'[d][1]] # "sync"
  BY ONLY <1>2, <1>7, <1>9, ZenonT(60)
<1>15. StreamInv(d)'
  BY ONLY <1>13, <1>14, ZenonT(60) DEF StreamInv
<1> QED
  BY <1>3, <1>8, <1>15

LEMMA StreamReader ==
  ASSUME TypeOK, NEW d \in Conn, Close(d) \/ Decode(d), \A c \in Conn : StreamInv(c)
  PROVE  \A c \in Conn : StreamInv(c)' /\ sentTo(c)' = sentTo(c)
<1>1. wire' = wire /\ batch' = batch /\ cur' = cur /\ arrived' = arrived
  BY ZenonT(60) DEF Close, Decode
<1>2. \A c \in Conn : /\ nArrived(c)' = nArrived(c) /\ nBatch(c)' = nBatch(c)
                      /\ nWire(c)' = nWire(c) /\ sentTo(c)' = sentTo(c)
  BY <1>1, ZenonT(60) DEF nArrived, nBatch, nWire, sentTo
<1>3. \A c \in Conn \ {d} : reader'[c] = reader[c]
  BY DEF Close, Decode, TypeOK
<1>4. batch[d] # <<>> => Head(batch[d]) = batch[d][1]
  BY Lengths, Tailed
<1>5. /\ reader'[d] \in {"decode", "send"} <=> batch[d] # <<>>
      /\ reader'[d] \in {"decode", "send"} => cur[d] # NONE
      /\ reader'[d] = "send" => Kind[batch[d][1]] # "sync"
  <2>1. /\ reader[d] \in {"decode", "send"} <=> batch[d] # <<>>
        /\ reader[d] \in {"decode", "send"} => cur[d] # NONE
    BY ZenonT(60) DEF StreamInv
  <2>2. \/ reader[d] = "read" /\ reader'[d] = "closed"
        \/ reader[d] = "decode" /\ reader'[d] = "send" /\ Kind[Head(batch[d])] # "sync"
    BY DEF Close, Decode, TypeOK
  <2> QED
    BY ONLY <1>4, <2>1, <2>2
<1>6. ASSUME NEW c \in Conn PROVE StreamInv(c)'
  <2>1. /\ sentTo(c)' \in Nat
        /\ \A i \in 1..nArrived(c)' : From[arrived'[c][i]] = c
        /\ \A i, j \in 1..nArrived(c)' : arrived'[c][i] = arrived'[c][j] => i = j
        /\ \A i \in 1..nBatch(c)' : batch'[c][i] = arrived'[c][sentTo(c)' + i]
        /\ \A i \in 1..nWire(c)' : wire'[c][i] = arrived'[c][sentTo(c)' + nBatch(c)' + i]
    <3>1. /\ sentTo(c) \in Nat
          /\ \A i \in 1..nArrived(c) : From[arrived[c][i]] = c
          /\ \A i, j \in 1..nArrived(c) : arrived[c][i] = arrived[c][j] => i = j
          /\ \A i \in 1..nBatch(c) : batch[c][i] = arrived[c][sentTo(c) + i]
          /\ \A i \in 1..nWire(c) : wire[c][i] = arrived[c][sentTo(c) + nBatch(c) + i]
      BY ZenonT(60) DEF StreamInv
    <3>2. /\ nArrived(c)' = nArrived(c) /\ nBatch(c)' = nBatch(c)
          /\ nWire(c)' = nWire(c) /\ sentTo(c)' = sentTo(c)
      BY <1>2
    <3> QED
      BY ONLY <1>1, <3>1, <3>2, ZenonT(60)
  <2>2. /\ reader[c] \in {"decode", "send"} <=> batch[c] # <<>>
        /\ reader[c] \in {"decode", "send"} => cur[c] # NONE
        /\ reader[c] = "send" => Kind[batch[c][1]] # "sync"
    BY ZenonT(60) DEF StreamInv
  <2>3. /\ reader'[c] \in {"decode", "send"} <=> batch'[c] # <<>>
        /\ reader'[c] \in {"decode", "send"} => cur'[c] # NONE
        /\ reader'[c] = "send" => Kind[batch'[c][1]] # "sync"
    <3>1. CASE c = d
      BY ONLY <1>1, <1>5, <3>1, ZenonT(60)
    <3>2. CASE c # d
      <4>1. reader'[c] = reader[c]
        BY <1>3, <3>2
      <4> QED
        BY ONLY <1>1, <2>2, <4>1, ZenonT(60)
    <3> QED
      BY ONLY <3>1, <3>2
  <2> QED
    BY ONLY <2>1, <2>3, ZenonT(60) DEF StreamInv
<1> QED
  BY <1>2, <1>6

LEMMA SentSame ==
  ASSUME \A c \in Conn : sentTo(c)' = sentTo(c),
         \A c \in Conn : \A i \in 1..sentTo(c) : arrived'[c][i] = arrived[c][i]
  PROVE  Sent' = Sent
BY DispatchAssumption, SMTT(30) DEF Sent

(***************************************************************************)
(* The first packet of the batch is the next of the stream.                *)
(***************************************************************************)
LEMMA FirstPacket ==
  ASSUME TypeOK, NEW d \in Conn, StreamInv(d), reader[d] \in {"decode", "send"}
  PROVE  /\ batch[d] # <<>> /\ batch[d] \in Seq(Req)
         /\ Head(batch[d]) \in Req /\ Head(batch[d]) = batch[d][1]
         /\ sentTo(d) \in Nat /\ sentTo(d) + 1 \in 1..nArrived(d)
         /\ Head(batch[d]) = arrived[d][sentTo(d) + 1]
         /\ From[Head(batch[d])] = d
         /\ Head(batch[d]) \notin Sent
<1>1. batch[d] # <<>> /\ batch[d] \in Seq(Req)
  <2>1. batch[d] # <<>>
    BY ZenonT(60) DEF StreamInv
  <2> QED
    BY <2>1, Lengths
<1>2. Head(batch[d]) \in Req /\ Head(batch[d]) = batch[d][1] /\ nBatch(d) \in Nat \ {0}
  BY ONLY <1>1, Tailed, ZenonT(60) DEF nBatch
<1>3. /\ sentTo(d) \in Nat /\ nArrived(d) = sentTo(d) + nBatch(d) + nWire(d)
      /\ nWire(d) \in Nat /\ nArrived(d) \in Nat
  BY Lengths, SentBound
<1>4. sentTo(d) + 1 \in 1..nArrived(d) /\ 1 \in 1..nBatch(d)
  BY ONLY <1>2, <1>3
<1>5. /\ \A i \in 1..nArrived(d) : From[arrived[d][i]] = d
      /\ \A i, j \in 1..nArrived(d) : arrived[d][i] = arrived[d][j] => i = j
      /\ \A i \in 1..nBatch(d) : batch[d][i] = arrived[d][sentTo(d) + i]
  BY ZenonT(60) DEF StreamInv
<1>6. Head(batch[d]) = arrived[d][sentTo(d) + 1] /\ From[Head(batch[d])] = d
  <2>1. batch[d][1] = arrived[d][sentTo(d) + 1]
    BY ONLY <1>4, <1>5, ZenonT(60)
  <2>2. From[arrived[d][sentTo(d) + 1]] = d
    BY ONLY <1>4, <1>5, ZenonT(60)
  <2> QED
    BY ONLY <1>2, <2>1, <2>2
<1>7. Head(batch[d]) \notin Sent
  <2>1. ASSUME NEW i \in 1..sentTo(d), arrived[d][i] = Head(batch[d]) PROVE FALSE
    <3>1. i \in 1..nArrived(d) /\ i # sentTo(d) + 1
      BY ONLY <1>2, <1>3, i \in 1..sentTo(d)
    <3> QED
      BY ONLY <1>4, <1>5, <1>6, <2>1, <3>1, ZenonT(60)
  <2> QED
    BY <1>6, <2>1 DEF Sent
<1> QED
  BY ONLY <1>1, <1>2, <1>3, <1>4, <1>6, <1>7, ZenonT(60)

LEMMA StreamNext ==
  ASSUME TypeOK, NEW d \in Conn, \A c \in Conn : StreamInv(c), NextPacket(d),
         reader[d] \in {"decode", "send"}, wire' = wire, cur' = cur, arrived' = arrived
  PROVE  /\ \A c \in Conn : StreamInv(c)'
         /\ sentTo(d)' = sentTo(d) + 1 /\ \A c \in Conn \ {d} : sentTo(c)' = sentTo(c)
         /\ Sent' = Sent \cup {Head(batch[d])}
<1>1. /\ batch \in [Conn -> Seq(Req)]
      /\ reader \in [Conn -> {"read", "decode", "send", "closed"}]
  BY ZenonT(60) DEF TypeOK
<1>2. /\ batch'[d] = Tail(batch[d]) /\ \A c \in Conn \ {d} : batch'[c] = batch[c]
  BY ONLY <1>1, d \in Conn, NextPacket(d), ExceptAt, ZenonT(60) DEF NextPacket
<1>3. /\ reader'[d] = IF Len(batch[d]) > 1 THEN "decode" ELSE "read"
      /\ \A c \in Conn \ {d} : reader'[c] = reader[c]
  BY ONLY <1>1, d \in Conn, NextPacket(d), ExceptAt, ZenonT(60) DEF NextPacket
<1>4. \A c \in Conn \ {d} : StreamInv(c)' /\ sentTo(c)' = sentTo(c)
  BY <1>2, <1>3, StreamSame DEF Untouched
<1>5. /\ batch[d] # <<>> /\ batch[d] \in Seq(Req) /\ Head(batch[d]) \in Req
      /\ sentTo(d) \in Nat /\ sentTo(d) + 1 \in 1..nArrived(d)
      /\ Head(batch[d]) = arrived[d][sentTo(d) + 1]
      /\ From[Head(batch[d])] = d
  BY FirstPacket, ZenonT(60)
<1>6. /\ Len(batch[d]) \in Nat \ {0} /\ Len(Tail(batch[d])) = Len(batch[d]) - 1
      /\ \A i \in 1..(Len(batch[d]) - 1) : Tail(batch[d])[i] = batch[d][i + 1]
      /\ Tail(batch[d]) # <<>> <=> Len(batch[d]) > 1
  BY ONLY <1>5, Tailed, ZenonT(60)
<1>7. /\ nBatch(d) \in Nat \ {0} /\ nBatch(d)' = nBatch(d) - 1
      /\ \A i \in 1..(nBatch(d) - 1) : batch'[d][i] = batch[d][i + 1]
      /\ nWire(d)' = nWire(d) /\ nArrived(d)' = nArrived(d)
  BY ONLY <1>2, <1>6, wire' = wire, arrived' = arrived, ZenonT(60) DEF nBatch, nWire, nArrived
<1>8. /\ nArrived(d) \in Nat /\ nWire(d) \in Nat /\ sentTo(d) \in Nat
      /\ nArrived(d) = sentTo(d) + nBatch(d) + nWire(d)
  BY Lengths, SentBound
<1>9. sentTo(d)' = sentTo(d) + 1
  BY ONLY <1>7, <1>8 DEF sentTo
<1>10. /\ \A i \in 1..nArrived(d) : From[arrived[d][i]] = d
       /\ \A i, j \in 1..nArrived(d) : arrived[d][i] = arrived[d][j] => i = j
       /\ \A i \in 1..nBatch(d) : batch[d][i] = arrived[d][sentTo(d) + i]
       /\ \A i \in 1..nWire(d) : wire[d][i] = arrived[d][sentTo(d) + nBatch(d) + i]
       /\ cur[d] # NONE
  BY ZenonT(60) DEF StreamInv
<1>11. \A i \in 1..(nBatch(d) - 1) : batch'[d][i] = arrived[d][sentTo(d) + 1 + i]
  <2> TAKE i \in 1..(nBatch(d) - 1)
  <2>1. i + 1 \in 1..nBatch(d) /\ sentTo(d) + (i + 1) = sentTo(d) + 1 + i
    BY ONLY i \in 1..(nBatch(d) - 1), <1>7, <1>8
  <2> QED
    BY ONLY i \in 1..(nBatch(d) - 1), <1>7, <1>10, <2>1, ZenonT(60)
<1>12. \A i \in 1..nWire(d) : wire[d][i] = arrived[d][sentTo(d) + 1 + (nBatch(d) - 1) + i]
  <2> TAKE i \in 1..nWire(d)
  <2>1. sentTo(d) + nBatch(d) + i = sentTo(d) + 1 + (nBatch(d) - 1) + i
    BY ONLY i \in 1..nWire(d), <1>7, <1>8
  <2> QED
    BY ONLY i \in 1..nWire(d), <1>10, <2>1, ZenonT(60)
<1>13. /\ sentTo(d)' \in Nat
       /\ \A i \in 1..nArrived(d)' : From[arrived'[d][i]] = d
       /\ \A i, j \in 1..nArrived(d)' : arrived'[d][i] = arrived'[d][j] => i = j
       /\ \A i \in 1..nBatch(d)' : batch'[d][i] = arrived'[d][sentTo(d)' + i]
       /\ \A i \in 1..nWire(d)' : wire'[d][i] = arrived'[d][sentTo(d)' + nBatch(d)' + i]
  <2>1. sentTo(d) + 1 \in Nat
    BY ONLY <1>8, SMTT(60)
  <2> QED
    BY ONLY wire' = wire, arrived' = arrived, <1>7, <1>9, <1>10, <1>11, <1>12, <2>1, ZenonT(60)
<1>14. /\ reader'[d] \in {"decode", "send"} <=> batch'[d] # <<>>
       /\ reader'[d] \in {"decode", "send"} => cur'[d] # NONE
       /\ reader'[d] = "send" => Kind[batch'[d][1]] # "sync"
  BY ONLY cur' = cur, <1>2, <1>3, <1>6, <1>10
<1>15. StreamInv(d)'
  BY ONLY <1>13, <1>14, ZenonT(60) DEF StreamInv
<1>16. ASSUME NEW r \in Req
       PROVE  r \in Sent' <=> r \in Sent \cup {Head(batch[d])}
  <2>1. CASE From[r] # d
    <3>1. r # Head(batch[d])
      BY ONLY <1>5, <2>1
    <3>2. sentTo(From[r])' = sentTo(From[r])
      BY <1>4, <2>1, DispatchAssumption
    <3> QED
      BY ONLY arrived' = arrived, r \in Req, <3>1, <3>2 DEF Sent
  <2>2. CASE From[r] = d
    <3>1. \A i : i \in 1..(sentTo(d) + 1) <=> i \in 1..sentTo(d) \/ i = sentTo(d) + 1
      BY ONLY <1>8
    <3>2. r \in Sent' <=> \E i \in 1..(sentTo(d) + 1) : arrived[d][i] = r
      BY ONLY arrived' = arrived, r \in Req, <1>9, <2>2, ZenonT(60) DEF Sent
    <3>3. r \in Sent <=> \E i \in 1..sentTo(d) : arrived[d][i] = r
      BY ONLY r \in Req, <2>2, ZenonT(60) DEF Sent
    <3> QED
      BY ONLY <1>5, <3>1, <3>2, <3>3, ZenonT(60)
  <2> QED
    BY ONLY <2>1, <2>2
<1>17. Sent' \subseteq Req /\ Sent \subseteq Req
  BY DEF Sent
<1>18. Sent' = Sent \cup {Head(batch[d])}
  BY ONLY <1>5, <1>16, <1>17
<1> QED
  BY <1>4, <1>9, <1>15, <1>18

-----------------------------------------------------------------------------
(***************************************************************************)
(* The Session of a request is set when it is decoded.                     *)
(***************************************************************************)
LEMMA SessionNext ==
  ASSUME TypeOK, \A c \in Conn : StreamInv(c), SessionInv, NEW d \in Conn,
         reader[d] \in {"decode", "send"}, NEW h, h = Head(batch[d]),
         \/ session' = session /\ reader[d] = "send"
         \/ session' = [session EXCEPT ![h] = cur[d]] /\ reader[d] = "decode",
         \/ reader' = [reader EXCEPT ![d] = "send"] /\ batch' = batch /\ Handed' = Handed
            /\ reader[d] = "decode"
         \/ NextPacket(d) /\ Handed' = Handed \cup {h}
  PROVE  SessionInv'
<1>1. h \in Req /\ h = batch[d][1] /\ From[h] = d /\ h \notin Handed /\ cur[d] # NONE
  <2>1. StreamInv(d)
    OBVIOUS
  <2>2. cur[d] # NONE
    BY <2>1, ZenonT(60) DEF StreamInv
  <2>3. h \in Req /\ h = batch[d][1] /\ From[h] = d /\ h \notin Sent
    BY <2>1, FirstPacket
  <2> QED
    BY ONLY <2>2, <2>3 DEF Handed
<1>2. \A r \in Req : session[r] # NONE <=>
          r \in Handed \/ (reader[From[r]] = "send" /\ batch[From[r]][1] = r)
  BY DEF SessionInv
<1>3. session'[h] # NONE /\ \A r \in Req \ {h} : session'[r] = session[r]
  <2>1. session \in [Req -> Req \cup {NONE}]
    BY DEF TypeOK
  <2>2. CASE session' = session /\ reader[d] = "send"
    BY ONLY <1>1, <1>2, <2>2
  <2>3. CASE session' = [session EXCEPT ![h] = cur[d]]
    BY ONLY <1>1, <2>1, <2>3
  <2> QED
    BY <2>2, <2>3
<1>4. \A c \in Conn \ {d} : reader'[c] = reader[c] /\ batch'[c] = batch[c]
  <2>1. /\ batch \in [Conn -> Seq(Req)]
        /\ reader \in [Conn -> {"read", "decode", "send", "closed"}]
    BY ZenonT(60) DEF TypeOK
  <2>2. CASE NextPacket(d)
    BY ONLY <2>1, <2>2, d \in Conn, ExceptAt, ZenonT(60) DEF NextPacket
  <2>3. CASE reader' = [reader EXCEPT ![d] = "send"] /\ batch' = batch
    BY ONLY <2>1, <2>3, d \in Conn, ExceptAt, ZenonT(60)
  <2> QED
    BY <2>2, <2>3
<1>5. ASSUME NEW r \in Req \ {h}
      PROVE  r \in Handed' <=> r \in Handed
  BY <1>5
<1>6. \/ reader'[d] = "send" /\ batch'[d] = batch[d]
      \/ reader'[d] # "send" /\ h \in Handed'
  BY DEF TypeOK, NextPacket
<1>7. ASSUME NEW r \in Req
      PROVE  session'[r] # NONE <=>
                r \in Handed' \/ (reader'[From[r]] = "send" /\ batch'[From[r]][1] = r)
  <2>1. CASE r = h
    BY ONLY <1>1, <1>3, <1>6, <2>1
  <2>2. CASE r # h /\ From[r] = d
    <3>1. ~(reader[d] = "send" /\ batch[d][1] = r) /\ ~(reader'[d] = "send" /\ batch'[d][1] = r)
      BY ONLY <1>1, <1>6, <2>2, SMTT(60)
    <3> QED
      BY ONLY r \in Req, <1>2, <1>3, <1>5, <2>2, <3>1
  <2>3. CASE r # h /\ From[r] # d
    <3>1. From[r] \in Conn \ {d}
      BY <2>3, DispatchAssumption
    <3> QED
      BY ONLY r \in Req, <1>2, <1>3, <1>4, <1>5, <2>3, <3>1
  <2> QED
    BY ONLY <2>1, <2>2, <2>3
<1> QED
  BY ONLY <1>7, ZenonT(60) DEF SessionInv

LEMMA SessionSame ==
  ASSUME SessionInv, session' = session, Handed' = Handed,
         \A c \in Conn : \/ reader'[c] = reader[c] /\ batch'[c] = batch[c]
                         \/ reader[c] # "send" /\ reader'[c] # "send"
  PROVE  SessionInv'
<1>1. \A r \in Req : session[r] # NONE <=>
          r \in Handed \/ (reader[From[r]] = "send" /\ batch[From[r]][1] = r)
  BY DEF SessionInv
<1>2. ASSUME NEW r \in Req
      PROVE  session'[r] # NONE <=>
                r \in Handed' \/ (reader'[From[r]] = "send" /\ batch'[From[r]][1] = r)
  <2>1. From[r] \in Conn
    BY DispatchAssumption
  <2> QED
    BY <1>1, <2>1
<1> QED
  BY ONLY <1>2, ZenonT(60) DEF SessionInv

-----------------------------------------------------------------------------
(***************************************************************************)
(* The pool.                                                               *)
(***************************************************************************)
Distinct(q) == \A i, j \in 1..Len(q) : q[i] = q[j] => i = j

LEMMA RangeAppend ==
  ASSUME NEW q \in Seq(Req), NEW x \in Req
  PROVE  /\ Range(Append(q, x)) = Range(q) \cup {x}
         /\ Distinct(q) /\ x \notin Range(q) => Distinct(Append(q, x))
<1>1. DOMAIN q = 1..Len(q) /\ DOMAIN Append(q, x) = 1..(Len(q) + 1) /\ Len(q) \in Nat
      /\ Len(Append(q, x)) = Len(q) + 1
  OBVIOUS
<1>2. /\ \A i \in 1..Len(q) : Append(q, x)[i] = q[i]
      /\ Append(q, x)[Len(q) + 1] = x
  BY Appended
<1>3. PICK n \in Nat : n = Len(q)
  BY <1>1, ZenonT(60)
<1>4. 1..(n + 1) = (1..n) \cup {n + 1}
  BY ONLY n \in Nat
<1>5. Range(Append(q, x)) = Range(q) \cup {x}
  BY ONLY <1>1, <1>2, <1>3, <1>4 DEF Range
<1>6. ASSUME Distinct(q), x \notin Range(q) PROVE Distinct(Append(q, x))
  <2>1. \A i \in 1..n : q[i] # x
    BY ONLY <1>1, <1>3, <1>6, ZenonT(60) DEF Range
  <2>2. \A i, j \in 1..n : q[i] = q[j] => i = j
    BY ONLY <1>3, <1>6, ZenonT(60) DEF Distinct
  <2>3. \A i, j \in (1..n) \cup {n + 1} : Append(q, x)[i] = Append(q, x)[j] => i = j
    BY ONLY <1>2, <1>3, <2>1, <2>2
  <2>4. 1..Len(Append(q, x)) = (1..n) \cup {n + 1}
    BY ONLY <1>1, <1>3, <1>4
  <2> QED
    BY ONLY <2>3, <2>4, ZenonT(60) DEF Distinct
<1> QED
  BY <1>5, <1>6

LEMMA RangeTail ==
  ASSUME NEW q \in Seq(Req), q # <<>>, Distinct(q)
  PROVE  /\ Head(q) \in Range(q)
         /\ Range(Tail(q)) = Range(q) \ {Head(q)}
         /\ Distinct(Tail(q))
<1>1. /\ Len(q) \in Nat \ {0} /\ Len(Tail(q)) = Len(q) - 1 /\ Tail(q) \in Seq(Req)
      /\ Head(q) = q[1]
      /\ \A i \in 1..(Len(q) - 1) : Tail(q)[i] = q[i + 1]
  BY Tailed, ZenonT(60)
<1>2. DOMAIN q = 1..Len(q) /\ DOMAIN Tail(q) = 1..Len(Tail(q))
  BY <1>1, Elements, ZenonT(60)
<1>3. PICK n \in Nat \ {0} : n = Len(q)
  BY <1>1, ZenonT(60)
<1>4. \A i \in 1..n : i = 1 \/ i - 1 \in 1..(n - 1)
  BY ONLY n \in Nat \ {0}
<1>5. /\ 1 \in 1..n
      /\ \A i \in 1..(n - 1) : i + 1 \in 1..n /\ i + 1 # 1
      /\ \A i \in 1..n : (i - 1) + 1 = i
  BY ONLY n \in Nat \ {0}
<1>6. Distinct(Tail(q))
  <2>1. \A i, j \in 1..n : q[i] = q[j] => i = j
    BY <1>3 DEF Distinct
  <2>2. \A i, j \in 1..(n - 1) : Tail(q)[i] = Tail(q)[j] => i = j
    <3> SUFFICES ASSUME NEW i \in 1..(n - 1), NEW j \in 1..(n - 1)
                 PROVE  Tail(q)[i] = Tail(q)[j] => i = j
      BY ZenonT(60)
    <3>1. Tail(q)[i] = q[i + 1] /\ Tail(q)[j] = q[j + 1]
      BY ONLY <1>1, <1>3, i \in 1..(n - 1), j \in 1..(n - 1), ZenonT(60)
    <3>2. i + 1 \in 1..n /\ j + 1 \in 1..n
      BY ONLY <1>5, i \in 1..(n - 1), j \in 1..(n - 1), ZenonT(60)
    <3>3. i + 1 = j + 1 => i = j
      BY ONLY i \in 1..(n - 1), j \in 1..(n - 1), n \in Nat \ {0}
    <3> QED
      BY ONLY <2>1, <3>1, <3>2, <3>3, ZenonT(60)
  <2>3. 1..Len(Tail(q)) = 1..(n - 1)
    BY ONLY <1>1, <1>3, ZenonT(60)
  <2> QED
    BY ONLY <2>2, <2>3, ZenonT(60) DEF Distinct
<1>7. Range(q) = {q[i] : i \in 1..n} /\ Range(Tail(q)) = {Tail(q)[i] : i \in 1..(n - 1)}
  BY ONLY <1>1, <1>2, <1>3, ZenonT(60) DEF Range
<1>8. ASSUME NEW x \in Range(Tail(q)) PROVE x \in Range(q) /\ x # Head(q)
  <2>0. PICK i \in 1..(n - 1) : x = Tail(q)[i]
    BY ONLY <1>7, x \in Range(Tail(q)), ZenonT(60)
  <2>1. Tail(q)[i] = q[i + 1]
    BY ONLY <1>1, <1>3, i \in 1..(n - 1), ZenonT(60)
  <2>2. i + 1 \in 1..n /\ i + 1 # 1 /\ 1 \in 1..n
    BY ONLY <1>5, i \in 1..(n - 1), ZenonT(60)
  <2>3. q[i + 1] # q[1]
    BY <1>3, <2>2, ZenonT(60) DEF Distinct
  <2> QED
    BY ONLY <1>1, <1>7, <2>0, <2>1, <2>2, <2>3, ZenonT(60)
<1>9. ASSUME NEW x \in Range(q), x # Head(q) PROVE x \in Range(Tail(q))
  <2>0. PICK i \in 1..n : x = q[i]
    BY ONLY <1>7, x \in Range(q), ZenonT(60)
  <2>1. i - 1 \in 1..(n - 1) /\ (i - 1) + 1 = i
    BY ONLY <1>1, <1>4, <1>5, <1>9, <2>0, i \in 1..n, ZenonT(60)
  <2>2. Tail(q)[i - 1] = q[i]
    BY ONLY <1>1, <1>3, <2>1, ZenonT(60)
  <2> QED
    BY ONLY <1>7, <2>0, <2>1, <2>2, ZenonT(60)
<1>10. Head(q) \in Range(q)
  BY ONLY <1>1, <1>5, <1>7, ZenonT(60)
<1> QED
  BY ONLY <1>6, <1>8, <1>9, <1>10

LEMMA Started ==
  ASSUME TypeOK, NEW g \in Goroutine, NEW r \in Req, StartTask(g, r)
  PROVE  /\ g \notin Running /\ Running' = Running \cup {g}
         /\ task'[g] = r /\ phase'[g] = "process"
         /\ \A h \in Goroutine \ {g} : task'[h] = task[h] /\ phase'[h] = phase[h]
         /\ started' = started \cup {r}
<1>1. /\ phase[g] = "idle" /\ phase' = [phase EXCEPT ![g] = "process"]
      /\ task' = [task EXCEPT ![g] = r] /\ started' = started \cup {r}
  BY ZenonT(60) DEF StartTask
<1>2. /\ phase \in [Goroutine -> {"idle", "process", "respond", "end"}]
      /\ task \in [Goroutine -> Req \cup {NONE}] /\ started \subseteq Req
  BY ZenonT(60) DEF TypeOK
<1>3. started' = started \cup {r}
  BY ONLY <1>1
<1>4. /\ task'[g] = r /\ phase'[g] = "process"
      /\ \A h \in Goroutine \ {g} : task'[h] = task[h] /\ phase'[h] = phase[h]
  BY ONLY <1>1, <1>2, g \in Goroutine, ExceptAt, ZenonT(60)
<1>5. g \notin Running /\ Running' = Running \cup {g}
  BY ONLY <1>1, <1>4, g \in Goroutine DEF Running
<1> QED
  BY ONLY <1>3, <1>4, <1>5, ZenonT(60)

LEMMA PoolSame ==
  ASSUME PoolInv, Handed' = Handed, taskCh' = taskCh, started' = started, done' = done,
         task' = task, Running' = Running
  PROVE  PoolInv'
BY SMTT(30) DEF PoolInv

(***************************************************************************)
(* What PoolInv says of the sets of requests.                              *)
(***************************************************************************)
LEMMA PoolSets ==
  ASSUME PoolInv
  PROVE  /\ Distinct(taskCh)
         /\ Range(taskCh) \subseteq Handed
         /\ \A r \in Range(taskCh) : r \notin done /\ r \notin started /\ Kind[r] = "plain"
         /\ \A g \in Running : /\ task[g] \in Handed /\ task[g] \in started
                               /\ task[g] \notin done
                               /\ Kind[task[g]] = IF g = Sep THEN "ordered" ELSE "plain"
         /\ \A g, h \in Running : task[g] = task[h] => g = h
         /\ \A r \in Handed : r \in done \/ r \in Range(taskCh) \/ \E g \in Running : r = task[g]
         /\ done \subseteq Handed /\ started \subseteq Handed
<1>1. Distinct(taskCh) /\ done \subseteq Handed /\ started \subseteq Handed
  BY ZenonT(60) DEF PoolInv, Distinct
<1>2. /\ Range(taskCh) \subseteq Handed
      /\ \A r \in Range(taskCh) : r \notin done /\ r \notin started /\ Kind[r] = "plain"
  BY DEF PoolInv
<1>3. /\ \A g \in Running : /\ task[g] \in Handed /\ task[g] \in started
                            /\ task[g] \notin done
                            /\ Kind[task[g]] = IF g = Sep THEN "ordered" ELSE "plain"
      /\ \A g, h \in Running : task[g] = task[h] => g = h
  BY DEF PoolInv
<1>4. \A r \in Handed : r \in done \/ r \in Range(taskCh) \/ \E g \in Running : r = task[g]
  BY DEF PoolInv
<1> QED
  BY ONLY <1>1, <1>2, <1>3, <1>4, ZenonT(60)

LEMMA PoolSync ==
  ASSUME PoolInv, NEW h, h \notin Handed, Handed' = Handed \cup {h}, taskCh' = taskCh,
         started' = started \cup {h}, done' = done \cup {h},
         task' = task, Running' = Running
  PROVE  PoolInv'
<1>1. /\ Distinct(taskCh)'
      /\ (Range(taskCh) \subseteq Handed)'
      /\ (\A r \in Range(taskCh) : r \notin done /\ r \notin started /\ Kind[r] = "plain")'
  BY PoolSets, SMTT(30)
<1>2. /\ (\A g \in Running : /\ task[g] \in Handed /\ task[g] \in started
                             /\ task[g] \notin done
                             /\ Kind[task[g]] = IF g = Sep THEN "ordered" ELSE "plain")'
      /\ (\A g, k \in Running : task[g] = task[k] => g = k)'
  BY PoolSets
<1>3. /\ (\A r \in Handed : r \in done \/ r \in Range(taskCh) \/ \E g \in Running : r = task[g])'
      /\ (done \subseteq Handed)' /\ (started \subseteq Handed)'
  BY PoolSets
<1> QED
  BY ONLY <1>1, <1>2, <1>3, SMTT(60) DEF PoolInv, Distinct

LEMMA PoolProduce ==
  ASSUME PoolInv, TypeOK, NEW h \in Req, h \notin Handed, Kind[h] = "plain",
         Handed' = Handed \cup {h}, taskCh' = Append(taskCh, h), started' = started,
         done' = done, task' = task, Running' = Running
  PROVE  PoolInv'
<1>1. h \notin Range(taskCh) /\ h \notin done /\ h \notin started /\ Distinct(taskCh)
  BY PoolSets
<1>2. taskCh \in Seq(Req)
  BY DEF TypeOK
<1>3. Range(taskCh') = Range(taskCh) \cup {h} /\ Distinct(taskCh')
  BY ONLY <1>1, <1>2, h \in Req, taskCh' = Append(taskCh, h), RangeAppend, ZenonT(60)
<1>4. /\ (Range(taskCh) \subseteq Handed)'
      /\ (\A r \in Range(taskCh) : r \notin done /\ r \notin started /\ Kind[r] = "plain")'
  BY <1>1, <1>3, PoolSets
<1>5. /\ (\A g \in Running : /\ task[g] \in Handed /\ task[g] \in started
                             /\ task[g] \notin done
                             /\ Kind[task[g]] = IF g = Sep THEN "ordered" ELSE "plain")'
      /\ (\A g, k \in Running : task[g] = task[k] => g = k)'
  BY PoolSets
<1>6. /\ (\A r \in Handed : r \in done \/ r \in Range(taskCh) \/ \E g \in Running : r = task[g])'
      /\ (done \subseteq Handed)' /\ (started \subseteq Handed)'
  BY <1>3, PoolSets
<1> QED
  BY ONLY <1>3, <1>4, <1>5, <1>6, SMTT(60) DEF PoolInv, Distinct

(***************************************************************************)
(* A task starts: an ordered one straight from its reader, a plain one     *)
(* from taskCh.                                                            *)
(***************************************************************************)
LEMMA PoolStart ==
  ASSUME PoolInv, TypeOK, NEW w \in Goroutine, NEW h \in Req, StartTask(w, h), done' = done,
         \/ /\ w = Sep /\ Kind[h] = "ordered" /\ h \notin Handed
            /\ Handed' = Handed \cup {h} /\ taskCh' = taskCh
         \/ /\ w # Sep /\ taskCh # <<>> /\ h = Head(taskCh)
            /\ Handed' = Handed /\ taskCh' = Tail(taskCh)
  PROVE  PoolInv'
<1>1. /\ w \notin Running /\ Running' = Running \cup {w}
      /\ task'[w] = h /\ \A k \in Goroutine \ {w} : task'[k] = task[k]
      /\ started' = started \cup {h}
  BY Started, ZenonT(60)
<1>2. taskCh \in Seq(Req) /\ Distinct(taskCh)
  BY PoolSets DEF TypeOK
<1>3. taskCh # <<>> => /\ Head(taskCh) \in Range(taskCh) /\ Distinct(Tail(taskCh))
                       /\ Range(Tail(taskCh)) = Range(taskCh) \ {Head(taskCh)}
  BY ONLY <1>2, RangeTail, ZenonT(60)
<1>4. /\ Range(taskCh') = Range(taskCh) \ {h} /\ Distinct(taskCh')
      /\ h \notin done /\ h \notin started /\ h \in Handed'
      /\ Kind[h] = IF w = Sep THEN "ordered" ELSE "plain"
      /\ Handed' = Handed \cup {h}
      /\ h \in Range(taskCh) \/ h \notin Handed
  <2>1. /\ Range(taskCh) \subseteq Handed /\ done \subseteq Handed /\ started \subseteq Handed
        /\ \A r \in Range(taskCh) : r \notin done /\ r \notin started /\ Kind[r] = "plain"
    BY PoolSets, ZenonT(60)
  <2>2. CASE /\ w = Sep /\ Kind[h] = "ordered" /\ h \notin Handed
             /\ Handed' = Handed \cup {h} /\ taskCh' = taskCh
    BY ONLY <1>2, <2>1, <2>2
  <2>3. CASE /\ w # Sep /\ taskCh # <<>> /\ h = Head(taskCh)
             /\ Handed' = Handed /\ taskCh' = Tail(taskCh)
    <3>1. /\ h \in Range(taskCh) /\ Distinct(taskCh')
          /\ Range(taskCh') = Range(taskCh) \ {h}
      BY ONLY <1>3, <2>3, ZenonT(60)
    <3> QED
      BY ONLY <2>1, <2>3, <3>1
  <2> QED
    BY <2>2, <2>3
<1>5. \A k \in Running : k \in Goroutine \ {w} /\ task'[k] = task[k] /\ task[k] # h
  <2>1. \A k \in Running : k \in Goroutine \ {w} /\ task[k] \in started
    BY <1>1, PoolSets DEF Running
  <2> QED
    BY ONLY <1>1, <1>4, <2>1, SMTT(60)
<1>6. /\ (Range(taskCh) \subseteq Handed)'
      /\ (\A r \in Range(taskCh) : r \notin done /\ r \notin started /\ Kind[r] = "plain")'
  BY <1>1, <1>4, PoolSets
<1>7. /\ (\A g \in Running : /\ task[g] \in Handed /\ task[g] \in started
                             /\ task[g] \notin done
                             /\ Kind[task[g]] = IF g = Sep THEN "ordered" ELSE "plain")'
      /\ (\A g, k \in Running : task[g] = task[k] => g = k)'
  BY <1>1, <1>4, <1>5, PoolSets, SMTT(30)
<1>8. /\ (\A r \in Handed : r \in done \/ r \in Range(taskCh) \/ \E g \in Running : r = task[g])'
      /\ (done \subseteq Handed)' /\ (started \subseteq Handed)'
  BY <1>1, <1>4, <1>5, PoolSets, SMTT(30)
<1> QED
  BY ONLY <1>4, <1>6, <1>7, <1>8 DEF PoolInv, Distinct

LEMMA PoolEnd ==
  ASSUME PoolInv, TypeOK, NEW g \in Goroutine, EndTask(g), Handed' = Handed
  PROVE  PoolInv'
<1>1. /\ phase[g] = "end" /\ phase' = [phase EXCEPT ![g] = "idle"]
      /\ task' = [task EXCEPT ![g] = NONE] /\ done' = done \cup {task[g]}
      /\ taskCh' = taskCh /\ started' = started
  BY ZenonT(60) DEF EndTask
<1>2. g \in Running /\ Running' = Running \ {g} /\ \A k \in Running \ {g} : task'[k] = task[k]
  BY <1>1 DEF TypeOK, Running
<1>3. Distinct(taskCh)' /\ (Range(taskCh) \subseteq Handed)'
  BY <1>1, PoolSets
<1>4. (\A r \in Range(taskCh) : r \notin done /\ r \notin started /\ Kind[r] = "plain")'
  BY <1>1, <1>2, PoolSets
<1>5. /\ (\A k \in Running : /\ task[k] \in Handed /\ task[k] \in started
                             /\ task[k] \notin done
                             /\ Kind[task[k]] = IF k = Sep THEN "ordered" ELSE "plain")'
      /\ (\A k, l \in Running : task[k] = task[l] => k = l)'
  BY <1>1, <1>2, PoolSets, SMTT(30)
<1>6. /\ (\A r \in Handed : r \in done \/ r \in Range(taskCh) \/ \E k \in Running : r = task[k])'
      /\ (done \subseteq Handed)' /\ (started \subseteq Handed)'
  BY <1>1, <1>2, PoolSets, SMTT(30)
<1> QED
  BY ONLY <1>3, <1>4, <1>5, <1>6 DEF PoolInv, Distinct

LEMMA LastKept ==
  ASSUME TypeOK, \A c \in Conn : StreamInv(c), PoolInv, LastOrdered, arrived' = arrived,
         Sep \in Running' => Sep \in Running /\ task'[Sep] = task[Sep],
         \A c \in Conn : \/ sentTo(c)' = sentTo(c)
                         \/ /\ sentTo(c)' = sentTo(c) + 1
                            /\ \/ Kind[arrived[c][sentTo(c) + 1]] # "ordered"
                               \/ arrived[c][sentTo(c) + 1] \in refused',
         refused \subseteq refused'
  PROVE  LastOrdered'
<1> SUFFICES ASSUME Sep \in Running',
                    NEW c, c = From[task'[Sep]],
                    NEW i \in 1..nArrived(c)', NEW j \in 1..nArrived(c)', i < j,
                    arrived'[c][i] = task'[Sep], Kind[arrived'[c][j]] = "ordered"
             PROVE  j > sentTo(c)' \/ arrived'[c][j] \in refused'
  BY DEF LastOrdered
<1>1. Sep \in Running /\ task'[Sep] = task[Sep] /\ c = From[task[Sep]]
  OBVIOUS
<1>2. task[Sep] \in Req
  BY <1>1, PoolSets DEF Handed, Sent
<1>3. c \in Conn
  BY ONLY <1>1, <1>2, DispatchAssumption, SMTT(60)
<1>4. nArrived(c)' = nArrived(c) /\ nArrived(c) \in Nat
  BY <1>3, Lengths DEF nArrived
<1>5. j > sentTo(c) \/ arrived[c][j] \in refused
  BY ONLY <1>1, <1>4, i \in 1..nArrived(c)', j \in 1..nArrived(c)', i < j, arrived' = arrived,
     arrived'[c][i] = task'[Sep], Kind[arrived'[c][j]] = "ordered", LastOrdered
     DEF LastOrdered
<1>6. sentTo(c) \in Nat
  BY <1>3, SentBound
<1>7. \/ sentTo(c)' = sentTo(c)
      \/ /\ sentTo(c)' = sentTo(c) + 1
         /\ \/ Kind[arrived[c][sentTo(c) + 1]] # "ordered"
            \/ arrived[c][sentTo(c) + 1] \in refused'
  BY <1>3
<1>8. j \in Nat /\ (Kind[arrived[c][sentTo(c) + 1]] # "ordered" => j # sentTo(c) + 1)
  BY ONLY <1>4, j \in 1..nArrived(c)', Kind[arrived'[c][j]] = "ordered", arrived' = arrived
<1>9. j > sentTo(c)' \/ j = sentTo(c)' \/ arrived[c][j] \in refused
  BY ONLY <1>5, <1>6, <1>7, <1>8, SMTT(60)
<1> QED
  BY ONLY <1>5, <1>6, <1>7, <1>8, <1>9, arrived' = arrived, refused \subseteq refused', SMTT(60)

LEMMA LastArrive ==
  ASSUME TypeOK, \A c \in Conn : StreamInv(c), PoolInv, LastOrdered,
         task' = task, Running' = Running, refused' = refused,
         \A c \in Conn : sentTo(c)' = sentTo(c),
         \A c \in Conn : \A i \in 1..nArrived(c) : arrived'[c][i] = arrived[c][i],
         \A c \in Conn : nArrived(c)' \in {nArrived(c), nArrived(c) + 1}
  PROVE  LastOrdered'
<1> SUFFICES ASSUME Sep \in Running,
                    NEW c, c = From[task[Sep]],
                    NEW i \in 1..nArrived(c)', NEW j \in 1..nArrived(c)', i < j,
                    arrived'[c][i] = task[Sep], Kind[arrived'[c][j]] = "ordered"
             PROVE  j > sentTo(c)' \/ arrived'[c][j] \in refused'
  BY DEF LastOrdered
<1>1. task[Sep] \in Req
  BY PoolSets DEF Handed, Sent
<1>2. c \in Conn
  BY ONLY <1>1, c = From[task[Sep]], DispatchAssumption
<1>3. /\ nArrived(c) \in Nat /\ sentTo(c) \in Nat /\ sentTo(c) <= nArrived(c)
      /\ nArrived(c)' \in {nArrived(c), nArrived(c) + 1} /\ sentTo(c)' = sentTo(c)
      /\ \A k \in 1..nArrived(c) : arrived'[c][k] = arrived[c][k]
  <2>1. nArrived(c) \in Nat /\ sentTo(c) \in Nat /\ sentTo(c) <= nArrived(c)
    BY ONLY TypeOK, \A k \in Conn : StreamInv(k), <1>2, Lengths, SentBound, ZenonT(60)
  <2> QED
    BY <1>2, <2>1, ZenonT(60)
<1>4. CASE j = nArrived(c) + 1
  BY ONLY <1>3, <1>4
<1>5. CASE j \in 1..nArrived(c)
  <2>1. i \in 1..nArrived(c)
    BY ONLY <1>3, <1>5, i \in 1..nArrived(c)', i < j, SMTT(60)
  <2>2. arrived[c][i] = task[Sep] /\ Kind[arrived[c][j]] = "ordered"
    BY ONLY <1>3, <1>5, <2>1, arrived'[c][i] = task[Sep], Kind[arrived'[c][j]] = "ordered", SMTT(60)
  <2>3. j > sentTo(c) \/ arrived[c][j] \in refused
    BY ONLY <1>5, <2>1, <2>2, i < j, c = From[task[Sep]], Sep \in Running, LastOrdered, SMTT(60)
       DEF LastOrdered
  <2> QED
    BY ONLY <1>3, <1>5, <2>3, refused' = refused
<1> QED
  BY ONLY <1>3, <1>4, <1>5, j \in 1..nArrived(c)', SMTT(60)

LEMMA LastStart ==
  ASSUME TypeOK, NEW d \in Conn, StreamInv(d), reader[d] \in {"decode", "send"},
         arrived' = arrived, sentTo(d)' = sentTo(d) + 1, task'[Sep] = Head(batch[d])
  PROVE  LastOrdered'
<1>1. /\ sentTo(d) \in Nat /\ sentTo(d) + 1 \in 1..nArrived(d)
      /\ Head(batch[d]) = arrived[d][sentTo(d) + 1] /\ From[Head(batch[d])] = d
  BY FirstPacket
<1>2. \A i, j \in 1..nArrived(d) : arrived[d][i] = arrived[d][j] => i = j
  BY ZenonT(60) DEF StreamInv
<1>3. nArrived(d)' = nArrived(d) /\ nArrived(d) \in Nat
  BY Lengths DEF nArrived
<1>4. ASSUME NEW i \in 1..nArrived(d), NEW j \in 1..nArrived(d), i < j,
             arrived[d][i] = Head(batch[d])
      PROVE  j > sentTo(d)'
  <2>1. i = sentTo(d) + 1
    BY ONLY <1>1, <1>2, <1>4, SMTT(60)
  <2> QED
    BY ONLY <1>1, <1>3, <1>4, <2>1, sentTo(d)' = sentTo(d) + 1, SMTT(60)
<1> QED
  BY ONLY <1>1, <1>3, <1>4, arrived' = arrived, task'[Sep] = Head(batch[d]), SMTT(60) DEF LastOrdered

LEMMA RspKept ==
  ASSUME RspInv, rsp' = rsp, started \subseteq started',
         \A g \in Goroutine : phase'[g] \in {"process", "respond"} =>
            phase[g] \in {"process", "respond"} /\ task'[g] = task[g]
  PROVE  RspInv'
BY DEF RspInv

LEMMA RspStart ==
  ASSUME TypeOK, RspInv, rsp' = rsp, NEW g \in Goroutine, NEW r \in Req, StartTask(g, r),
         r \notin started
  PROVE  RspInv'
<1>1. /\ task'[g] = r
      /\ \A h \in Goroutine \ {g} : task'[h] = task[h] /\ phase'[h] = phase[h]
      /\ started' = started \cup {r}
  BY Started, ZenonT(60)
<1>2. rsp[r] = {}
  BY DEF RspInv
<1> QED
  BY ONLY RspInv, rsp' = rsp, <1>1, <1>2 DEF RspInv

LEMMA RspSend ==
  ASSUME TypeOK, PoolInv, RspInv, NEW g \in Goroutine, phase[g] # "idle", NEW es,
         MessageSend(task[g], es), phase' = [phase EXCEPT ![g] = "end"],
         task' = task, started' = started
  PROVE  RspInv'
<1>1. g \in Running /\ task[g] \in Req /\ task[g] \in started
  <2>1. g \in Running
    BY ONLY g \in Goroutine, phase[g] # "idle", SMTT(60) DEF Running
  <2>2. \A h \in Running : task[h] \in Handed /\ task[h] \in started
    BY ONLY PoolInv, PoolSets, ZenonT(60)
  <2> QED
    BY ONLY <2>1, <2>2, SMTT(60) DEF Handed, Sent
<1>2. \A r \in Req \ {task[g]} : rsp'[r] = rsp[r]
  BY ONLY TypeOK, MessageSend(task[g], es), <1>1 DEF TypeOK, MessageSend
<1>3. phase'[g] = "end" /\ \A h \in Goroutine \ {g} : phase'[h] = phase[h]
  BY DEF TypeOK
<1>4. \A h \in Goroutine \ {g} : phase[h] \in {"process", "respond"} =>
         task[h] \in Req \ {task[g]} /\ rsp[task[h]] = {}
  <2>1. \A h \in Running : task[h] \in Req /\ (task[h] = task[g] => h = g)
    BY <1>1, PoolSets DEF Handed, Sent
  <2> QED
    BY <2>1 DEF RspInv, Running
<1>5. \A r \in Req : rsp'[r] # {} => r \in started
  BY <1>1, <1>2 DEF RspInv
<1> QED
  BY ONLY <1>2, <1>3, <1>4, <1>5, task' = task, started' = started, SMTT(60) DEF RspInv

(***************************************************************************)
(* The error of a handler that failed stays, whoever shares its Session.   *)
(***************************************************************************)
LEMMA FailedKept ==
  ASSUME FailedInv, failed' = failed, err' = err, rsp' = rsp, started \subseteq started',
         \A r \in started : session'[r] = session[r]
  PROVE  FailedInv'
BY DEF FailedInv

LEMMA TaskSession ==
  ASSUME TypeOK, PoolInv, SessionInv, NEW g \in Goroutine, phase[g] # "idle"
  PROVE  /\ task[g] \in Req /\ task[g] \in started
         /\ session[task[g]] # NONE /\ session[task[g]] \in Req
<1>1. g \in Running
  BY DEF Running
<1>2. task[g] \in Handed /\ task[g] \in started
  BY <1>1, PoolSets
<1>3. task[g] \in Req
  BY <1>2 DEF Handed, Sent
<1>4. session[task[g]] # NONE
  BY <1>2, <1>3 DEF SessionInv
<1> QED
  BY <1>2, <1>3, <1>4 DEF TypeOK

LEMMA FailedHandle ==
  ASSUME TypeOK, PoolInv, SessionInv, RspInv, FailedInv, NEW g \in Goroutine, RpcHandle(g)
  PROVE  FailedInv'
<1>1. /\ phase[g] = "process" /\ session' = session /\ rsp' = rsp /\ started' = started
      /\ \/ err' = err /\ failed' = failed
         \/ /\ err' = [err EXCEPT ![session[task[g]]] = task[g]]
            /\ failed' = failed \cup {task[g]}
  BY DEF RpcHandle
<1>2. /\ task[g] \in Req /\ task[g] \in started
      /\ session[task[g]] # NONE /\ session[task[g]] \in Req
  BY <1>1, TaskSession
<1>3. rsp[task[g]] = {} /\ task[g] # NONE
  BY <1>1, <1>2, DispatchAssumption DEF RspInv
<1>4. err \in [Req -> Req \cup {NONE}]
  BY DEF TypeOK
<1>5. CASE err' = err /\ failed' = failed
  BY ONLY FailedInv, <1>1, <1>5 DEF FailedInv
<1>6. CASE /\ err' = [err EXCEPT ![session[task[g]]] = task[g]]
           /\ failed' = failed \cup {task[g]}
  <2>1. /\ err'[session[task[g]]] = task[g]
        /\ \A s \in Req \ {session[task[g]]} : err'[s] = err[s]
    BY ONLY <1>2, <1>4, <1>6, ExceptAt
  <2>2. ASSUME NEW r \in failed
        PROVE  /\ r \in started /\ session[r] # NONE /\ err'[session[r]] # NONE
               /\ NONE \notin rsp[r]
    <3>1. /\ r \in started /\ session[r] # NONE /\ err[session[r]] # NONE
          /\ NONE \notin rsp[r]
      BY DEF FailedInv
    <3>2. session[r] \in Req
      <4>1. r \in Req
        BY DEF TypeOK
      <4> QED
        BY <3>1, <4>1 DEF TypeOK
    <3> QED
      BY ONLY <1>3, <2>1, <3>1, <3>2
  <2> QED
    BY ONLY <1>1, <1>2, <1>3, <1>6, <2>1, <2>2 DEF FailedInv
<1> QED
  BY <1>1, <1>5, <1>6

LEMMA FailedSend ==
  ASSUME TypeOK, FailedInv, failed' = failed, err' = err, session' = session, started' = started,
         NEW r \in Req, NEW e, MessageSend(r, {e}), r \in failed => e # NONE
  PROVE  FailedInv'
<1>1. rsp'[r] \in {rsp[r], rsp[r] \cup {e}} /\ \A q \in Req \ {r} : rsp'[q] = rsp[q]
  BY DEF TypeOK, MessageSend
<1>2. failed \subseteq Req
  BY DEF TypeOK
<1>3. ASSUME NEW q \in failed PROVE NONE \notin rsp'[q]
  <2>1. NONE \notin rsp[q]
    BY DEF FailedInv
  <2> QED
    BY ONLY <1>1, <1>2, <2>1, q \in failed, r \in failed => e # NONE
<1> QED
  BY <1>3 DEF FailedInv

LEMMA ReaderElsewhere ==
  ASSUME TypeOK, NEW d \in Conn,
         HandleRead(d) \/ Close(d) \/ Decode(d) \/ NextPacket(d)
  PROVE  /\ \A c \in Conn \ {d} : reader'[c] = reader[c] /\ batch'[c] = batch[c]
         /\ ~Decode(d) => reader'[d] # "send"
<1>1. /\ batch \in [Conn -> Seq(Req)]
      /\ reader \in [Conn -> {"read", "decode", "send", "closed"}]
  BY ZenonT(60) DEF TypeOK
<1>2. CASE HandleRead(d)
  <2>0. /\ reader' = [reader EXCEPT ![d] = "decode"]
        /\ \E b : batch' = [batch EXCEPT ![d] = b]
    BY ONLY <1>2, ZenonT(60) DEF HandleRead
  <2>1. \A c \in Conn \ {d} : reader'[c] = reader[c] /\ batch'[c] = batch[c]
    BY ONLY <1>1, <2>0, d \in Conn, ExceptAt, ZenonT(60)
  <2>2. reader'[d] # "send"
    BY ONLY <1>1, <2>0, d \in Conn
  <2> QED
    BY ONLY <2>1, <2>2
<1>3. CASE Close(d)
  BY ONLY <1>1, <1>3, d \in Conn DEF Close
<1>4. CASE Decode(d)
  BY ONLY <1>1, <1>4, d \in Conn DEF Decode
<1>5. CASE NextPacket(d)
  BY ONLY <1>1, <1>5, d \in Conn DEF NextPacket
<1> QED
  BY <1>2, <1>3, <1>4, <1>5

=============================================================================
