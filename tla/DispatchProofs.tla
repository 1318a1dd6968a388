--------------------------- MODULE DispatchProofs ---------------------------
(***************************************************************************)
(* The actions of Dispatch keep its invariant, and what Dispatch promises  *)
(* follows from it: what size counts, the order of the tasks, what an      *)
(* answer says of an error.                                                *)
(***************************************************************************)
EXTENDS DispatchLemmas

USE ZenonT(5), SMTT(60), SMTT(90)

LEMMA InvInit == Init => DispatchInv
<1> SUFFICES ASSUME Init PROVE DispatchInv
  OBVIOUS
<1>1. \A c \in Conn : nArrived(c) = 0 /\ nBatch(c) = 0 /\ nWire(c) = 0 /\ sentTo(c) = 0
  <2>1. Len(<<>>) = 0 /\ 0 - 0 - 0 = 0
    OBVIOUS
  <2>2. \A c \in Conn : arrived[c] = <<>> /\ batch[c] = <<>> /\ wire[c] = <<>>
    BY DEF Init
  <2> QED
    BY ONLY <2>1, <2>2, ZenonT(60) DEF nArrived, nBatch, nWire, sentTo
<1>2. \A c \in Conn : StreamInv(c)
  BY <1>1 DEF Init, StreamInv
<1>3. Sent = {} /\ Handed = {} /\ refused = {} /\ failed = {}
  BY <1>1, DispatchAssumption, SMTT(30) DEF Init, Sent, Handed
<1>4. SessionInv
  BY <1>3, DispatchAssumption DEF Init, SessionInv
<1>5. Running = {} /\ Range(taskCh) = {} /\ started = {} /\ done = {}
  BY DEF Init, Running, Range
<1>6. PoolInv
  BY <1>3, <1>5, SMTT(30) DEF PoolInv, Init
<1>7. LastOrdered /\ RspInv /\ FailedInv
  BY <1>3, <1>5 DEF LastOrdered, RspInv, FailedInv, Init
<1> QED
  BY <1>2, <1>3, <1>4, <1>6, <1>7 DEF DispatchInv

(***************************************************************************)
(* A reader hands over its next packet.                                    *)
(***************************************************************************)
LEMMA HandOver ==
  ASSUME TypeOK, DispatchInv, NEW c \in Conn,
         DecodeSync(c) \/ ProduceTask(c) \/ ProduceTaskSeparate(c)
  PROVE  /\ reader[c] \in {"decode", "send"} /\ NextPacket(c) /\ arrived' = arrived
         /\ \A d \in Conn : StreamInv(d)' /\ (d # c => sentTo(d)' = sentTo(d))
         /\ sentTo(c)' = sentTo(c) + 1 /\ Sent' = Sent \cup {Head(batch[c])}
         /\ Head(batch[c]) \in Req /\ Head(batch[c]) \notin Sent
         /\ Head(batch[c]) = arrived[c][sentTo(c) + 1]
         /\ SessionInv'
         /\ refused' = refused /\ (refused \subseteq Sent)'
         /\ Handed' = Handed \cup {Head(batch[c])} /\ Head(batch[c]) \notin Handed
         /\ FailedInv'
<1>1. /\ reader[c] \in {"decode", "send"} /\ NextPacket(c)
      /\ wire' = wire /\ cur' = cur /\ arrived' = arrived /\ refused' = refused
  BY DEF DecodeSync, ProduceTask, ProduceTaskSeparate, hvars
<1>2. (\A d \in Conn : StreamInv(d)) /\ SessionInv /\ PoolInv /\ FailedInv
      /\ refused \subseteq Sent
  BY DEF DispatchInv
<1>3. /\ \A d \in Conn : StreamInv(d)'
      /\ sentTo(c)' = sentTo(c) + 1 /\ \A d \in Conn \ {c} : sentTo(d)' = sentTo(d)
      /\ Sent' = Sent \cup {Head(batch[c])}
  BY <1>1, <1>2, StreamNext
<1>4. /\ Head(batch[c]) \in Req /\ Head(batch[c]) \notin Sent
      /\ Head(batch[c]) = arrived[c][sentTo(c) + 1]
  BY <1>1, <1>2, FirstPacket
<1>5. \/ session' = session /\ reader[c] = "send"
      \/ session' = [session EXCEPT ![Head(batch[c])] = cur[c]] /\ reader[c] = "decode"
  BY DEF DecodeSync, ProduceTask, ProduceTaskSeparate
<1>6. /\ Handed' = Handed \cup {Head(batch[c])} /\ Head(batch[c]) \notin Handed
      /\ (refused \subseteq Sent)'
  BY ONLY <1>1, <1>2, <1>3, <1>4 DEF Handed
<1>7. SessionInv'
  BY <1>1, <1>2, <1>5, <1>6, SessionNext
<1>8. FailedInv'
  <2>1. failed' = failed /\ err' = err /\ rsp' = rsp /\ started \subseteq started'
    BY DEF DecodeSync, ProduceTask, ProduceTaskSeparate, StartTask, hvars
  <2>2. Head(batch[c]) \notin started
    BY <1>2, <1>6, PoolSets
  <2>3. \A r \in started : session'[r] = session[r]
    BY <1>5, <2>2 DEF TypeOK
  <2> QED
    BY <1>2, <2>1, <2>3, FailedKept
<1> QED
  BY <1>1, <1>3, <1>4, <1>6, <1>7, <1>8

LEMMA InvStep ==
  ASSUME TypeOK, DispatchInv, [DispatchNext]_vars
  PROVE  DispatchInv'
<1>0. /\ \A c \in Conn : StreamInv(c)
      /\ SessionInv /\ PoolInv /\ LastOrdered /\ RspInv /\ FailedInv
      /\ refused \subseteq Sent
  BY DEF DispatchInv
<1>1. ASSUME NEW r \in Req, Arrive(r) PROVE DispatchInv'
  <2>1. /\ \A c \in Conn : StreamInv(c)' /\ sentTo(c)' = sentTo(c)
        /\ \A c \in Conn : \A i \in 1..nArrived(c) : arrived'[c][i] = arrived[c][i]
        /\ \A c \in Conn : nArrived(c)' \in {nArrived(c), nArrived(c) + 1}
    BY <1>0, <1>1, StreamArrive
  <2>2. \A c \in Conn : \A i \in 1..sentTo(c) : arrived'[c][i] = arrived[c][i]
    <3> TAKE c \in Conn
    <3>1. sentTo(c) \in Nat /\ nArrived(c) \in Nat /\ sentTo(c) <= nArrived(c)
      BY <1>0, Lengths, SentBound
    <3> QED
      BY ONLY c \in Conn, <2>1, <3>1
  <2>3. Sent' = Sent
    BY <2>1, <2>2, SentSame
  <2>4. /\ reader' = reader /\ batch' = batch /\ session' = session /\ taskCh' = taskCh
        /\ phase' = phase /\ task' = task /\ rsp' = rsp /\ started' = started /\ done' = done
        /\ refused' = refused /\ failed' = failed /\ err' = err
    BY <1>1 DEF Arrive, pvars, hvars
  <2>5. Running' = Running
    BY <2>4 DEF Running
  <2>10. Handed' = Handed /\ (refused \subseteq Sent)'
    BY ONLY <1>0, <2>3, <2>4 DEF Handed
  <2>6. SessionInv'
    BY <1>0, <2>4, <2>10, SessionSame
  <2>7. PoolInv'
    BY <1>0, <2>4, <2>5, <2>10, PoolSame
  <2>8. LastOrdered'
    BY <1>0, <2>1, <2>4, <2>5, LastArrive
  <2>9. RspInv' /\ FailedInv'
    BY <1>0, <2>4, RspKept, FailedKept
  <2> QED
    BY <2>1, <2>6, <2>7, <2>8, <2>9, <2>10 DEF DispatchInv
<1>2. ASSUME NEW c \in Conn, HandleRead(c) \/ Close(c) \/ Decode(c) PROVE DispatchInv'
  <2>1. \A d \in Conn : StreamInv(d)' /\ sentTo(d)' = sentTo(d)
    BY <1>0, <1>2, StreamRead, StreamReader
  <2>2. /\ arrived' = arrived /\ taskCh' = taskCh
        /\ phase' = phase /\ task' = task /\ rsp' = rsp /\ started' = started /\ done' = done
        /\ refused' = refused /\ failed' = failed /\ err' = err
    BY <1>2 DEF HandleRead, Close, Decode, pvars, hvars
  <2>9. Sent' = Sent
    BY <2>1, <2>2, SentSame
  <2>3. Handed' = Handed /\ (refused \subseteq Sent)'
    BY ONLY <1>0, <2>2, <2>9 DEF Handed
  <2>4. Running' = Running
    BY <2>2 DEF Running
  <2>5. SessionInv'
    <3>1. CASE HandleRead(c) \/ Close(c)
      <4>1. session' = session /\ reader[c] # "send" /\ reader'[c] # "send"
        BY <3>1 DEF HandleRead, Close, TypeOK
      <4>2. \A d \in Conn \ {c} : reader'[d] = reader[d] /\ batch'[d] = batch[d]
        BY ONLY TypeOK, c \in Conn, <3>1, ReaderElsewhere, ZenonT(60)
      <4> QED
        BY <1>0, <2>3, <4>1, <4>2, SessionSame
    <3>2. CASE Decode(c)
      <4>1. /\ reader[c] = "decode" /\ reader' = [reader EXCEPT ![c] = "send"]
            /\ batch' = batch
            /\ session' = [session EXCEPT ![Head(batch[c])] = cur[c]]
        BY <3>2 DEF Decode
      <4>2. reader[c] \in {"decode", "send"}
        BY <4>1
      <4> QED
        BY ONLY TypeOK, c \in Conn, <1>0, <2>3, <4>1, <4>2, SessionNext, ZenonT(60)
    <3> QED
      BY <1>2, <3>1, <3>2
  <2>6. PoolInv'
    BY <1>0, <2>2, <2>3, <2>4, PoolSame
  <2>7. LastOrdered'
    BY <1>0, <2>1, <2>2, <2>4, LastKept
  <2>8. RspInv'
    BY <1>0, <2>2, RspKept
  <2>10. FailedInv'
    <3>1. \A r \in started : session'[r] = session[r]
      <4>1. CASE HandleRead(c) \/ Close(c)
        BY <4>1 DEF HandleRead, Close
      <4>2. CASE Decode(c)
        <5>1. /\ reader[c] = "decode"
              /\ session' = [session EXCEPT ![Head(batch[c])] = cur[c]]
          BY <4>2 DEF Decode
        <5>2. Head(batch[c]) \notin Sent
          BY <1>0, <5>1, FirstPacket
        <5>3. Head(batch[c]) \notin started
          BY <1>0, <5>2, PoolSets DEF Handed
        <5> QED
          BY <5>1, <5>3 DEF TypeOK
      <4> QED
        BY <1>2, <4>1, <4>2
    <3> QED
      BY <1>0, <2>2, <3>1, FailedKept
  <2> QED
    BY <2>1, <2>3, <2>5, <2>6, <2>7, <2>8, <2>10 DEF DispatchInv
<1>10. ASSUME NEW c \in Conn, Refuse(c) PROVE DispatchInv'
  <2>1. /\ reader[c] = "decode" /\ NextPacket(c) /\ wire' = wire /\ cur' = cur
        /\ arrived' = arrived /\ taskCh' = taskCh /\ session' = session /\ err' = err
        /\ phase' = phase /\ task' = task /\ rsp' = rsp /\ started' = started /\ done' = done
        /\ refused' = refused \cup {Head(batch[c])} /\ failed' = failed
    BY <1>10 DEF Refuse, pvars
  <2>2. /\ \A d \in Conn : StreamInv(d)'
        /\ sentTo(c)' = sentTo(c) + 1 /\ \A d \in Conn \ {c} : sentTo(d)' = sentTo(d)
        /\ Sent' = Sent \cup {Head(batch[c])}
    BY <1>0, <2>1, StreamNext
  <2>3. Head(batch[c]) \notin Sent /\ Head(batch[c]) = arrived[c][sentTo(c) + 1]
    BY <1>0, <2>1, FirstPacket
  <2>4. Handed' = Handed /\ (refused \subseteq Sent)'
    BY ONLY <1>0, <2>1, <2>2, <2>3 DEF Handed
  <2>5. Running' = Running
    BY <2>1 DEF Running
  <2>6. SessionInv'
    <3>1. ~Decode(c) /\ reader[c] # "send"
      BY <1>10, <2>1 DEF Decode, Refuse, TypeOK, hvars
    <3>2. /\ \A d \in Conn \ {c} : reader'[d] = reader[d] /\ batch'[d] = batch[d]
          /\ reader'[c] # "send"
      BY <2>1, <3>1, ReaderElsewhere
    <3> QED
      BY <1>0, <2>1, <2>4, <3>1, <3>2, SessionSame
  <2>7. PoolInv'
    BY <1>0, <2>1, <2>4, <2>5, PoolSame
  <2>8. LastOrdered'
    <3>1. arrived[c][sentTo(c) + 1] \in refused' /\ refused \subseteq refused'
      BY ONLY <2>1, <2>3
    <3>2. \A d \in Conn : \/ sentTo(d)' = sentTo(d)
                          \/ /\ sentTo(d)' = sentTo(d) + 1
                             /\ \/ Kind[arrived[d][sentTo(d) + 1]] # "ordered"
                                \/ arrived[d][sentTo(d) + 1] \in refused'
      BY ONLY <2>2, <3>1
    <3> QED
      BY <1>0, <2>1, <2>5, <3>1, <3>2, LastKept
  <2>9. RspInv' /\ FailedInv'
    BY <1>0, <2>1, RspKept, FailedKept
  <2> QED
    BY <2>2, <2>4, <2>6, <2>7, <2>8, <2>9 DEF DispatchInv
<1>3. ASSUME NEW c \in Conn, DecodeSync(c) \/ ProduceTask(c) PROVE DispatchInv'
  <2>1. /\ arrived' = arrived
        /\ \A d \in Conn : StreamInv(d)' /\ (d # c => sentTo(d)' = sentTo(d))
        /\ sentTo(c)' = sentTo(c) + 1 /\ Sent' = Sent \cup {Head(batch[c])}
        /\ Head(batch[c]) \in Req /\ Head(batch[c]) \notin Sent
        /\ Head(batch[c]) = arrived[c][sentTo(c) + 1]
        /\ SessionInv' /\ FailedInv' /\ refused' = refused /\ (refused \subseteq Sent)'
        /\ Handed' = Handed \cup {Head(batch[c])} /\ Head(batch[c]) \notin Handed
    BY <1>3, HandOver
  <2>2. /\ phase' = phase /\ task' = task /\ rsp' = rsp
        /\ Kind[Head(batch[c])] \in {"sync", "plain"}
    BY <1>3 DEF DecodeSync, ProduceTask, pvars
  <2>3. Running' = Running
    BY <2>2 DEF Running
  <2>5. PoolInv' /\ started \subseteq started'
    <3>1. CASE DecodeSync(c)
      <4>1. /\ taskCh' = taskCh /\ done' = done \cup {Head(batch[c])}
            /\ started' = started \cup {Head(batch[c])}
        BY <3>1 DEF DecodeSync
      <4>2. PoolInv'
        BY <1>0, <2>1, <2>2, <2>3, <4>1, PoolSync
      <4> QED
        BY ONLY <4>1, <4>2
    <3>2. CASE ProduceTask(c)
      <4>1. /\ taskCh' = Append(taskCh, Head(batch[c])) /\ done' = done /\ started' = started
            /\ Kind[Head(batch[c])] = "plain"
        BY <3>2 DEF ProduceTask
      <4>2. PoolInv'
        BY <1>0, <2>1, <2>2, <2>3, <4>1, PoolProduce
      <4> QED
        BY ONLY <4>1, <4>2
    <3> QED
      BY <1>3, <3>1, <3>2
  <2>6. LastOrdered'
    <3>1. Kind[arrived[c][sentTo(c) + 1]] # "ordered"
      BY ONLY <2>1, <2>2
    <3>2. \A d \in Conn : \/ sentTo(d)' = sentTo(d)
                          \/ /\ sentTo(d)' = sentTo(d) + 1
                             /\ Kind[arrived[d][sentTo(d) + 1]] # "ordered"
      BY ONLY <2>1, <3>1
    <3>3. refused \subseteq refused'
      BY ONLY <2>1
    <3> QED
      BY <1>0, <2>1, <2>2, <2>3, <3>2, <3>3, LastKept
  <2>7. RspInv'
    BY <1>0, <2>2, <2>5, RspKept
  <2> QED
    BY <2>1, <2>5, <2>6, <2>7 DEF DispatchInv
<1>4. ASSUME NEW c \in Conn, ProduceTaskSeparate(c) PROVE DispatchInv'
  <2>1. /\ reader[c] \in {"decode", "send"} /\ arrived' = arrived
        /\ \A d \in Conn : StreamInv(d)'
        /\ sentTo(c)' = sentTo(c) + 1 /\ Sent' = Sent \cup {Head(batch[c])}
        /\ Head(batch[c]) \in Req
        /\ SessionInv' /\ FailedInv' /\ (refused \subseteq Sent)'
        /\ Handed' = Handed \cup {Head(batch[c])} /\ Head(batch[c]) \notin Handed
    BY <1>4, HandOver
  <2>2. /\ StartTask(Sep, Head(batch[c])) /\ Kind[Head(batch[c])] = "ordered"
        /\ taskCh' = taskCh /\ rsp' = rsp /\ done' = done /\ Sep \in Goroutine
    BY <1>4 DEF ProduceTaskSeparate, Goroutine
  <2>3. PoolInv'
    BY <1>0, <2>1, <2>2, PoolStart
  <2>4. task'[Sep] = Head(batch[c])
    BY <2>1, <2>2, Started
  <2>5. LastOrdered'
    BY <1>0, <2>1, <2>4, LastStart
  <2>6. Head(batch[c]) \notin started
    BY <1>0, <2>1, PoolSets
  <2>7. RspInv'
    BY <1>0, <2>1, <2>2, <2>6, RspStart
  <2> QED
    BY <2>1, <2>3, <2>5, <2>7 DEF DispatchInv
<1>5. ASSUME rvars' = rvars, session' = session, refused' = refused
      PROVE  /\ \A c \in Conn : StreamInv(c)' /\ sentTo(c)' = sentTo(c)
             /\ arrived' = arrived /\ Handed' = Handed /\ SessionInv' /\ (refused \subseteq Sent)'
  <2>1. wire' = wire /\ reader' = reader /\ batch' = batch /\ cur' = cur /\ arrived' = arrived
    BY <1>5 DEF rvars
  <2>2. \A c \in Conn : StreamInv(c)' /\ sentTo(c)' = sentTo(c)
    BY <1>0, <2>1, StreamSame DEF Untouched
  <2>3. Sent' = Sent
    BY <2>1, <2>2, SentSame
  <2>4. Handed' = Handed /\ (refused \subseteq Sent)'
    BY ONLY <1>0, <1>5, <2>3 DEF Handed
  <2>5. SessionInv'
    BY <1>0, <1>5, <2>1, <2>4, SessionSame
  <2> QED
    BY ONLY <2>1, <2>2, <2>4, <2>5
<1>6. ASSUME NEW w \in Worker, TakeTask(w) PROVE DispatchInv'
  <2>1. /\ taskCh # <<>> /\ StartTask(w, Head(taskCh)) /\ taskCh' = Tail(taskCh)
        /\ rvars' = rvars /\ session' = session /\ rsp' = rsp /\ done' = done
        /\ w \in Goroutine /\ w # Sep
        /\ refused' = refused /\ failed' = failed /\ err' = err
    BY <1>6, DispatchAssumption DEF TakeTask, Goroutine, hvars
  <2>2. /\ \A c \in Conn : StreamInv(c)' /\ sentTo(c)' = sentTo(c)
        /\ arrived' = arrived /\ Handed' = Handed /\ SessionInv' /\ (refused \subseteq Sent)'
    BY <1>5, <2>1
  <2>3. taskCh \in Seq(Req) /\ Distinct(taskCh)
    BY <1>0, PoolSets DEF TypeOK
  <2>4. Head(taskCh) \in Range(taskCh) /\ Head(taskCh) \in Req
    BY ONLY <2>1, <2>3, RangeTail, Tailed, ZenonT(60)
  <2>5. PoolInv'
    BY <1>0, <2>1, <2>2, <2>4, PoolStart
  <2>6. Sep \in Running' => Sep \in Running /\ task'[Sep] = task[Sep]
    <3>1. /\ Running' = Running \cup {w}
          /\ \A h \in Goroutine \ {w} : task'[h] = task[h]
      BY <2>1, <2>4, Started
    <3> QED
      BY ONLY <2>1, <3>1 DEF Goroutine
  <2>7. LastOrdered'
    BY <1>0, <2>1, <2>2, <2>6, LastKept
  <2>8. Head(taskCh) \notin started
    BY <1>0, <2>4, PoolSets
  <2>9. RspInv'
    BY <1>0, <2>1, <2>4, <2>8, RspStart
  <2>10. FailedInv'
    <3>1. started \subseteq started'
      BY <2>1 DEF StartTask
    <3> QED
      BY <1>0, <2>1, <3>1, FailedKept
  <2> QED
    BY <2>2, <2>5, <2>7, <2>9, <2>10 DEF DispatchInv
<1>7. ASSUME NEW g \in Goroutine, RpcHandle(g) \/ Reject(g) \/ Respond(g) PROVE DispatchInv'
  <2>1. /\ rvars' = rvars /\ session' = session /\ taskCh' = taskCh /\ task' = task
        /\ started' = started /\ done' = done /\ refused' = refused
        /\ phase[g] \in {"process", "respond"}
        /\ phase' \in {[phase EXCEPT ![g] = "respond"], [phase EXCEPT ![g] = "end"]}
    BY <1>7 DEF RpcHandle, Reject, Respond, hvars
  <2>2. /\ \A c \in Conn : StreamInv(c)' /\ sentTo(c)' = sentTo(c)
        /\ arrived' = arrived /\ Handed' = Handed /\ SessionInv' /\ (refused \subseteq Sent)'
    BY <1>5, <2>1
  <2>3. /\ phase'[g] \in {"respond", "end"} /\ \A h \in Goroutine \ {g} : phase'[h] = phase[h]
    BY <2>1 DEF TypeOK
  <2>4. Running' = Running
    BY ONLY <2>1, <2>3 DEF Running
  <2>5. PoolInv'
    BY <1>0, <2>1, <2>2, <2>4, PoolSame
  <2>6. LastOrdered'
    BY <1>0, <2>1, <2>2, <2>4, LastKept
  <2>7. RspInv'
    <3>1. CASE RpcHandle(g)
      <4>1. rsp' = rsp
        BY <3>1 DEF RpcHandle
      <4> QED
        BY <1>0, <2>1, <2>3, <4>1, RspKept
    <3>2. CASE Reject(g)
      <4>1. MessageSend(task[g], {task[g]}) /\ phase' = [phase EXCEPT ![g] = "end"]
        BY <3>2, ZenonT(60) DEF Reject
      <4>2. phase[g] # "idle"
        BY <2>1
      <4> QED
        BY ONLY TypeOK, g \in Goroutine, <1>0, <2>1, <4>1, <4>2, RspSend, ZenonT(60)
    <3>3. CASE Respond(g)
      <4>1. MessageSend(task[g], {err[session[task[g]]]}) /\ phase' = [phase EXCEPT ![g] = "end"]
        BY <3>3, ZenonT(60) DEF Respond
      <4>2. phase[g] # "idle"
        BY <2>1
      <4> QED
        BY ONLY TypeOK, g \in Goroutine, <1>0, <2>1, <4>1, <4>2, RspSend, ZenonT(60)
    <3> QED
      BY <1>7, <3>1, <3>2, <3>3
  <2>8. FailedInv'
    <3>1. CASE RpcHandle(g)
      BY <1>0, <3>1, FailedHandle
    <3>2. CASE Reject(g) \/ Respond(g)
      <4>1. failed' = failed /\ err' = err
        BY <3>2 DEF Reject, Respond, hvars
      <4>2. task[g] \in Req /\ task[g] # NONE
        BY <1>0, <2>1, TaskSession, DispatchAssumption
      <4>3. task[g] \in failed => err[session[task[g]]] # NONE
        BY <1>0 DEF FailedInv
      <4>4. \/ MessageSend(task[g], {task[g]})
            \/ MessageSend(task[g], {err[session[task[g]]]})
        BY <3>2, ZenonT(60) DEF Reject, Respond
      <4> QED
        BY ONLY TypeOK, <1>0, <2>1, <4>1, <4>2, <4>3, <4>4, FailedSend, ZenonT(60)
    <3> QED
      BY <1>7, <3>1, <3>2
  <2> QED
    BY <2>2, <2>5, <2>6, <2>7, <2>8 DEF DispatchInv
<1>8. ASSUME NEW g \in Goroutine, EndTask(g) PROVE DispatchInv'
  <2>1. /\ rvars' = rvars /\ session' = session /\ rsp' = rsp /\ started' = started
        /\ phase' = [phase EXCEPT ![g] = "idle"] /\ task' = [task EXCEPT ![g] = NONE]
        /\ refused' = refused /\ failed' = failed /\ err' = err
    BY <1>8 DEF EndTask, hvars
  <2>2. /\ \A c \in Conn : StreamInv(c)' /\ sentTo(c)' = sentTo(c)
        /\ arrived' = arrived /\ Handed' = Handed /\ SessionInv' /\ (refused \subseteq Sent)'
    BY <1>5, <2>1
  <2>3. PoolInv'
    BY <1>0, <1>8, <2>2, PoolEnd
  <2>4. /\ phase'[g] = "idle"
        /\ \A h \in Goroutine \ {g} : phase'[h] = phase[h] /\ task'[h] = task[h]
    BY <2>1 DEF TypeOK
  <2>5. Sep \in Running' => Sep \in Running /\ task'[Sep] = task[Sep]
    BY ONLY <2>4 DEF Running
  <2>6. LastOrdered'
    BY <1>0, <2>1, <2>2, <2>5, LastKept
  <2>7. RspInv' /\ FailedInv'
    BY <1>0, <2>1, <2>4, RspKept, FailedKept
  <2> QED
    BY <2>2, <2>3, <2>6, <2>7 DEF DispatchInv
<1>9. CASE UNCHANGED vars
  <2>1. /\ rvars' = rvars /\ session' = session /\ taskCh' = taskCh /\ task' = task
        /\ phase' = phase /\ started' = started /\ done' = done /\ rsp' = rsp
        /\ refused' = refused /\ failed' = failed /\ err' = err
    BY <1>9 DEF vars, rvars
  <2>2. /\ \A c \in Conn : StreamInv(c)' /\ sentTo(c)' = sentTo(c)
        /\ arrived' = arrived /\ Handed' = Handed /\ SessionInv' /\ (refused \subseteq Sent)'
    BY <1>5, <2>1
  <2>3. Running' = Running
    BY <2>1 DEF Running
  <2>4. PoolInv' /\ LastOrdered' /\ RspInv' /\ FailedInv'
    BY <1>0, <2>1, <2>2, <2>3, PoolSame, LastKept, RspKept, FailedKept
  <2> QED
    BY <2>2, <2>4 DEF DispatchInv
<1> QED
  BY <1>1, <1>2, <1>3, <1>4, <1>6, <1>7, <1>8, <1>9, <1>10 DEF DispatchNext

-----------------------------------------------------------------------------
(***************************************************************************)
(* The tasks that size counts: those in the hands of a reader, those in    *)
(* taskCh and those that run.                                              *)
(***************************************************************************)
Heads == {Head(batch[c]) : c \in {d \in Conn : reader[d] = "send"}}

Tasks == {task[g] : g \in Running}

LEMMA InPoolParts == InPool = Heads \cup Range(taskCh) \cup Tasks
BY DEF InPool, Heads, Tasks, Running

LEMMA HeadsNotSent ==
  ASSUME TypeOK, DispatchInv
  PROVE  \A c \in Conn : reader[c] = "send" => /\ Head(batch[c]) \in Heads
                                               /\ Head(batch[c]) \notin Sent
                                               /\ From[Head(batch[c])] = c
<1> TAKE c \in Conn
<1> HAVE reader[c] = "send"
<1>1. StreamInv(c) /\ reader[c] \in {"decode", "send"}
  BY DEF DispatchInv
<1>2. Head(batch[c]) \notin Sent /\ From[Head(batch[c])] = c
  BY <1>1, FirstPacket
<1> QED
  BY <1>2 DEF Heads

LEMMA HeadsSame ==
  ASSUME \A c \in Conn : \/ reader'[c] = reader[c] /\ batch'[c] = batch[c]
                         \/ reader[c] # "send" /\ reader'[c] # "send"
  PROVE  Heads' = Heads
BY DEF Heads

(***************************************************************************)
(* Only connection d changes hands.                                        *)
(***************************************************************************)
LEMMA HeadsChange ==
  ASSUME TypeOK, DispatchInv, NEW d \in Conn, NEW h, h = Head(batch[d]),
         \A c \in Conn \ {d} : reader'[c] = reader[c] /\ batch'[c] = batch[c],
         reader[d] \in {"decode", "send"}
  PROVE  /\ reader[d] = "decode" /\ reader'[d] = "send" /\ batch'[d] = batch[d]
            => Heads' = Heads \cup {h} /\ h \notin InPool
         /\ reader[d] = "send" /\ reader'[d] # "send" => Heads' = Heads \ {h} /\ h \in Heads
<1>1. h \notin Sent /\ From[h] = d
  <2>1. StreamInv(d)
    BY DEF DispatchInv
  <2> QED
    BY <2>1, FirstPacket
<1>2. \A c \in Conn \ {d} : reader[c] = "send" => Head(batch[c]) # h
  BY ONLY TypeOK, DispatchInv, <1>1, HeadsNotSent, SMTT(60)
<1>3. h \notin Range(taskCh) \cup Tasks
  BY <1>1, PoolSets, SMTT(30) DEF Tasks, DispatchInv, Handed
<1>4. ASSUME reader[d] = "decode", reader'[d] = "send", batch'[d] = batch[d]
      PROVE  Heads' = Heads \cup {h} /\ h \notin InPool
  <2>1. h \notin Heads
    BY ONLY <1>2, <1>4 DEF Heads
  <2>2. Heads' = Heads \cup {h}
    BY <1>4 DEF Heads
  <2> QED
    BY <1>3, <2>1, <2>2, InPoolParts
<1>5. ASSUME reader[d] = "send", reader'[d] # "send"
      PROVE  Heads' = Heads \ {h} /\ h \in Heads
  BY <1>2, <1>5 DEF Heads
<1> QED
  BY <1>4, <1>5

(***************************************************************************)
(* How a step changes what is in the pool.                                 *)
(***************************************************************************)
LEMMA InPoolStep ==
  ASSUME TypeOK, DispatchInv, [DispatchNext]_vars
  PROVE  \/ InPool' = InPool /\ size' = size
         \/ \E h \in Req \ InPool : InPool' = InPool \cup {h} /\ size' = size + 1
         \/ \E h \in InPool : InPool' = InPool \ {h} /\ size' = size - 1
<1>0. InPool = Heads \cup Range(taskCh) \cup Tasks /\ InPool' = Heads' \cup Range(taskCh') \cup Tasks'
  BY InPoolParts DEF InPool, Heads, Tasks, Running
<1>1. ASSUME NEW r \in Req, Arrive(r) PROVE InPool' = InPool /\ size' = size
  BY <1>1 DEF Arrive, pvars, InPool
<1>2. ASSUME NEW d \in Conn, HandleRead(d) \/ Close(d) PROVE InPool' = InPool /\ size' = size
  <2>1. reader[d] # "send" /\ taskCh' = taskCh /\ phase' = phase /\ task' = task /\ size' = size
    BY <1>2 DEF HandleRead, Close, pvars
  <2>2. ~Decode(d)
    BY <1>2 DEF HandleRead, Close, Decode
  <2>3. Heads' = Heads
    BY <1>2, <2>1, <2>2, ReaderElsewhere, HeadsSame
  <2> QED
    BY ONLY <1>0, <2>1, <2>3 DEF Tasks, Running
<1>3. ASSUME NEW d \in Conn, Decode(d)
      PROVE  \E h \in Req \ InPool : InPool' = InPool \cup {h} /\ size' = size + 1
  <2>1. /\ reader[d] = "decode" /\ batch' = batch /\ size' = size + 1
        /\ taskCh' = taskCh /\ phase' = phase /\ task' = task
        /\ reader' = [reader EXCEPT ![d] = "send"]
    BY <1>3 DEF Decode, pvars
  <2>2. reader'[d] = "send"
    BY <2>1 DEF TypeOK
  <2>3. Heads' = Heads \cup {Head(batch[d])} /\ Head(batch[d]) \notin InPool
    <3>1. \A c \in Conn \ {d} : reader'[c] = reader[c] /\ batch'[c] = batch[c]
      BY <1>3, ReaderElsewhere
    <3> QED
      BY <2>1, <2>2, <3>1, HeadsChange
  <2>4. Head(batch[d]) \in Req
    BY <2>1, FirstPacket DEF DispatchInv
  <2>5. InPool' = InPool \cup {Head(batch[d])}
    BY ONLY <1>0, <2>1, <2>3, SMTT(60) DEF Tasks, Running
  <2> QED
    BY ONLY <2>1, <2>3, <2>4, <2>5, SMTT(60)
<1>4. ASSUME NEW d \in Conn, DecodeSync(d) \/ Refuse(d) PROVE InPool' = InPool /\ size' = size
  <2>1. /\ reader[d] = "decode" /\ NextPacket(d)
        /\ taskCh' = taskCh /\ phase' = phase /\ task' = task /\ size' = size
    BY <1>4 DEF DecodeSync, Refuse, pvars
  <2>3. ~Decode(d)
    <3>1. size \in Int
      BY DEF TypeOK
    <3> QED
      BY <2>1, <3>1, SMTT(30) DEF Decode
  <2>2. Heads' = Heads
    BY <2>1, <2>3, ReaderElsewhere, HeadsSame
  <2> QED
    BY ONLY <1>0, <2>1, <2>2 DEF Tasks, Running
<1>5. ASSUME NEW d \in Conn, ProduceTask(d) \/ ProduceTaskSeparate(d)
      PROVE  InPool' = InPool /\ size' = size
  <2>1. reader[d] = "send" /\ NextPacket(d) /\ ~Decode(d) /\ size' = size
    BY <1>5 DEF ProduceTask, ProduceTaskSeparate, Decode
  <2>2. Heads' = Heads \ {Head(batch[d])} /\ Head(batch[d]) \in Heads
    <3>1. /\ \A c \in Conn \ {d} : reader'[c] = reader[c] /\ batch'[c] = batch[c]
          /\ reader'[d] # "send"
      BY <2>1, ReaderElsewhere
    <3> QED
      BY <2>1, <3>1, HeadsChange
  <2>3. Head(batch[d]) \in Req
    BY <2>1, FirstPacket DEF DispatchInv
  <2>4. CASE ProduceTask(d)
    <3>1. taskCh' = Append(taskCh, Head(batch[d]))
      BY <2>4 DEF ProduceTask
    <3>2. phase' = phase /\ task' = task
      BY <2>4 DEF ProduceTask, pvars
    <3>3. taskCh \in Seq(Req)
      BY DEF TypeOK
    <3>4. Range(Append(taskCh, Head(batch[d]))) = Range(taskCh) \cup {Head(batch[d])}
      BY ONLY <2>3, <3>3, RangeAppend, ZenonT(60)
    <3> QED
      <4>1. Tasks' = Tasks
        BY ONLY <3>2, ZenonT(60) DEF Tasks, Running
      <4>2. Range(taskCh') = Range(taskCh) \cup {Head(batch[d])}
        BY ONLY <3>1, <3>4, ZenonT(60)
      <4> QED
        BY ONLY <1>0, <2>1, <2>2, <4>1, <4>2
  <2>5. CASE ProduceTaskSeparate(d)
    <3>1. taskCh' = taskCh /\ StartTask(Sep, Head(batch[d])) /\ Sep \in Goroutine
      BY <2>5 DEF ProduceTaskSeparate, Goroutine
    <3>2. /\ Sep \notin Running /\ Running' = Running \cup {Sep} /\ task'[Sep] = Head(batch[d])
          /\ \A h \in Goroutine \ {Sep} : task'[h] = task[h]
      BY <2>3, <3>1, Started
    <3>3. Tasks' = Tasks \cup {Head(batch[d])}
      <4>1. Running \subseteq Goroutine \ {Sep}
        BY <3>2 DEF Running
      <4> QED
        BY ONLY <3>2, <4>1 DEF Tasks
    <3> QED
      BY ONLY <1>0, <2>1, <2>2, <3>1, <3>3
  <2> QED
    BY <1>5, <2>4, <2>5
<1>6. ASSUME NEW w \in Worker, TakeTask(w) PROVE InPool' = InPool /\ size' = size
  <2>1. /\ taskCh # <<>> /\ StartTask(w, Head(taskCh)) /\ taskCh' = Tail(taskCh)
        /\ reader' = reader /\ batch' = batch /\ size' = size /\ w \in Goroutine
    BY <1>6 DEF TakeTask, Goroutine, rvars
  <2>2. taskCh \in Seq(Req) /\ Distinct(taskCh)
    BY PoolSets DEF TypeOK, DispatchInv
  <2>3. /\ Head(taskCh) \in Range(taskCh) /\ Head(taskCh) \in Req
        /\ Range(taskCh') = Range(taskCh) \ {Head(taskCh)}
    BY ONLY <2>1, <2>2, RangeTail, Tailed, ZenonT(60)
  <2>4. /\ w \notin Running /\ Running' = Running \cup {w} /\ task'[w] = Head(taskCh)
        /\ \A h \in Goroutine \ {w} : task'[h] = task[h]
    BY <2>1, <2>3, Started
  <2>5. Running \subseteq Goroutine \ {w}
    BY <2>4 DEF Running
  <2>6. Tasks' = Tasks \cup {Head(taskCh)}
    BY ONLY <2>4, <2>5 DEF Tasks
  <2>7. Heads' = Heads
    BY <2>1 DEF Heads
  <2> QED
    BY ONLY <1>0, <2>1, <2>3, <2>6, <2>7
<1>7. ASSUME NEW g \in Goroutine, RpcHandle(g) \/ Reject(g) \/ Respond(g)
      PROVE  InPool' = InPool /\ size' = size
  <2>1. /\ reader' = reader /\ batch' = batch /\ taskCh' = taskCh /\ task' = task /\ size' = size
        /\ phase[g] # "idle"
        /\ phase' \in {[phase EXCEPT ![g] = "respond"], [phase EXCEPT ![g] = "end"]}
    BY <1>7 DEF RpcHandle, Reject, Respond, rvars
  <2>2. Running' = Running
    BY <2>1 DEF TypeOK, Running
  <2> QED
    BY ONLY <1>0, <2>1, <2>2, SMTT(60) DEF Heads, Tasks
<1>8. ASSUME NEW g \in Goroutine, EndTask(g)
      PROVE  \E h \in InPool : InPool' = InPool \ {h} /\ size' = size - 1
  <2>1. /\ reader' = reader /\ batch' = batch /\ taskCh' = taskCh /\ size' = size - 1
        /\ phase[g] = "end" /\ phase' = [phase EXCEPT ![g] = "idle"]
        /\ task' = [task EXCEPT ![g] = NONE]
    BY <1>8 DEF EndTask, rvars
  <2>2. g \in Running /\ Running' = Running \ {g} /\ \A k \in Running \ {g} : task'[k] = task[k]
    BY <2>1 DEF TypeOK, Running
  <2>3. /\ \A k \in Running \ {g} : task[k] # task[g]
        /\ task[g] \in Sent /\ task[g] \notin Range(taskCh)
    BY <2>2, PoolSets DEF DispatchInv, Handed
  <2>4. Tasks' = Tasks \ {task[g]} /\ task[g] \in Tasks
    BY ONLY <2>2, <2>3, SMTT(60) DEF Tasks
  <2>5. task[g] \notin Heads /\ Heads' = Heads
    BY <2>1, <2>3, HeadsNotSent, SMTT(30) DEF Heads
  <2> QED
    BY ONLY <1>0, <2>1, <2>3, <2>4, <2>5, SMTT(60)
<1>9. CASE UNCHANGED vars
  BY <1>9 DEF vars, InPool
<1> QED
  BY <1>1, <1>2, <1>3, <1>4, <1>5, <1>6, <1>7, <1>8, <1>9 DEF DispatchNext

-----------------------------------------------------------------------------
(***************************************************************************)
(* What was started was sent, and so was everything before it.             *)
(***************************************************************************)
LEMMA SentBefore ==
  ASSUME TypeOK, DispatchInv, NEW c \in Conn,
         NEW i \in 1..nArrived(c), NEW j \in 1..nArrived(c), i < j,
         arrived[c][j] \in started
  PROVE  j <= sentTo(c) /\ arrived[c][i] \in Sent
<1>1. StreamInv(c)
  BY DEF DispatchInv
<1>2. /\ sentTo(c) \in Nat /\ sentTo(c) <= nArrived(c) /\ nArrived(c) \in Nat
      /\ arrived[c] \in Seq(Req)
  BY <1>1, SentBound, Lengths
<1>3. /\ \A k \in 1..nArrived(c) : From[arrived[c][k]] = c
      /\ \A k, l \in 1..nArrived(c) : arrived[c][k] = arrived[c][l] => k = l
  BY <1>1, ZenonT(60) DEF StreamInv
<1>4. arrived[c][j] \in Sent
  BY PoolSets DEF DispatchInv, Handed
<1>5. PICK k \in 1..sentTo(c) : arrived[c][k] = arrived[c][j]
  <2>1. From[arrived[c][j]] = c
    BY ONLY <1>3, j \in 1..nArrived(c)
  <2> QED
    BY ONLY <1>4, <2>1 DEF Sent
<1>6. k \in 1..nArrived(c) /\ k \in Nat
  BY ONLY <1>2, k \in 1..sentTo(c), SMTT(60)
<1>7. k = j
  BY ONLY <1>3, <1>5, <1>6, j \in 1..nArrived(c)
<1>8. j <= sentTo(c) /\ i \in 1..sentTo(c)
  BY ONLY <1>2, <1>7, k \in 1..sentTo(c), i \in 1..nArrived(c), i < j, SMTT(60)
<1>9. arrived[c][i] \in Req
  BY <1>2, Elements DEF nArrived
<1> QED
  BY ONLY <1>3, <1>8, <1>9, i \in 1..nArrived(c), SMTT(60) DEF Sent

LEMMA OrderHolds ==
  ASSUME TypeOK, DispatchInv
  PROVE  OrderedInOrder /\ SyncFirst
<1>1. ASSUME NEW c \in Conn, NEW i \in 1..nArrived(c), NEW j \in 1..nArrived(c), i < j,
             Kind[arrived[c][i]] = "ordered", Kind[arrived[c][j]] = "ordered",
             arrived[c][j] \in started
      PROVE  arrived[c][i] \in done \cup refused
  <2>1. j <= sentTo(c) /\ arrived[c][i] \in Sent /\ From[arrived[c][i]] = c
    <3>1. From[arrived[c][i]] = c
      BY DEF DispatchInv, StreamInv
    <3> QED
      BY <1>1, <3>1, SentBefore
  <2>2. ASSUME Sep \in Running, arrived[c][i] = task[Sep] PROVE FALSE
    <3>1. LastOrdered
      BY DEF DispatchInv
    <3>2. j > sentTo(c)
      <4>1. arrived[c][j] \notin refused
        BY <1>1, PoolSets DEF DispatchInv, Handed
      <4> QED
        BY ONLY <1>1, <2>1, <2>2, <3>1, <4>1, SMTT(60) DEF LastOrdered
    <3>3. sentTo(c) \in Nat
      BY DEF DispatchInv, StreamInv
    <3> QED
      BY ONLY <2>1, <3>2, <3>3, j \in 1..nArrived(c)
  <2> QED
    BY <1>1, <2>1, <2>2, PoolSets, SMTT(30) DEF DispatchInv, Handed
<1>2. ASSUME NEW c \in Conn, NEW i \in 1..nArrived(c), NEW j \in 1..nArrived(c), i < j,
             Kind[arrived[c][i]] = "sync", arrived[c][j] \in started
      PROVE  arrived[c][i] \in done \cup refused
  BY <1>2, SentBefore, PoolSets DEF DispatchInv, Handed
<1>3. OrderedInOrder
  BY ONLY <1>1 DEF OrderedInOrder, nArrived
<1>4. SyncFirst
  BY ONLY <1>2 DEF SyncFirst, nArrived
<1> QED
  BY ONLY <1>3, <1>4, SMTT(60)

=============================================================================
