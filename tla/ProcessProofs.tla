--------------------------- MODULE ProcessProofs ----------------------------
(***************************************************************************)
(* Proofs about Process for any set of requests, connections and           *)
(* goroutines: its steps are steps of Dispatch, so it keeps what Dispatch  *)
(* keeps, and its own invariant gives what the process adds.               *)
(***************************************************************************)
EXTENDS Process, DispatchProofs

USE ZenonT(5), SMTT(60), SMTT(90)

(***************************************************************************)
(* Whatever the process does is, for its readers and its pool, one of the  *)
(* actions of Dispatch, or nothing.                                        *)
(***************************************************************************)
LEMMA DispatchStep == [PNext]_allvars => [DispatchNext]_vars
<1> SUFFICES ASSUME [PNext]_allvars PROVE [DispatchNext]_vars
  OBVIOUS
<1>1. CASE Main \/ Signal
  BY <1>1 DEF Main, Start, StopReaders, StopReturn, Signal
<1>2. ASSUME NEW r \in Req, PArrive(r) PROVE [DispatchNext]_vars
  BY <1>2 DEF PArrive, DispatchNext
<1>3. ASSUME NEW c \in Conn, Reader(c) \/ PLose(c) \/ PProduceTaskSeparate(c)
      PROVE  [DispatchNext]_vars
  BY <1>3 DEF Reader, PHandleRead, PClose, PLose, EndRead, PRefuse, PDecode, Crash,
     PProduceTaskSeparate, DispatchNext
<1>4. ASSUME NEW w \in Worker, PTakeTask(w) PROVE [DispatchNext]_vars
  BY <1>4 DEF PTakeTask, DispatchNext
<1>5. ASSUME NEW g \in Goroutine, Run(g) PROVE [DispatchNext]_vars
  BY <1>5 DEF Run, PTask, PRpcHandle, PReject, Crash, DispatchNext
<1>6. CASE UNCHANGED allvars
  BY <1>6 DEF allvars
<1> QED
  BY <1>1, <1>2, <1>3, <1>4, <1>5, <1>6 DEF PNext

(***************************************************************************)
(* What a step may not do, whatever the process is doing: open a closed    *)
(* connection, answer on it, decode on it, or forget that a task is done.  *)
(***************************************************************************)
LEMMA Closed ==
  ASSUME TypeOK, DispatchInv, [DispatchNext]_vars
  PROVE  /\ \A c \in Conn : reader[c] = "closed" => reader'[c] = "closed"
         /\ \A r \in Req : reader[From[r]] = "closed" =>
               rsp'[r] = rsp[r] /\ (session'[r] # NONE => session[r] # NONE)
         /\ done \subseteq done'
<1>1. ASSUME NEW c \in Conn, reader[c] = "closed" PROVE reader'[c] = "closed"
  <2>1. ASSUME NEW d \in Conn, HandleRead(d) \/ Close(d) \/ Decode(d) \/ NextPacket(d),
               reader[d] # "closed"
        PROVE  reader'[c] = "closed"
    BY <1>1, <2>1, ReaderElsewhere
  <2>2. ASSUME NEW d \in Conn, \/ HandleRead(d) \/ DecodeSync(d) \/ Decode(d) \/ Close(d)
                               \/ ProduceTask(d) \/ ProduceTaskSeparate(d) \/ Refuse(d)
        PROVE  reader'[c] = "closed"
    <3>1. reader[d] # "closed"
      BY ONLY <2>2, ZenonT(60) DEF HandleRead, DecodeSync, Decode, Close, ProduceTask, ProduceTaskSeparate, Refuse
    <3>2. HandleRead(d) \/ Close(d) \/ Decode(d) \/ NextPacket(d)
      BY ONLY <2>2, ZenonT(60) DEF DecodeSync, ProduceTask, ProduceTaskSeparate, Refuse
    <3> QED
      BY <2>1, <3>1, <3>2
  <2>3. ASSUME reader' = reader PROVE reader'[c] = "closed"
    BY <1>1, <2>3
  <2>4. /\ UNCHANGED vars => reader' = reader
        /\ \A r \in Req : Arrive(r) => reader' = reader
        /\ \A w \in Worker : TakeTask(w) => reader' = reader
        /\ \A g \in Goroutine : RpcHandle(g) \/ Reject(g) \/ Respond(g) \/ EndTask(g)
              => reader' = reader
    BY ONLY TRUE, ZenonT(60) DEF Arrive, vars, TakeTask, RpcHandle, Reject, Respond, EndTask, rvars
  <2> QED
    BY ONLY [DispatchNext]_vars, <2>2, <2>3, <2>4 DEF DispatchNext
<1>2. ASSUME NEW r \in Req, reader[From[r]] = "closed" PROVE rsp'[r] = rsp[r]
  <2>1. ASSUME NEW g \in Goroutine, NEW es, MessageSend(task[g], es) PROVE rsp'[r] = rsp[r]
    BY <1>2, <2>1 DEF MessageSend, TypeOK
  <2>2. rsp' = rsp \/ \E g \in Goroutine : \E es : MessageSend(task[g], es)
    <3>1. /\ UNCHANGED vars => rsp' = rsp
          /\ \A s \in Req : Arrive(s) => rsp' = rsp
          /\ \A c \in Conn : HandleRead(c) \/ DecodeSync(c) \/ Decode(c) \/ Close(c)
                \/ ProduceTask(c) \/ ProduceTaskSeparate(c) \/ Refuse(c) => rsp' = rsp
          /\ \A w \in Worker : TakeTask(w) => rsp' = rsp
          /\ \A g \in Goroutine : RpcHandle(g) \/ EndTask(g) => rsp' = rsp
      BY ONLY TRUE, ZenonT(60) DEF Arrive, vars, TakeTask, RpcHandle, EndTask, HandleRead, DecodeSync, Decode,
         Close, ProduceTask, ProduceTaskSeparate, Refuse
    <3>2. \A g \in Goroutine : Reject(g) \/ Respond(g) => \E es : MessageSend(task[g], es)
      BY ONLY TRUE, ZenonT(60) DEF Reject, Respond
    <3>3. rsp' = rsp \/ \E g \in Goroutine : Reject(g) \/ Respond(g)
      BY ONLY [DispatchNext]_vars, <3>1 DEF DispatchNext
    <3> QED
      BY ONLY <3>2, <3>3
  <2> QED
    BY <2>1, <2>2
<1>3. ASSUME NEW r \in Req, reader[From[r]] = "closed", session'[r] # NONE PROVE session[r] # NONE
  <2>1. ASSUME NEW c \in Conn, DecodeSync(c) \/ Decode(c) PROVE session'[r] = session[r]
    <3>1. reader[c] = "decode" /\ session' = [session EXCEPT ![Head(batch[c])] = cur[c]]
      BY ONLY <2>1, ZenonT(60) DEF DecodeSync, Decode
    <3>2. From[Head(batch[c])] = c
      BY <3>1, FirstPacket DEF DispatchInv
    <3> QED
      BY <1>3, <3>1, <3>2 DEF TypeOK
  <2>2. /\ UNCHANGED vars => session' = session
        /\ \A s \in Req : Arrive(s) => session' = session
        /\ \A c \in Conn : HandleRead(c) \/ Close(c) \/ Refuse(c) \/ ProduceTask(c)
                            \/ ProduceTaskSeparate(c) => session' = session
        /\ \A w \in Worker : TakeTask(w) => session' = session
        /\ \A g \in Goroutine : RpcHandle(g) \/ Reject(g) \/ Respond(g) \/ EndTask(g)
              => session' = session
    BY ONLY TRUE, ZenonT(60) DEF Arrive, vars, TakeTask, RpcHandle, Reject, Respond, EndTask, HandleRead,
       Close, ProduceTask, ProduceTaskSeparate, Refuse
  <2>3. session'[r] = session[r]
    BY ONLY [DispatchNext]_vars, <2>1, <2>2 DEF DispatchNext
  <2> QED
    BY <1>3, <2>3
<1>4. done \subseteq done'
  BY ONLY [DispatchNext]_vars, ZenonT(60) DEF DispatchNext, Arrive, vars, TakeTask, RpcHandle, Reject, Respond,
     EndTask, HandleRead, Close, ProduceTask, ProduceTaskSeparate, DecodeSync, Decode, Refuse
<1> QED
  BY ONLY <1>1, <1>2, <1>3, <1>4

-----------------------------------------------------------------------------
(***************************************************************************)
(* The calls of Start and Stop.                                            *)
(***************************************************************************)
LEMMA Orders ==
  /\ Len(StartOrder) = 5 /\ Len(StopOrder) = 5
  /\ \A i \in 1..5 : StartOrder[i] \in {"fvc", "pool", "db", "etcd", "tcp"}
  /\ StartOrder[3] = "db"
  /\ StopOrder[1] = "tcp" /\ StopOrder[4] = "pool"
  /\ \A i \in 1..5 : StopOrder[i] = "db" => i = 3
BY DEF StartOrder, StopOrder

(***************************************************************************)
(* Only the main goroutine changes what it does, and only a handler that   *)
(* runs without its database breaks its request.                           *)
(***************************************************************************)
Breaks(g) == /\ phase[g] = "process" /\ task[g] \in UsesDb /\ "db" \notin up /\ ~gate
             /\ RpcHandle(g) /\ broken' = broken \cup {task[g]}

LEMMA Goroutines ==
  ASSUME [PNext]_allvars
  PROVE  /\ gate' = gate /\ client' = client
         /\ \/ UNCHANGED <<main, step, up>>
            \/ vars' = vars /\ (Start \/ Signal \/ StopReturn)
         /\ broken' = broken \/ \E g \in Goroutine : Breaks(g)
         /\ arrived' = arrived \/ \E r \in Req : PArrive(r)
         /\ last' \subseteq Accepted \/ last' \subseteq last
         /\ exit' \in {exit, TRUE} /\ crashed' \in {crashed, TRUE}
<1> DEFINE Same == UNCHANGED <<gate, client, main, step, up, broken, arrived, last, exit, crashed>>
<1>1. UNCHANGED allvars => Same
  BY ZenonT(60) DEF allvars, svars, vars
<1>2. Start \/ Signal \/ StopReturn =>
         vars' = vars /\ arrived' = arrived /\ UNCHANGED <<gate, client, broken, exit, last, crashed>>
  BY ZenonT(60) DEF Start, Signal, StopReturn, vars
<1>3. StopReaders => /\ UNCHANGED <<gate, client, main, step, up, broken, arrived, crashed>>
                     /\ exit' = TRUE /\ last' \subseteq Accepted
  BY ZenonT(60) DEF StopReaders, vars
<1>4. ASSUME NEW r \in Req, PArrive(r)
      PROVE  UNCHANGED <<gate, client, main, step, up, broken, last, exit, crashed>>
  BY <1>4, ZenonT(60) DEF PArrive, svars
<1>5. ASSUME NEW c \in Conn, PHandleRead(c) \/ PClose(c) \/ PLose(c)
      PROVE  /\ UNCHANGED <<gate, client, main, step, up, broken, arrived, exit, crashed>>
             /\ last' \subseteq last
  BY <1>5, ZenonT(60) DEF PHandleRead, PClose, PLose, EndRead, HandleRead, Close
<1>6. Crash => /\ UNCHANGED <<gate, client, main, step, up, broken, arrived, last, exit>>
               /\ crashed' = TRUE
  BY ZenonT(60) DEF Crash, vars
<1>7. ASSUME NEW c \in Conn, PRefuse(c) \/ PDecode(c) \/ PProduceTaskSeparate(c)
      PROVE  Same \/ Crash
  BY <1>7, ZenonT(90) DEF PRefuse, PDecode, PProduceTaskSeparate, Refuse, DecodeSync, Decode, ProduceTask,
     ProduceTaskSeparate, svars
<1>8. ASSUME NEW g \in Goroutine, PTask(g) \/ PReject(g) PROVE Same
  BY <1>8, ZenonT(60) DEF PTask, PReject, Respond, EndTask, Reject, rvars, svars
<1>9. ASSUME NEW g \in Goroutine, PRpcHandle(g)
      PROVE  \/ Same \/ Crash
             \/ /\ Breaks(g)
                /\ UNCHANGED <<gate, client, main, step, up, arrived, last, exit, crashed>>
  BY <1>9, ZenonT(60) DEF PRpcHandle, RpcHandle, Breaks, rvars, svars
<1>10. ASSUME NEW w \in Worker, PTakeTask(w) PROVE Same
  BY <1>10, ZenonT(60) DEF PTakeTask, TakeTask, rvars, svars
<1>11. CASE UNCHANGED allvars
  BY ONLY <1>1, <1>11
<1>12. CASE Main \/ Signal
  BY ONLY <1>12, <1>2, <1>3, ZenonT(60) DEF Main
<1>13. CASE \E r \in Req : PArrive(r)
  BY ONLY <1>13, <1>4, ZenonT(60)
<1>14. CASE \E c \in Conn : Reader(c) \/ PLose(c) \/ PProduceTaskSeparate(c)
  <2>1. PICK c \in Conn : \/ PHandleRead(c) \/ PClose(c) \/ PLose(c)
                          \/ PRefuse(c) \/ PDecode(c) \/ PProduceTaskSeparate(c)
    BY <1>14 DEF Reader
  <2>2. CASE PHandleRead(c) \/ PClose(c) \/ PLose(c)
    BY ONLY <2>2, <1>5, c \in Conn, ZenonT(60)
  <2> QED
    BY ONLY <2>1, <2>2, <1>6, <1>7, c \in Conn, ZenonT(60)
<1>15. CASE \E w \in Worker : PTakeTask(w)
  BY ONLY <1>10, <1>15, ZenonT(60)
<1>16. CASE \E g \in Goroutine : Run(g)
  <2>1. PICK g \in Goroutine : PTask(g) \/ PReject(g) \/ PRpcHandle(g)
    BY <1>16 DEF Run
  <2> QED
    BY ONLY <2>1, <1>6, <1>8, <1>9, g \in Goroutine, ZenonT(60)
<1> QED
  BY ONLY [PNext]_allvars, <1>11, <1>12, <1>13, <1>14, <1>15, <1>16, ZenonT(60) DEF PNext

(***************************************************************************)
(* What a step does to the verification of clients: nothing, or it is one  *)
(* of these.                                                               *)
(***************************************************************************)
Passes(c) ==
    /\ UNCHANGED <<gate, client, exit>>
    /\ \/ PRefuse(c)
       \/ /\ reader[c] = "decode" => PreCheck(c)
          /\ DecodeSync(c) \/ Decode(c) \/ ProduceTask(c)
          /\ state' = [state EXCEPT ![c] = SetState(c)]
       \/ ProduceTaskSeparate(c) /\ state' = state

Stays == /\ UNCHANGED <<arrived, session, refused, state>>
         /\ UNCHANGED <<batch, wire>> \/ \E c \in Conn : HandleRead(c)

LEMMA Moves ==
  ASSUME [PNext]_allvars
  PROVE  \/ Stays \/ StopReaders
         \/ \E r \in Req : PArrive(r)
         \/ \E c \in Conn : Passes(c)
<1>1. UNCHANGED allvars \/ Start \/ Signal \/ StopReturn \/ Crash => Stays
  BY ZenonT(60) DEF allvars, svars, vars, Start, Signal, StopReturn, Crash, Stays
<1>2. ASSUME NEW c \in Conn, PHandleRead(c) \/ PClose(c) \/ PLose(c) PROVE Stays
  BY <1>2, ZenonT(60) DEF PHandleRead, PClose, PLose, EndRead, HandleRead, Close, Stays, hvars
<1>3. ASSUME NEW c \in Conn, PRefuse(c) \/ PDecode(c) \/ PProduceTaskSeparate(c)
      PROVE  Crash \/ Passes(c)
  BY <1>3, ZenonT(60) DEF PRefuse, PDecode, PProduceTaskSeparate, Passes, svars
<1>4. ASSUME NEW g \in Goroutine, Run(g) PROVE Stays \/ Crash
  BY <1>4, ZenonT(60) DEF Run, PTask, PReject, PRpcHandle, Respond, EndTask, Reject, RpcHandle,
     rvars, svars, hvars, Stays
<1>5. ASSUME NEW w \in Worker, PTakeTask(w) PROVE Stays
  BY <1>5, ZenonT(60) DEF PTakeTask, TakeTask, rvars, svars, hvars, Stays
<1>6. ASSUME NEW c \in Conn, Reader(c) \/ PLose(c) \/ PProduceTaskSeparate(c)
      PROVE  Stays \/ Passes(c)
  BY <1>1, <1>2, <1>3, <1>6, ZenonT(60) DEF Reader
<1> QED
  BY ONLY [PNext]_allvars, <1>1, <1>4, <1>5, <1>6, ZenonT(60) DEF PNext, Main

LEMMA StateType ==
  ASSUME PTypeOK, [PNext]_allvars
  PROVE  state' \in [Conn -> {"init", "ok", "exit"}]
<1>1. state \in [Conn -> {"init", "ok", "exit"}]
  BY DEF PTypeOK
<1>2. CASE Stays
  BY <1>1, <1>2 DEF Stays
<1>3. CASE StopReaders
  BY <1>1, <1>3 DEF StopReaders
<1>4. ASSUME NEW r \in Req, PArrive(r) PROVE state' = state
  BY <1>4 DEF PArrive, svars
<1>5. ASSUME NEW c \in Conn, Passes(c) PROVE state' \in [Conn -> {"init", "ok", "exit"}]
  <2>1. SetState(c) \in {"init", "ok", "exit"}
    BY <1>1 DEF SetState
  <2>2. \/ state' = [state EXCEPT ![c] = "exit"] \/ state' = [state EXCEPT ![c] = SetState(c)]
        \/ state' = state
    BY ONLY <1>5, ZenonT(60) DEF Passes, PRefuse
  <2> QED
    BY ONLY <1>1, <2>1, <2>2, c \in Conn, ExceptType
<1> QED
  BY <1>1, <1>2, <1>3, <1>4, <1>5, Moves

(***************************************************************************)
(* Start and Stop go through their calls.                                  *)
(***************************************************************************)
Control == /\ main \in {"start", "run", "stop", "exit"}
           /\ step \in 1..6
           /\ main \in {"start", "stop"} => step <= 5
           /\ main = "run" => step = 1
           /\ main = "exit" => step = 6
           /\ "db" \notin up => (main = "start" /\ step <= 3) \/ Stopping(1)

LEMMA ControlStep ==
  ASSUME Control, UNCHANGED <<main, step, up>> \/ Start \/ Signal \/ StopReturn
  PROVE  /\ Control'
         /\ main' = "start" => main = "start"
         /\ Stopping(1)' => Stopping(1) \/ (StopReturn /\ step = 1)
         /\ Stopping(4)' => Stopping(4) \/ (StopReturn /\ step = 4)
         /\ Stopping(4) => Stopping(1)
<1>1. CASE UNCHANGED <<main, step, up>>
  BY <1>1 DEF Control, Stopping
<1>2. CASE Start
  <2>1. /\ main = "start" /\ up' = up \cup {StartOrder[step]}
        /\ main' = IF step = 5 THEN "run" ELSE main
        /\ step' = IF step = 5 THEN 1 ELSE step + 1
    BY <1>2, Orders DEF Start
  <2>2. step \in 1..5 /\ ("db" \notin up => step <= 3)
    BY <2>1 DEF Control, Stopping
  <2>3. "db" \notin up' => step <= 2
    BY ONLY <2>1, <2>2, Orders
  <2> QED
    BY ONLY <2>1, <2>2, <2>3 DEF Control, Stopping
<1>3. CASE Signal
  <2>1. main = "run" /\ main' = "stop" /\ step' = step /\ up' = up
    BY <1>3 DEF Signal
  <2> QED
    BY ONLY Control, <2>1 DEF Control, Stopping
<1>4. CASE StopReturn
  <2>1. /\ main = "stop" /\ up' = up \ {StopOrder[step]}
        /\ main' = IF step = 5 THEN "exit" ELSE main
        /\ step' = step + 1
    BY <1>4, Orders DEF StopReturn
  <2>2. step \in 1..5 /\ ("db" \notin up => step > 1)
    BY <2>1 DEF Control, Stopping
  <2>3. "db" \notin up' => step > 1 \/ step = 3
    BY ONLY <2>1, <2>2, Orders
  <2>4. /\ main' \in {"stop", "exit"} /\ step' \in 2..6
        /\ main' = "stop" => step' <= 5
        /\ main' = "exit" => step' = 6
    BY ONLY <2>1, <2>2
  <2> QED
    BY ONLY <1>4, <2>1, <2>2, <2>3, <2>4, SMTT(60) DEF Control, Stopping
<1> QED
  BY <1>1, <1>2, <1>3, <1>4

LEMMA ControlInv == ASSUME PTypeOK, ProcessInv PROVE Control
BY DEF PTypeOK, ProcessInv, Control

(***************************************************************************)
(* The type invariant.                                                     *)
(***************************************************************************)
LEMMA PTypeStep ==
  ASSUME PTypeOK, ProcessInv, DispatchInv, [PNext]_allvars
  PROVE  PTypeOK'
<1>1. TypeOK'
  BY TypeStep, DispatchStep DEF PTypeOK
<1>2. /\ gate' = gate /\ client' = client
      /\ exit' \in {exit, TRUE} /\ crashed' \in {crashed, TRUE}
      /\ UNCHANGED <<main, step, up>> \/ Start \/ Signal \/ StopReturn
      /\ broken' = broken \/ \E g \in Goroutine : Breaks(g)
      /\ last' \subseteq Accepted \/ last' \subseteq last
  BY ONLY Goroutines, [PNext]_allvars, ZenonT(60)
<1>3. Control /\ Control'
  BY ONLY PTypeOK, ProcessInv, <1>2, ControlInv, ControlStep, ZenonT(60)
<1>4. up' \subseteq {"fvc", "pool", "db", "etcd", "tcp"}
  <2>1. up \subseteq {"fvc", "pool", "db", "etcd", "tcp"}
    BY ONLY PTypeOK, ZenonT(60) DEF PTypeOK
  <2>2. CASE Start
    <3>1. main = "start" /\ up' = up \cup {StartOrder[step]}
      BY ONLY <2>2, ZenonT(60) DEF Start
    <3>2. step \in 1..5
      BY ONLY <3>1, <1>3 DEF Control
    <3> QED
      BY ONLY <2>1, <3>1, <3>2, Orders, ZenonT(60)
  <2>3. CASE UNCHANGED <<main, step, up>> \/ Signal \/ StopReturn
    BY ONLY <2>1, <2>3, ZenonT(60) DEF Signal, StopReturn
  <2> QED
    BY ONLY <1>2, <2>2, <2>3, ZenonT(60)
<1>5. last' \subseteq Conn
  <2>1. Accepted \subseteq Conn /\ last \subseteq Conn
    BY DEF PTypeOK, Accepted
  <2> QED
    BY ONLY <1>2, <2>1, ZenonT(60)
<1>6. broken' \subseteq Req
  <2>1. broken \subseteq Req /\ UsesDb \subseteq Req
    BY ProcessAssumption DEF PTypeOK
  <2>2. \A g \in Goroutine : Breaks(g) => task[g] \in UsesDb /\ broken' = broken \cup {task[g]}
    BY ONLY TRUE, ZenonT(60) DEF Breaks
  <2> QED
    BY ONLY <1>2, <2>1, <2>2, ZenonT(60)
<1>7. gate' \in BOOLEAN /\ client' \in BOOLEAN /\ exit' \in BOOLEAN /\ crashed' \in BOOLEAN
  BY <1>2, ZenonT(60) DEF PTypeOK
<1>8. state' \in [Conn -> {"init", "ok", "exit"}]
  BY StateType
<1> QED
  BY ONLY <1>1, <1>8, <1>3, <1>4, <1>5, <1>6, <1>7, ZenonT(60) DEF Control, PTypeOK

(***************************************************************************)
(* What has arrived is for this process, and nothing arrives at a service  *)
(* while it starts.                                                        *)
(***************************************************************************)
ForThis == \A c \in Conn : \A i \in 1..Len(arrived[c]) :
              /\ (arrived[c][i] \in OfGate) = gate
              /\ main = "start" => gate

LEMMA ForThisStep ==
  ASSUME PTypeOK, DispatchInv, ForThis, gate' = gate, main' = "start" => main = "start",
         arrived' = arrived \/ \E r \in Req : PArrive(r) /\ main' = main
  PROVE  ForThis'
<1>1. CASE arrived' = arrived
  BY ONLY ForThis, gate' = gate, main' = "start" => main = "start", <1>1, ZenonT(60) DEF ForThis
<1>2. ASSUME NEW r \in Req, PArrive(r), main' = main PROVE ForThis'
  <2>1. /\ (r \in OfGate) = gate
        /\ main = "start" => From[r] \in Dialled
        /\ arrived' = [arrived EXCEPT ![From[r]] = Append(@, r)]
    BY ONLY <1>2, ZenonT(60) DEF PArrive, Connected, Arrive
  <2>2. main = "start" => gate
    BY ONLY <2>1, ProcessAssumption, r \in Req, ZenonT(60)
  <2>3. From[r] \in Conn /\ arrived \in [Conn -> Seq(Req)]
    BY DispatchAssumption DEF PTypeOK, TypeOK
  <2>4. /\ arrived'[From[r]] = Append(arrived[From[r]], r)
        /\ \A c \in Conn \ {From[r]} : arrived'[c] = arrived[c]
    BY ONLY <2>1, <2>3, ExceptAt, SMTT(60)
  <2>5. ASSUME NEW c \in Conn, NEW i \in 1..Len(arrived'[c])
        PROVE  arrived'[c][i] = r \/ (i \in 1..Len(arrived[c]) /\ arrived'[c][i] = arrived[c][i])
    <3>1. CASE c # From[r]
      BY ONLY <3>1, <2>4, <2>5
    <3>2. CASE c = From[r]
      <4>1. arrived[c] \in Seq(Req) /\ arrived'[c] = Append(arrived[c], r)
        BY ONLY <2>3, <2>4, <3>2
      <4> QED
        BY ONLY <4>1, i \in 1..Len(arrived'[c]), r \in Req, Appended, Elements, SMTT(60)
    <3> QED
      BY <3>1, <3>2
  <2>6. ASSUME NEW c \in Conn, NEW i \in 1..Len(arrived'[c])
        PROVE  (arrived'[c][i] \in OfGate) = gate
    <3>1. CASE arrived'[c][i] = r
      BY ONLY <2>1, <3>1, ZenonT(60)
    <3>2. CASE i \in 1..Len(arrived[c]) /\ arrived'[c][i] = arrived[c][i]
      <4>1. (arrived[c][i] \in OfGate) = gate
        BY ONLY ForThis, c \in Conn, <3>2, ZenonT(60) DEF ForThis
      <4> QED
        BY ONLY <4>1, <3>2, ZenonT(60)
    <3> QED
      BY ONLY <2>5, <3>1, <3>2, c \in Conn, i \in 1..Len(arrived'[c]), ZenonT(60)
  <2> QED
    BY ONLY gate' = gate, main' = main, <2>2, <2>6, ZenonT(60) DEF ForThis
<1> QED
  BY <1>1, <1>2, ZenonT(60)

(***************************************************************************)
(* When StopTaskPool reads 0, all that accepted connections sent is done:  *)
(* their readers are closed, so nothing is on its way into the pool.       *)
(***************************************************************************)
LEMMA Drained ==
  ASSUME TypeOK, DispatchInv, InPool = {}, \A c \in Accepted : reader[c] = "closed"
  PROVE  \A r \in Req : session[r] # NONE /\ From[r] \in Accepted => r \in done
<1>3. Range(taskCh) = {} /\ {task[g] : g \in Running} = {}
  BY ONLY InPool = {}, ZenonT(60) DEF InPool, Running
<1>4. Handed \subseteq done
  BY ONLY <1>3, DispatchInv, ZenonT(60) DEF DispatchInv, PoolInv
<1>5. ASSUME NEW r \in Req, session[r] # NONE, From[r] \in Accepted PROVE r \in done
  <2>1. reader[From[r]] # "send"
    BY ONLY <1>5, \A c \in Accepted : reader[c] = "closed"
  <2>2. r \in Handed
    BY ONLY DispatchInv, <1>5, <2>1, ZenonT(60) DEF DispatchInv, SessionInv
  <2> QED
    BY <2>2, <1>4
<1> QED
  BY ONLY <1>5, ZenonT(60)

(***************************************************************************)
(* A handler finds its database released only when its own connection is   *)
(* closed, and it has not answered yet.                                    *)
(***************************************************************************)
LEMMA BreaksClosed ==
  ASSUME PTypeOK, DispatchInv, ProcessInv, NEW g \in Goroutine, Breaks(g)
  PROVE  /\ task[g] \in Req /\ reader[From[task[g]]] = "closed"
         /\ rsp[task[g]] = {} /\ rsp' = rsp /\ reader' = reader
<1>1. /\ phase[g] = "process" /\ "db" \notin up /\ ~gate
      /\ rsp' = rsp /\ reader' = reader
  BY ONLY Breaks(g), ZenonT(60) DEF Breaks, RpcHandle, rvars
<1>2. task[g] \in Sent
  BY <1>1, PoolSets DEF DispatchInv, Running, Handed
<1>3. rsp[task[g]] = {}
  BY ONLY <1>1, DispatchInv, g \in Goroutine DEF DispatchInv, RspInv
<1>4. PICK i \in 1..sentTo(From[task[g]]) : arrived[From[task[g]]][i] = task[g]
  BY ONLY <1>2, ZenonT(60) DEF Sent
<1>5. task[g] \in Req /\ From[task[g]] \in Conn
  BY ONLY <1>2, DispatchAssumption DEF Sent
<1>6. i \in 1..nArrived(From[task[g]])
  <2>1. /\ sentTo(From[task[g]]) \in Nat
        /\ sentTo(From[task[g]]) <= nArrived(From[task[g]])
        /\ nArrived(From[task[g]]) \in Nat
    BY <1>5, SentBound, Lengths DEF PTypeOK, DispatchInv
  <2> QED
    BY ONLY <2>1, <1>4
<1>7. /\ (arrived[From[task[g]]][i] \in OfGate) = gate
      /\ main = "start" => gate
  BY ONLY ProcessInv, <1>5, <1>6, ZenonT(60) DEF ProcessInv, nArrived
<1>8. task[g] \notin OfGate /\ main # "start"
  BY ONLY <1>1, <1>4, <1>7, ZenonT(60)
<1>9. From[task[g]] \in Accepted
  BY ONLY <1>5, <1>8, ProcessAssumption, ZenonT(60) DEF Accepted
<1>10. Stopping(1)
  BY ONLY <1>1, <1>8, ProcessInv, ZenonT(60) DEF ProcessInv
<1>11. reader[From[task[g]]] = "closed"
  BY ONLY <1>9, <1>10, ProcessInv, ZenonT(60) DEF ProcessInv
<1> QED
  BY ONLY <1>1, <1>3, <1>5, <1>11

(***************************************************************************)
(* The verification of clients.                                            *)
(***************************************************************************)
LEMMA VerifiedNext ==
  ASSUME NEW c, sentTo(c) \in Nat
  PROVE  Verified(c, sentTo(c) + 1 + 1) <=>
            Verified(c, sentTo(c) + 1) \/ arrived[c][sentTo(c) + 1] \in KeyOk
<1>1. 1..((sentTo(c) + 1 + 1) - 1) = (1..((sentTo(c) + 1) - 1)) \cup {sentTo(c) + 1}
  BY SMTT(30)
<1> QED
  BY ONLY <1>1, ZenonT(60) DEF Verified

(***************************************************************************)
(* A packet passes the reader of c, or is refused.                         *)
(***************************************************************************)
LEMMA VerifyMove ==
  ASSUME PTypeOK, DispatchInv, VerifyInv, NEW c \in Conn, reader[c] \in {"decode", "send"},
         NEW h, h = Head(batch[c]), arrived' = arrived,
         gate' = gate, client' = client, exit' = exit,
         \A d \in Conn \ {c} : sentTo(d)' = sentTo(d) /\ state'[d] = state[d],
         sentTo(c)' \in {sentTo(c), sentTo(c) + 1},
         c \in Accepted => (state'[c] = "ok" <=>
             state[c] = "ok" \/ (sentTo(c)' = sentTo(c) + 1 /\ h \in KeyOk)),
         \A r \in Req \ {h} : session'[r] = session[r],
         session'[h] = session[h] \/ (c \in Accepted /\ h \notin Vertify => state[c] = "ok"),
         refused' = refused
         \/ (refused' = refused \cup {h} /\ c \in Accepted /\ state[c] # "ok")
  PROVE  VerifyInv'
<1>1. /\ \A d \in Conn : StreamInv(d)
      /\ TypeOK /\ Accepted \subseteq Conn
  BY DEF DispatchInv, PTypeOK, Accepted
<1>2. /\ sentTo(c) \in Nat /\ sentTo(c) + 1 \in 1..Len(arrived[c])
      /\ h = arrived[c][sentTo(c) + 1] /\ h \in Req /\ From[h] = c
  BY <1>1, FirstPacket DEF nArrived
<1>3. \A d, j : Verified(d, j)' <=> Verified(d, j)
  BY ONLY arrived' = arrived, ZenonT(60) DEF Verified
<1>4. ASSUME NEW d \in Accepted PROVE StateInv(d)'
  <2>1. StateInv(d) /\ d \in Conn
    BY ONLY VerifyInv, <1>1, d \in Accepted, ZenonT(60) DEF VerifyInv
  <2>2. CASE d # c
    BY ONLY <2>1, <2>2, <1>3, client' = client, exit' = exit,
       \A e \in Conn \ {c} : sentTo(e)' = sentTo(e) /\ state'[e] = state[e], ZenonT(60) DEF StateInv
  <2>3. CASE d = c
    <3>1. Verified(c, sentTo(c) + 1 + 1) <=> Verified(c, sentTo(c) + 1) \/ h \in KeyOk
      BY ONLY <1>2, VerifiedNext
    <3>2. CASE sentTo(c)' = sentTo(c)
      <4>1. sentTo(c)' # sentTo(c) + 1
        BY ONLY <1>2, <3>2
      <4>2. state'[c] = "ok" <=> state[c] = "ok"
        BY ONLY <2>3, <4>1, d \in Accepted, c \in Accepted => (state'[c] = "ok" <=>
             state[c] = "ok" \/ (sentTo(c)' = sentTo(c) + 1 /\ h \in KeyOk)), ZenonT(60)
      <4>3. Verified(c, sentTo(c) + 1)' <=> Verified(c, sentTo(c) + 1)
        BY ONLY <1>3, <3>2, ZenonT(60)
      <4> QED
        BY ONLY <2>1, <2>3, <4>2, <4>3, client' = client, exit' = exit, ZenonT(60) DEF StateInv
    <3>3. CASE sentTo(c)' = sentTo(c) + 1
      <4>1. state'[c] = "ok" <=> state[c] = "ok" \/ h \in KeyOk
        BY ONLY <2>3, <3>3, d \in Accepted, c \in Accepted => (state'[c] = "ok" <=>
             state[c] = "ok" \/ (sentTo(c)' = sentTo(c) + 1 /\ h \in KeyOk)), ZenonT(60)
      <4>2. Verified(c, sentTo(c) + 1)' <=> Verified(c, sentTo(c) + 1) \/ h \in KeyOk
        BY ONLY <1>3, <3>1, <3>3, ZenonT(60)
      <4> QED
        BY ONLY <2>1, <2>3, <4>1, <4>2, client' = client, exit' = exit, ZenonT(60) DEF StateInv
    <3> QED
      BY ONLY <3>2, <3>3, sentTo(c)' \in {sentTo(c), sentTo(c) + 1}
  <2> QED
    BY ONLY <2>2, <2>3
<1>5. c \in Accepted /\ state[c] # "ok" => exit \/ (client /\ ~Verified(c, sentTo(c) + 1))
  BY ONLY VerifyInv, ZenonT(60) DEF VerifyInv, StateInv
<1>6. client /\ c \in Accepted /\ state[c] = "ok" => Verified(c, sentTo(c) + 1)
  BY ONLY VerifyInv, ZenonT(60) DEF VerifyInv, StateInv
<1>7. ASSUME NEW d \in Conn, NEW j \in 1..Len(arrived[d])
      PROVE  CheckInv(d, arrived[d][j], Verified(d, j))'
  <2>1. CheckInv(d, arrived[d][j], Verified(d, j))
    BY ONLY VerifyInv, d \in Conn, j \in 1..Len(arrived[d]), ZenonT(60) DEF VerifyInv
  <2>2. arrived[d][j] \in Req
    BY <1>1, Lengths, Elements
  <2>3. CASE arrived[d][j] # h
    <3>1. session'[arrived[d][j]] = session[arrived[d][j]]
      BY ONLY <2>2, <2>3, \A r \in Req \ {h} : session'[r] = session[r], ZenonT(60)
    <3>2. arrived[d][j] \in refused' => arrived[d][j] \in refused
      BY ONLY <2>3, refused' = refused
         \/ (refused' = refused \cup {h} /\ c \in Accepted /\ state[c] # "ok"), ZenonT(60)
    <3> QED
      BY ONLY <1>3, <2>1, <3>1, <3>2, arrived' = arrived, client' = client, exit' = exit,
         ZenonT(60) DEF CheckInv
  <2>4. CASE arrived[d][j] = h
    <3>1. d = c /\ j = sentTo(c) + 1
      BY ONLY <1>1, <1>2, <2>4, d \in Conn, j \in 1..Len(arrived[d]), SMTT(60) DEF StreamInv, nArrived
    <3>2. CheckInv(c, h, Verified(c, sentTo(c) + 1))
      BY ONLY <2>1, <2>4, <3>1
    <3>3. /\ session'[h] # NONE /\ client /\ c \in Accepted /\ h \notin Vertify
             => Verified(c, sentTo(c) + 1)
          /\ h \in refused' /\ ~exit => client /\ ~Verified(c, sentTo(c) + 1)
      <4>1. /\ session[h] # NONE /\ client /\ c \in Accepted /\ h \notin Vertify
               => Verified(c, sentTo(c) + 1)
            /\ h \in refused /\ ~exit => client /\ ~Verified(c, sentTo(c) + 1)
        BY ONLY <3>2, ZenonT(60) DEF CheckInv
      <4>2. \/ session'[h] = session[h]
            \/ c \in Accepted /\ h \notin Vertify => state[c] = "ok"
        OBVIOUS
      <4>3. h \in refused' => h \in refused \/ (c \in Accepted /\ state[c] # "ok")
        BY ONLY refused' = refused
           \/ (refused' = refused \cup {h} /\ c \in Accepted /\ state[c] # "ok"), ZenonT(60)
      <4> QED
        BY ONLY <4>1, <4>2, <4>3, <1>5, <1>6, ZenonT(60)
    <3>4. Verified(c, sentTo(c) + 1) <=> Verified(d, j)'
      BY ONLY <1>3, <3>1, ZenonT(60)
    <3> QED
      BY ONLY <2>4, <3>1, <3>3, <3>4, arrived' = arrived, client' = client, exit' = exit,
         ZenonT(60) DEF CheckInv
  <2> QED
    BY ONLY <2>3, <2>4
<1>8. ASSUME ~client', ~exit' PROVE refused' = {} /\ \A d \in Accepted : state'[d] = "ok"
  <2>1. refused = {} /\ \A d \in Accepted : state[d] = "ok"
    BY ONLY VerifyInv, <1>8, client' = client, exit' = exit, ZenonT(60) DEF VerifyInv
  <2>2. refused' = {}
    BY ONLY <2>1, refused' = refused
       \/ (refused' = refused \cup {h} /\ c \in Accepted /\ state[c] # "ok"), ZenonT(60)
  <2>3. \A d \in Accepted : state'[d] = "ok"
    BY <2>1, <1>1
  <2> QED
    BY ONLY <2>2, <2>3
<1>9. client' => gate'
  BY ONLY VerifyInv, client' = client, gate' = gate, ZenonT(60) DEF VerifyInv
<1> QED
  BY ONLY <1>4, <1>7, <1>8, <1>9, arrived' = arrived, ZenonT(60) DEF VerifyInv

LEMMA VerifyPasses ==
  ASSUME PTypeOK, DispatchInv, VerifyInv, NEW c \in Conn, Passes(c)
  PROVE  VerifyInv'
<1> DEFINE h == Head(batch[c])
<1>1. /\ \A d \in Conn : StreamInv(d)
      /\ TypeOK /\ state \in [Conn -> {"init", "ok", "exit"}] /\ session \in [Req -> Req \cup {NONE}]
  BY DEF DispatchInv, PTypeOK, TypeOK
<1>2. /\ reader[c] \in {"decode", "send"} /\ arrived' = arrived
      /\ gate' = gate /\ client' = client /\ exit' = exit
  BY ONLY Passes(c), ZenonT(60) DEF Passes, PRefuse, Refuse, DecodeSync, Decode, ProduceTask,
     ProduceTaskSeparate
<1>3. h \in Req /\ sentTo(c) \in Nat /\ sentTo(c) # sentTo(c) + 1 /\ (reader[c] = "send" => Kind[h] # "sync")
  <2>1. h \in Req /\ sentTo(c) \in Nat /\ h = batch[c][1]
    BY <1>1, <1>2, FirstPacket
  <2> QED
    BY <1>1, <2>1 DEF StreamInv
<1>4. Kind[h] # "sync" => h \notin Vertify /\ h \notin KeyOk
  BY ONLY <1>3, ProcessAssumption, ZenonT(60)
<1>5. /\ c \in Accepted <=> c \notin Dialled
      /\ SetState(c) = "ok" <=> state[c] = "ok" \/ (h \in KeyOk /\ c \in Accepted)
      /\ PreCheck(c) <=> (c \in Accepted /\ h \notin Vertify => state[c] = "ok")
  BY ONLY c \in Conn, ZenonT(60) DEF Accepted, SetState, PreCheck
<1>6. KeyOk \subseteq Vertify
  BY ProcessAssumption
<1>10. h = Head(batch[c])
  OBVIOUS
<1> HIDE DEF h
<1>7. CASE PRefuse(c)
  <2>1. /\ Refuse(c) /\ ~PreCheck(c) /\ state' = [state EXCEPT ![c] = "exit"]
        /\ NextPacket(c) /\ wire' = wire /\ cur' = cur /\ session' = session
        /\ refused' = refused \cup {h}
    BY ONLY <1>7, ZenonT(60) DEF PRefuse, Refuse, h
  <2>2. /\ \A d \in Conn \ {c} : sentTo(d)' = sentTo(d)
        /\ sentTo(c)' = sentTo(c) + 1
    BY <1>1, <1>2, <2>1, StreamNext
  <2>3. state'[c] = "exit" /\ \A d \in Conn \ {c} : state'[d] = state[d]
    BY ONLY <1>1, <2>1, c \in Conn, ExceptAt
  <2>4. c \in Accepted /\ h \notin Vertify /\ state[c] # "ok"
    BY ONLY <1>5, <2>1, ZenonT(60)
  <2> QED
    BY ONLY PTypeOK, DispatchInv, VerifyInv, c \in Conn, <1>10, <1>2, <1>6, <2>1, <2>2, <2>3, <2>4,
       VerifyMove
<1>8. CASE ProduceTaskSeparate(c) /\ state' = state
  <2>1. /\ reader[c] = "send" /\ NextPacket(c) /\ wire' = wire /\ cur' = cur
        /\ session' = session /\ refused' = refused
    BY ONLY <1>8, ZenonT(60) DEF ProduceTaskSeparate, hvars
  <2>2. /\ \A d \in Conn \ {c} : sentTo(d)' = sentTo(d)
        /\ sentTo(c)' = sentTo(c) + 1
    BY <1>1, <1>2, <2>1, StreamNext
  <2>3. h \notin KeyOk
    BY ONLY <1>3, <1>4, <2>1
  <2> QED
    BY ONLY PTypeOK, DispatchInv, VerifyInv, c \in Conn, <1>10, <1>2, <1>8, <2>1, <2>2, <2>3,
       VerifyMove
<1>9. ASSUME reader[c] = "decode" => PreCheck(c), state' = [state EXCEPT ![c] = SetState(c)],
             DecodeSync(c) \/ Decode(c) \/ ProduceTask(c)
      PROVE  VerifyInv'
  <2>1. state'[c] = SetState(c) /\ \A d \in Conn \ {c} : state'[d] = state[d]
    BY ONLY <1>1, <1>9, c \in Conn, ExceptAt
  <2>2. refused' = refused
    BY ONLY <1>9, ZenonT(60) DEF DecodeSync, Decode, ProduceTask, hvars
  <2>3. CASE Decode(c)
    <3>1. /\ reader[c] = "decode" /\ Kind[h] # "sync"
          /\ session' = [session EXCEPT ![h] = cur[c]]
      BY ONLY <2>3, ZenonT(60) DEF Decode, h
    <3>2. \A d \in Conn : sentTo(d)' = sentTo(d)
      BY <1>1, <2>3, StreamReader
    <3>3. \A r \in Req \ {h} : session'[r] = session[r]
      BY ONLY <1>1, <1>3, <3>1, ExceptAt
    <3>4. c \in Accepted /\ h \notin Vertify => state[c] = "ok"
      BY ONLY <1>5, <1>9, <3>1, ZenonT(60)
    <3>5. state'[c] = "ok" <=> state[c] = "ok"
      BY ONLY <1>4, <1>5, <2>1, <3>1, ZenonT(60)
    <3> QED
      BY ONLY PTypeOK, DispatchInv, VerifyInv, c \in Conn, <1>10, <1>2, <1>3, <2>1, <2>2, <3>2, <3>3,
         <3>4, <3>5, VerifyMove
  <2>4. ASSUME DecodeSync(c) \/ ProduceTask(c) PROVE VerifyInv'
    <3>1. NextPacket(c) /\ wire' = wire /\ cur' = cur
      BY ONLY <2>4, ZenonT(60) DEF DecodeSync, ProduceTask
    <3>2. /\ \A d \in Conn \ {c} : sentTo(d)' = sentTo(d)
          /\ sentTo(c)' = sentTo(c) + 1
      BY <1>1, <1>2, <3>1, StreamNext
    <3>3. /\ \A r \in Req \ {h} : session'[r] = session[r]
          /\ session'[h] = session[h] \/ (c \in Accepted /\ h \notin Vertify => state[c] = "ok")
      <4>1. CASE DecodeSync(c)
        <5>1. reader[c] = "decode" /\ session' = [session EXCEPT ![h] = cur[c]]
          BY ONLY <4>1, ZenonT(60) DEF DecodeSync, h
        <5>2. \A r \in Req \ {h} : session'[r] = session[r]
          BY ONLY <1>1, <1>3, <5>1, ExceptAt
        <5> QED
          BY ONLY <1>5, <1>9, <5>1, <5>2, ZenonT(60)
      <4>2. CASE ProduceTask(c)
        BY ONLY <4>2, ZenonT(60) DEF ProduceTask
      <4> QED
        BY ONLY <2>4, <4>1, <4>2
    <3>4. c \in Accepted => (state'[c] = "ok" <=> state[c] = "ok" \/ h \in KeyOk)
      BY ONLY <1>5, <2>1, ZenonT(60)
    <3> QED
      BY ONLY PTypeOK, DispatchInv, VerifyInv, c \in Conn, <1>10, <1>2, <2>1, <2>2, <3>2, <3>3, <3>4,
         VerifyMove
  <2> QED
    BY ONLY <1>9, <2>3, <2>4, ZenonT(60)
<1> QED
  BY ONLY Passes(c), <1>7, <1>8, <1>9, ZenonT(60) DEF Passes

(***************************************************************************)
(* A request that arrives has no Session and was not refused.              *)
(***************************************************************************)
LEMMA VerifyArrives ==
  ASSUME PTypeOK, DispatchInv, VerifyInv, NEW r \in Req, PArrive(r)
  PROVE  VerifyInv'
<1>1. /\ \A d \in Conn : StreamInv(d)
      /\ TypeOK /\ Accepted \subseteq Conn /\ SessionInv /\ refused \subseteq Sent
  BY DEF DispatchInv, PTypeOK, Accepted
<1>2. /\ Arrive(r) /\ r \notin Range(arrived[From[r]])
      /\ arrived' = [arrived EXCEPT ![From[r]] = Append(@, r)]
      /\ session' = session /\ refused' = refused /\ UNCHANGED <<gate, client, state, exit>>
  BY ONLY PArrive(r), ZenonT(60) DEF PArrive, Arrive, svars, hvars
<1>3. /\ \A d \in Conn : sentTo(d)' = sentTo(d)
      /\ \A d \in Conn : \A i \in 1..nArrived(d) : arrived'[d][i] = arrived[d][i]
  BY <1>1, <1>2, StreamArrive
<1>4. \A d \in Conn : sentTo(d) \in Nat /\ nArrived(d) \in Nat /\ sentTo(d) <= nArrived(d)
  BY <1>1, SentBound, Lengths
<1>5. ASSUME NEW d \in Conn, NEW j \in 1..(nArrived(d) + 1) PROVE Verified(d, j)' <=> Verified(d, j)
  <2>1. \A i \in 1..(j - 1) : arrived'[d][i] = arrived[d][i]
    <3>1. nArrived(d) \in Nat
      BY ONLY <1>4, d \in Conn
    <3>2. \A i \in 1..(j - 1) : i \in 1..nArrived(d)
      BY ONLY <3>1, j \in 1..(nArrived(d) + 1), SMTT(30)
    <3> QED
      BY ONLY <1>3, <3>2, d \in Conn, ZenonT(60)
  <2> QED
    BY ONLY <2>1, ZenonT(60) DEF Verified
<1>6. r \notin Sent /\ r \notin refused /\ session[r] = NONE
  <2>1. From[r] \in Conn
    BY DispatchAssumption
  <2>2. \A i \in 1..nArrived(From[r]) : arrived[From[r]][i] # r
    BY ONLY <1>1, <1>2, <2>1, Lengths, Elements, SMTT(60) DEF Range, nArrived
  <2>3. r \notin Sent
    <3>1. \A i \in 1..sentTo(From[r]) : i \in 1..nArrived(From[r])
      BY ONLY <1>4, <2>1
    <3> QED
      BY ONLY <2>2, <3>1, ZenonT(60) DEF Sent
  <2>4. reader[From[r]] = "send" => batch[From[r]][1] # r
    <3>1. ASSUME reader[From[r]] = "send" PROVE batch[From[r]][1] # r
      <4>1. /\ sentTo(From[r]) + 1 \in 1..nArrived(From[r])
            /\ batch[From[r]][1] = arrived[From[r]][sentTo(From[r]) + 1]
        BY <1>1, <2>1, <3>1, FirstPacket
      <4> QED
        BY ONLY <2>2, <4>1
    <3> QED
      BY ONLY <3>1
  <2> QED
    BY ONLY <1>1, <2>3, <2>4, r \in Req, ZenonT(60) DEF SessionInv, Handed
<1>7. ASSUME NEW d \in Accepted PROVE StateInv(d)'
  <2>1. StateInv(d) /\ d \in Conn
    BY ONLY VerifyInv, <1>1, d \in Accepted, ZenonT(60) DEF VerifyInv
  <2>2. sentTo(d) + 1 \in 1..(nArrived(d) + 1)
    BY ONLY <1>4, <2>1
  <2>3. Verified(d, sentTo(d) + 1)' <=> Verified(d, sentTo(d) + 1)
    BY ONLY <1>3, <1>5, <2>1, <2>2, ZenonT(60) DEF Verified
  <2> QED
    BY ONLY <1>2, <2>1, <2>3, ZenonT(60) DEF StateInv
<1>8. ASSUME NEW d \in Conn, NEW j \in 1..Len(arrived'[d])
      PROVE  CheckInv(d, arrived[d][j], Verified(d, j))'
  <2>1. From[r] \in Conn /\ arrived \in [Conn -> Seq(Req)]
    BY DispatchAssumption, <1>1 DEF TypeOK
  <2>2. /\ arrived'[From[r]] = Append(arrived[From[r]], r)
        /\ \A c \in Conn \ {From[r]} : arrived'[c] = arrived[c]
    BY ONLY <1>2, <2>1, ExceptAt, SMTT(60)
  <2>3. \/ arrived'[d][j] = r
        \/ j \in 1..nArrived(d) /\ arrived'[d][j] = arrived[d][j]
    <3>1. CASE d # From[r]
      BY ONLY <2>2, <3>1, d \in Conn, j \in 1..Len(arrived'[d]) DEF nArrived
    <3>2. CASE d = From[r]
      <4>1. arrived[d] \in Seq(Req) /\ arrived'[d] = Append(arrived[d], r)
        BY ONLY <2>1, <2>2, <3>2
      <4> QED
        BY ONLY <4>1, j \in 1..Len(arrived'[d]), r \in Req, Appended, Elements, SMTT(60) DEF nArrived
    <3> QED
      BY ONLY <3>1, <3>2
  <2>4. CASE arrived'[d][j] = r
    <3>1. session'[r] = NONE /\ r \notin refused'
      BY ONLY <1>2, <1>6, ZenonT(60)
    <3> QED
      BY ONLY <2>4, <3>1, ZenonT(60) DEF CheckInv
  <2>5. CASE j \in 1..nArrived(d) /\ arrived'[d][j] = arrived[d][j]
    <3>1. CheckInv(d, arrived[d][j], Verified(d, j))
      BY ONLY VerifyInv, <2>5, d \in Conn, ZenonT(60) DEF VerifyInv, nArrived
    <3>2. j \in 1..(nArrived(d) + 1)
      BY ONLY <1>4, <2>5, d \in Conn
    <3>3. Verified(d, j)' <=> Verified(d, j)
      BY ONLY <1>5, <3>2, d \in Conn, ZenonT(60)
    <3> QED
      BY ONLY <1>2, <2>5, <3>1, <3>3 DEF CheckInv
  <2> QED
    BY ONLY <2>3, <2>4, <2>5
<1>9. (client' => gate') /\ (~client' /\ ~exit' => refused' = {} /\ \A d \in Accepted : state'[d] = "ok")
  BY ONLY VerifyInv, <1>2, ZenonT(60) DEF VerifyInv
<1> QED
  BY ONLY <1>7, <1>8, <1>9, ZenonT(60) DEF VerifyInv

LEMMA VerifyStep ==
  ASSUME PTypeOK, DispatchInv, VerifyInv, [PNext]_allvars
  PROVE  VerifyInv'
<1>1. gate' = gate /\ client' = client /\ exit' \in {exit, TRUE}
  BY ONLY Goroutines, [PNext]_allvars, ZenonT(60)
<1>2. ASSUME arrived' = arrived, session' = session, refused' = refused,
             \A d \in Conn : sentTo(d)' = sentTo(d),
             state' = state \/ (exit' = TRUE /\ \A d \in Accepted : state'[d] = "exit")
      PROVE  VerifyInv'
  <2>1. \A d, j : Verified(d, j)' <=> Verified(d, j)
    BY ONLY <1>2, ZenonT(60) DEF Verified
  <2>2. ASSUME NEW d \in Accepted PROVE StateInv(d)'
    <3>1. StateInv(d) /\ sentTo(d)' = sentTo(d)
      BY ONLY VerifyInv, <1>2, d \in Accepted, ZenonT(60) DEF VerifyInv, Accepted
    <3>2. "exit" # "ok"
      OBVIOUS
    <3> QED
      BY ONLY <1>1, <1>2, <2>1, <3>1, <3>2, d \in Accepted, ZenonT(60) DEF StateInv
  <2>3. ASSUME NEW d \in Conn, NEW j \in 1..Len(arrived[d])
        PROVE  CheckInv(d, arrived[d][j], Verified(d, j))'
    <3>1. CheckInv(d, arrived[d][j], Verified(d, j))
      BY ONLY VerifyInv, d \in Conn, j \in 1..Len(arrived[d]), ZenonT(60) DEF VerifyInv
    <3> QED
      BY ONLY <1>1, <1>2, <2>1, <3>1, ZenonT(60) DEF CheckInv
  <2>4. /\ client' => gate'
        /\ ~client' /\ ~exit' => refused' = {} /\ \A d \in Accepted : state'[d] = "ok"
    BY ONLY VerifyInv, <1>1, <1>2, ZenonT(60) DEF VerifyInv
  <2> QED
    BY ONLY <1>2, <2>2, <2>3, <2>4, ZenonT(60) DEF VerifyInv
<1>3. ASSUME batch' = batch, wire' = wire, arrived' = arrived
      PROVE  \A d \in Conn : sentTo(d)' = sentTo(d)
  BY ONLY <1>3, ZenonT(60) DEF sentTo, nArrived, nBatch, nWire
<1>4. CASE Stays
  <2>1. ASSUME NEW c \in Conn, HandleRead(c) PROVE \A d \in Conn : sentTo(d)' = sentTo(d)
    BY <2>1, StreamRead DEF DispatchInv, PTypeOK
  <2> QED
    BY ONLY <1>2, <1>3, <1>4, <2>1, ZenonT(60) DEF Stays
<1>5. CASE StopReaders
  <2>1. /\ exit' = TRUE /\ arrived' = arrived /\ session' = session /\ refused' = refused
        /\ batch' = batch /\ wire' = wire
        /\ state' = [d \in Conn |-> IF d \in Accepted THEN "exit" ELSE state[d]]
    BY ONLY <1>5, ZenonT(60) DEF StopReaders, vars
  <2>2. \A d \in Accepted : state'[d] = "exit"
    BY ONLY <2>1 DEF Accepted
  <2> QED
    BY ONLY <1>2, <1>3, <2>1, <2>2, ZenonT(60)
<1> QED
  BY ONLY PTypeOK, DispatchInv, VerifyInv, [PNext]_allvars, Moves, <1>4, <1>5, VerifyArrives,
     VerifyPasses, ZenonT(60)

(***************************************************************************)
(* The invariant of the process.                                           *)
(***************************************************************************)
LEMMA ProcessStep ==
  ASSUME PTypeOK, DispatchInv, ProcessInv, size = 0 => InPool = {}, [PNext]_allvars
  PROVE  ProcessInv'
<1>1. /\ gate' = gate
      /\ \/ UNCHANGED <<main, step, up>>
         \/ vars' = vars /\ (Start \/ Signal \/ StopReturn)
      /\ broken' = broken \/ \E g \in Goroutine : Breaks(g)
      /\ arrived' = arrived \/ \E r \in Req : PArrive(r)
  BY ONLY Goroutines, [PNext]_allvars, ZenonT(60)
<1>2. TypeOK /\ Control
  BY ONLY PTypeOK, ProcessInv, ControlInv, ZenonT(60) DEF PTypeOK
<1>3. /\ Control'
      /\ main' = "start" => main = "start"
      /\ Stopping(1)' => Stopping(1) \/ (StopReturn /\ step = 1)
      /\ Stopping(4)' => Stopping(4) \/ (StopReturn /\ step = 4)
      /\ Stopping(4) => Stopping(1)
  BY ONLY <1>1, <1>2, ControlStep, ZenonT(60)
<1>4. /\ \A c \in Conn : reader[c] = "closed" => reader'[c] = "closed"
      /\ \A r \in Req : reader[From[r]] = "closed" =>
            rsp'[r] = rsp[r] /\ (session'[r] # NONE => session[r] # NONE)
      /\ done \subseteq done'
  BY ONLY <1>2, DispatchInv, [PNext]_allvars, DispatchStep, Closed, ZenonT(60)
<1>5. ForThis'
  <2>1. \A r \in Req : PArrive(r) => main' = main
    BY ONLY TRUE, ZenonT(60) DEF PArrive, svars
  <2>2. ForThis
    BY ONLY ProcessInv, ZenonT(60) DEF ProcessInv, ForThis
  <2> QED
    BY ONLY PTypeOK, DispatchInv, <2>1, <2>2, <1>1, <1>3, ForThisStep, ZenonT(60)
<1>6. StopReturn => /\ step = 1 => \A c \in Accepted : reader[c] = "closed"
                    /\ step = 4 => size = 0
                    /\ main = "stop"
                    /\ reader' = reader /\ session' = session /\ done' = done
  BY ONLY Orders, ZenonT(60) DEF StopReturn, vars
<1>7. ASSUME Stopping(1)', NEW c \in Accepted PROVE reader'[c] = "closed"
  <2>1. c \in Conn
    BY DEF Accepted
  <2>2. reader[c] = "closed"
    BY ONLY <1>7, <1>3, <1>6, ProcessInv, ZenonT(60) DEF ProcessInv
  <2> QED
    BY ONLY <1>4, <2>1, <2>2
<1>8. ASSUME Stopping(4)', NEW r \in Req, session'[r] # NONE, From[r] \in Accepted
      PROVE  r \in done'
  <2>1. CASE Stopping(4)
    <3>1. reader[From[r]] = "closed"
      BY ONLY <1>3, <1>8, <2>1, ProcessInv, ZenonT(60) DEF ProcessInv
    <3>2. session[r] # NONE
      BY ONLY <1>4, <1>8, <3>1, ZenonT(60)
    <3>3. r \in done
      BY ONLY <1>8, <2>1, <3>2, ProcessInv, ZenonT(60) DEF ProcessInv
    <3> QED
      BY ONLY <1>4, <3>3, ZenonT(60)
  <2>2. CASE StopReturn /\ step = 4
    <3>1. Stopping(1)
      BY ONLY <1>6, <2>2 DEF Stopping
    <3>2. \A c \in Accepted : reader[c] = "closed"
      BY ONLY <3>1, ProcessInv, ZenonT(60) DEF ProcessInv
    <3>3. \A s \in Req : session[s] # NONE /\ From[s] \in Accepted => s \in done
      BY ONLY <1>2, <1>6, <2>2, <3>2, DispatchInv, size = 0 => InPool = {}, Drained, ZenonT(60)
    <3> QED
      BY ONLY <1>6, <1>8, <2>2, <3>3, ZenonT(60)
  <2> QED
    BY ONLY <1>3, <1>8, <2>1, <2>2, ZenonT(60)
<1>9. ASSUME NEW r \in broken' PROVE rsp'[r] = {} /\ reader'[From[r]] = "closed"
  <2>1. CASE r \in broken
    <3>1. rsp[r] = {} /\ reader[From[r]] = "closed"
      BY ONLY <2>1, ProcessInv, ZenonT(60) DEF ProcessInv
    <3>2. r \in Req /\ From[r] \in Conn
      BY <2>1, DispatchAssumption DEF PTypeOK
    <3> QED
      BY ONLY <1>4, <3>1, <3>2, ZenonT(60)
  <2>2. CASE r \notin broken
    <3>1. PICK g \in Goroutine : Breaks(g)
      BY ONLY <1>1, <1>9, <2>2, ZenonT(60)
    <3>2. r = task[g]
      BY ONLY <1>9, <2>2, <3>1, ZenonT(60) DEF Breaks
    <3>3. rsp[r] = {} /\ reader[From[r]] = "closed" /\ rsp' = rsp /\ reader' = reader
      BY ONLY <3>1, <3>2, g \in Goroutine, PTypeOK, DispatchInv, ProcessInv, BreaksClosed,
         ZenonT(60)
    <3> QED
      BY ONLY <3>3
  <2> QED
    BY <2>1, <2>2
<1>10. VerifyInv'
  BY ONLY PTypeOK, DispatchInv, ProcessInv, [PNext]_allvars, VerifyStep, ZenonT(60) DEF ProcessInv
<1> QED
  BY ONLY <1>3, <1>5, <1>7, <1>8, <1>9, <1>10, ZenonT(60) DEF ProcessInv, Control, ForThis

-----------------------------------------------------------------------------
(***************************************************************************)
(* The size of the pool, with what the library proves of finite sets.      *)
(***************************************************************************)
INSTANCE FiniteSetTheorems

LEMMA SizeStep ==
  ASSUME TypeOK, DispatchInv, SizeCounts, [DispatchNext]_vars
  PROVE  SizeCounts'
<1>1. IsFiniteSet(InPool)
  BY InPoolReq, FS_Subset, DispatchAssumption
<1>2. CASE InPool' = InPool /\ size' = size
  BY <1>2 DEF SizeCounts
<1>3. ASSUME NEW h \in Req \ InPool, InPool' = InPool \cup {h}, size' = size + 1
      PROVE  SizeCounts'
  BY <1>1, <1>3, FS_AddElement DEF SizeCounts
<1>4. ASSUME NEW h \in InPool, InPool' = InPool \ {h}, size' = size - 1
      PROVE  SizeCounts'
  BY <1>1, <1>4, FS_RemoveElement DEF SizeCounts
<1> QED
  BY <1>2, <1>3, <1>4, InPoolStep

LEMMA NoneLeft ==
  ASSUME TypeOK, DispatchInv, SizeCounts
  PROVE  size = 0 => InPool = {}
<1>1. IsFiniteSet(InPool)
  BY InPoolReq, FS_Subset, DispatchAssumption
<1> QED
  BY ONLY <1>1, SizeCounts, FS_EmptySet, ZenonT(60) DEF SizeCounts

-----------------------------------------------------------------------------
IInv == PTypeOK /\ DispatchInv /\ SizeCounts /\ ProcessInv

LEMMA IInvInit == PInit => IInv
<1> SUFFICES ASSUME PInit PROVE IInv
  OBVIOUS
<1>1. Init /\ TypeOK /\ DispatchInv
  BY TypeInit, InvInit DEF PInit
<1>2. PTypeOK
  <2>1. /\ gate \in BOOLEAN /\ client \in BOOLEAN /\ exit \in BOOLEAN /\ crashed \in BOOLEAN
        /\ main = "start" /\ step = 1 /\ up = {} /\ last = {} /\ broken = {}
    BY ZenonT(60) DEF PInit
  <2>2. step \in 1..6
    BY ONLY <2>1
  <2>3. state \in [Conn -> {"init", "ok", "exit"}]
    BY DEF PInit
  <2> QED
    BY ONLY <1>1, <2>1, <2>2, <2>3, ZenonT(60) DEF PTypeOK
<1>3. SizeCounts
  <2>1. /\ \A c \in Conn : reader[c] # "send"
        /\ \A g \in Goroutine : phase[g] = "idle"
        /\ taskCh = <<>> /\ size = 0
    BY <1>1 DEF Init
  <2>2. Range(taskCh) = {}
    BY <2>1, SMTT(30) DEF Range
  <2>3. InPool = {}
    BY ONLY <2>1, <2>2, ZenonT(60) DEF InPool
  <2> QED
    BY ONLY <2>1, <2>3, FS_EmptySet, ZenonT(60) DEF SizeCounts
<1>4. ProcessInv
  <2>1. \A c \in Conn : arrived[c] = <<>>
    BY <1>1 DEF Init
  <2>2. \A c \in Conn : 1..Len(arrived[c]) = {}
    <3>1. 1..0 = {} /\ Len(<<>>) = 0
      BY ONLY TRUE, SMTT(60)
    <3> QED
      BY ONLY <2>1, <3>1, ZenonT(60)
  <2>3. main = "start" /\ step = 1 /\ broken = {}
    BY DEF PInit
  <2>4. VerifyInv
    <3>1. \A c \in Conn : sentTo(c) = 0
      <4>1. \A c \in Conn : batch[c] = <<>> /\ wire[c] = <<>>
        BY <1>1 DEF Init
      <4>2. Len(<<>>) = 0 /\ 0 - 0 - 0 = 0
        OBVIOUS
      <4> QED
        BY ONLY <2>1, <4>1, <4>2, ZenonT(60) DEF sentTo, nArrived, nBatch, nWire
    <3>2. \A c \in Conn : ~Verified(c, sentTo(c) + 1)
      <4>1. 1..((0 + 1) - 1) = {}
        BY SMTT(30)
      <4> QED
        BY ONLY <3>1, <4>1, ZenonT(60) DEF Verified
    <3>3. /\ client => gate
          /\ state = [c \in Conn |-> IF client THEN "init" ELSE "ok"]
          /\ refused = {} /\ Accepted \subseteq Conn
      BY ZenonT(60) DEF PInit, Init, Accepted
    <3>4. \A c \in Accepted : /\ client => state[c] # "ok"
                              /\ ~client => state[c] = "ok"
      BY ONLY <3>3
    <3> QED
      BY ONLY <2>2, <3>2, <3>3, <3>4, ZenonT(60) DEF VerifyInv, StateInv
  <2> QED
    BY ONLY <2>2, <2>3, <2>4, SMTT(60) DEF ProcessInv, Stopping
<1> QED
  BY <1>1, <1>2, <1>3, <1>4 DEF IInv

LEMMA IInvStep == IInv /\ [PNext]_allvars => IInv'
<1> SUFFICES ASSUME IInv, [PNext]_allvars PROVE IInv'
  OBVIOUS
<1>1. PTypeOK /\ TypeOK /\ DispatchInv /\ SizeCounts /\ ProcessInv
  BY ONLY IInv, ZenonT(60) DEF IInv, PTypeOK
<1>2. [DispatchNext]_vars
  BY ONLY [PNext]_allvars, DispatchStep, SMTT(60)
<1>3. PTypeOK'
  BY ONLY <1>1, [PNext]_allvars, PTypeStep, ZenonT(60)
<1>4. DispatchInv' /\ SizeCounts'
  BY ONLY <1>1, <1>2, InvStep, SizeStep, ZenonT(60)
<1>5. ProcessInv'
  BY ONLY <1>1, [PNext]_allvars, NoneLeft, ProcessStep, ZenonT(60)
<1> QED
  BY ONLY <1>3, <1>4, <1>5, ZenonT(60) DEF IInv

LEMMA Inductive == Spec => []IInv
BY IInvInit, IInvStep, PTL DEF Spec

(***************************************************************************)
(* TaskPool.size counts the accepted tasks, for any number of connections, *)
(* workers and requests.                                                   *)
(***************************************************************************)
THEOREM SizeCountsHolds == Spec => []SizeCounts
<1>1. IInv => SizeCounts
  BY DEF IInv
<1> QED
  BY Inductive, <1>1, PTL

(***************************************************************************)
(* The ordered requests of a connection run one after the other in the     *)
(* order they arrived, however reads cut the stream and workers run.       *)
(***************************************************************************)
THEOREM OrderedInOrderHolds == Spec => []OrderedInOrder
<1>1. IInv => OrderedInOrder
  BY OrderHolds DEF IInv, PTypeOK
<1> QED
  BY Inductive, <1>1, PTL

(***************************************************************************)
(* Nothing of a connection starts before the vertify or login ahead of it  *)
(* is done.                                                                *)
(***************************************************************************)
THEOREM SyncFirstHolds == Spec => []SyncFirst
<1>1. IInv => SyncFirst
  BY OrderHolds DEF IInv, PTypeOK
<1> QED
  BY Inductive, <1>1, PTL

(***************************************************************************)
(* Until Stop, PreCheck refuses just what a client of the client gate      *)
(* sends before a right vertify, for any way that reads cut the stream;    *)
(* and nothing of that is ever run.                                        *)
(***************************************************************************)
THEOREM RefusedIffUnverifiedHolds == Spec => []RefusedIffUnverified
<1>1. IInv => RefusedIffUnverified
  <2> SUFFICES ASSUME IInv, NEW c \in Conn, NEW j \in 1..Len(arrived[c])
               PROVE  /\ /\ arrived[c][j] \in started /\ client /\ c \in Accepted
                         /\ arrived[c][j] \notin Vertify
                         => Verified(c, j)
                      /\ arrived[c][j] \in refused /\ ~exit => client /\ ~Verified(c, j)
    BY ZenonT(60) DEF RefusedIffUnverified
  <2>1. TypeOK /\ DispatchInv /\ VerifyInv
    BY ONLY IInv, ZenonT(60) DEF IInv, PTypeOK, ProcessInv
  <2>2. CheckInv(c, arrived[c][j], Verified(c, j))
    BY ONLY <2>1, c \in Conn, j \in 1..Len(arrived[c]), ZenonT(60) DEF VerifyInv
  <2>3. arrived[c][j] \in started => session[arrived[c][j]] # NONE
    <3>1. SessionInv /\ started \subseteq Handed /\ started \subseteq Req
      BY <2>1, PoolSets DEF DispatchInv, TypeOK
    <3> QED
      BY ONLY <3>1, ZenonT(60) DEF SessionInv
  <2> QED
    BY ONLY <2>2, <2>3, ZenonT(60) DEF CheckInv
<1> QED
  BY Inductive, <1>1, PTL

(***************************************************************************)
(* When the process exits, all that a read of an accepted connection       *)
(* returned is done or was refused.                                        *)
(***************************************************************************)
THEOREM DrainedOnExitHolds == Spec => []DrainedOnExit
<1>1. IInv => DrainedOnExit
  <2> SUFFICES ASSUME IInv, main = "exit", NEW c \in Accepted,
                      NEW i \in 1..(Len(arrived[c]) - Len(wire[c]))
               PROVE  arrived[c][i] \in done \cup refused
    BY ZenonT(60) DEF DrainedOnExit
  <2>1. TypeOK /\ DispatchInv /\ ProcessInv /\ StreamInv(c) /\ SessionInv /\ c \in Conn
    BY ONLY IInv, ZenonT(60) DEF IInv, PTypeOK, DispatchInv, Accepted
  <2>2. Stopping(1) /\ Stopping(4)
    BY ONLY <2>1, main = "exit", SMTT(30) DEF ProcessInv, Stopping
  <2>3. reader[c] = "closed"
    BY ONLY <2>1, <2>2, ZenonT(60) DEF ProcessInv
  <2>4. batch[c] = <<>>
    BY <2>1, <2>3 DEF StreamInv
  <2>5. i \in 1..sentTo(c) /\ i \in 1..nArrived(c)
    <3>1. /\ sentTo(c) = nArrived(c) - nBatch(c) - nWire(c)
          /\ nArrived(c) = Len(arrived[c]) /\ nWire(c) = Len(wire[c]) /\ nBatch(c) = 0
      BY ONLY <2>4 DEF sentTo, nArrived, nWire, nBatch
    <3>2. nArrived(c) \in Nat /\ nWire(c) \in Nat
      BY ONLY <2>1, Lengths, ZenonT(60)
    <3> QED
      BY ONLY <3>1, <3>2, i \in 1..(Len(arrived[c]) - Len(wire[c])), SMTT(30)
  <2>6. arrived[c][i] \in Req /\ From[arrived[c][i]] = c
    BY ONLY <2>1, <2>5, Lengths, Elements, SMTT(60) DEF StreamInv, nArrived
  <2>7. arrived[c][i] \in Sent
    BY ONLY <2>5, <2>6, ZenonT(60) DEF Sent
  <2>8. arrived[c][i] \notin refused => session[arrived[c][i]] # NONE
    BY ONLY <2>1, <2>6, <2>7, ZenonT(60) DEF SessionInv, Handed
  <2> QED
    BY ONLY <2>1, <2>2, <2>6, <2>8, ZenonT(60) DEF ProcessInv
<1> QED
  BY Inductive, <1>1, PTL

(***************************************************************************)
(* No request is answered with success whose own handler set an error or   *)
(* found the database released, whatever the others of its read did.       *)
(***************************************************************************)
THEOREM NoFalseSuccessHolds == Spec => []NoFalseSuccess
<1>1. IInv => NoFalseSuccess
  BY ZenonT(60) DEF IInv, ProcessInv, DispatchInv, FailedInv, NoFalseSuccess
<1> QED
  BY Inductive, <1>1, PTL
=============================================================================
