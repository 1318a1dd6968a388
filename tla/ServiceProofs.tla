---------------------------- MODULE ServiceProofs ---------------------------
(***************************************************************************)
(* Proofs about the way to a service: how it accepts connections           *)
(* (TcpServer, for any number of connections and messages, for gates and   *)
(* for services), how it is called (RpcCall, for any number of calls,      *)
(* workers and lost connections), and how one of its instances is chosen   *)
(* (LoadBalancer, for every set of fewer than 2^16 elements and any number *)
(* of concurrent callers).                                                 *)
(***************************************************************************)
EXTENDS TcpServer, RpcCall, LoadBalancer, WellFoundedInduction, TLAPS

USE ZenonT(5), SMTT(60), SMTT(90)

LEMMA InitInv == Init => Inv
  <1>. SUFFICES ASSUME Init PROVE Inv
    OBVIOUS
  <1>1. inbox \in [Conn -> Seq({"rpc", "vertify"})]
    BY DEF Init
  <1>2. sent \in [Conn -> 0..MaxMsg]
    BY TcpAssumption DEF Init
  <1>4. msg \in [Conn -> Seq({"rpc", "vertify"})] /\ \A k \in Conn : msg[k] = <<>>
    BY DEF Init
  <1>3. TypeOK
    BY <1>1, <1>2, <1>4, ZenonT(60) DEF Init, TypeOK
  <1>. QED
    BY <1>3 DEF Init, Inv, EntryWhileUsed, SettingUp, Stopping, Locked

LEMMA PeerSteps ==
    ASSUME Inv, NEW k \in Conn, Dial(k) \/ Send(k) \/ Hangup(k)
    PROVE  Inv'
  <1>. USE DEF Inv
  <1>1. UNCHANGED <<identity, accept, cur, clients, state, lb, reader, msg, stop, stopper, crashed>>
    BY DEF Dial, Send, Hangup, acc, read
  <1>2. /\ dialled' \subseteq Conn /\ closed' \subseteq dialled'
        /\ inbox' \in [Conn -> Seq({"rpc", "vertify"})]
        /\ sent' \in [Conn -> 0..MaxMsg]
    <2>1. CASE Dial(k)
      BY <2>1 DEF Dial, TypeOK
    <2>2. CASE Hangup(k)
      BY <2>2 DEF Hangup, TypeOK
    <2>3. CASE Send(k)
      <3>1. PICK v \in {"rpc", "vertify"} : inbox' = [inbox EXCEPT ![k] = Append(@, v)]
        BY <2>3, ZenonT(60) DEF Send
      <3>2. inbox' \in [Conn -> Seq({"rpc", "vertify"})]
        BY <3>1, SMTT(30) DEF TypeOK
      <3>3. sent' \in [Conn -> 0..MaxMsg]
        BY <2>3, TcpAssumption, SMTT(30) DEF Send, TypeOK
      <3>. QED
        BY <2>3, <3>2, <3>3 DEF Send, TypeOK
    <2>. QED
      BY <2>1, <2>2, <2>3
  <1>. QED
    BY <1>1, <1>2 DEF TypeOK, EntryWhileUsed, SettingUp, Stopping, Locked

LEMMA AcceptSteps ==
    ASSUME Inv, AcceptStep
    PROVE  Inv'
  <1>. USE DEF Inv
  <1>0. TypeOK'
    BY ZenonT(60) DEF AcceptStep, Accept, Enter, AddToLb, GoHandleRead, Report, TypeOK, SettingUp,
           peers, read
  <1>1. CASE Accept
    BY <1>0, <1>1 DEF Accept, TypeOK, EntryWhileUsed, SettingUp, Stopping, Locked, read
  <1>2. CASE Enter
    BY <1>0, <1>2 DEF Enter, TypeOK, EntryWhileUsed, SettingUp, Stopping, Locked, read
  <1>3. CASE AddToLb
    BY <1>0, <1>3, SMTT(30) DEF AddToLb, TypeOK, EntryWhileUsed, SettingUp, Stopping, Locked, read
  <1>4. CASE GoHandleRead
    BY <1>0, <1>4, SMTT(30) DEF GoHandleRead, TypeOK, EntryWhileUsed, SettingUp, Stopping, Locked
  <1>5. CASE Report
    BY <1>0, <1>5 DEF Report, TypeOK, EntryWhileUsed, SettingUp, Stopping, Locked, read
  <1>. QED
    BY <1>1, <1>2, <1>3, <1>4, <1>5 DEF AcceptStep

LEMMA CutStream ==
    ASSUME NEW q \in Seq({"rpc", "vertify"}), NEW n \in 1..Len(q)
    PROVE  /\ SubSeq(q, 1, n) \in Seq({"rpc", "vertify"}) /\ SubSeq(q, 1, n) # <<>>
           /\ SubSeq(q, n + 1, Len(q)) \in Seq({"rpc", "vertify"})
  <1>1. Len(q) \in Nat /\ n \in Nat /\ 1 <= n /\ n <= Len(q)
    OBVIOUS
  <1>2. SubSeq(q, 1, n) \in Seq({"rpc", "vertify"}) /\ Len(SubSeq(q, 1, n)) = n
    BY <1>1, SMTT(30)
  <1>3. SubSeq(q, n + 1, Len(q)) \in Seq({"rpc", "vertify"})
    BY <1>1, SMTT(30)
  <1>4. Len(<<>>) = 0
    OBVIOUS
  <1>. QED
    BY ONLY <1>1, <1>2, <1>3, <1>4, SMTT(30)

LEMMA TailStream ==
    ASSUME NEW q \in Seq({"rpc", "vertify"}), q # <<>>
    PROVE  /\ Tail(q) \in Seq({"rpc", "vertify"})
           /\ Tail(q) # <<>> <=> Len(q) > 1
  <1>1. /\ Tail(q) \in Seq({"rpc", "vertify"}) /\ Len(Tail(q)) = Len(q) - 1
        /\ Len(q) \in Nat
    BY SMTT(30)
  <1>2. ASSUME NEW t \in Seq({"rpc", "vertify"}) PROVE Len(t) = 0 <=> t = <<>>
    OBVIOUS
  <1>3. Len(Tail(q)) = 0 <=> Tail(q) = <<>>
    BY ONLY <1>1, <1>2, ZenonT(60)
  <1>4. Len(q) > 0
    BY SMTT(30)
  <1>5. Len(Tail(q)) # 0 <=> Len(q) > 1
    BY ONLY <1>1, <1>4, SMTT(30)
  <1>. QED
    BY ONLY <1>1, <1>3, <1>5, ZenonT(60)

(***************************************************************************)
(* What the reader of k does to its place and to what it has read.         *)
(***************************************************************************)
LEMMA ReaderAt ==
    ASSUME TypeOK, NEW k \in Conn, NEW p, NEW q \in Seq({"rpc", "vertify"}),
           p \in {"check", "read", "decode", "close", "unlist", "closed"},
           reader' = [reader EXCEPT ![k] = p], msg' = [msg EXCEPT ![k] = q],
           p = "decode" <=> q # <<>>
    PROVE  /\ reader' \in [Conn -> {"none", "check", "read", "decode", "close", "unlist", "closed"}]
           /\ msg' \in [Conn -> Seq({"rpc", "vertify"})]
           /\ \A j \in Conn : reader'[j] = "decode" <=> msg'[j] # <<>>
           /\ reader'[k] = p /\ \A j \in Conn \ {k} : reader'[j] = reader[j]
  BY DEF TypeOK

(***************************************************************************)
(* A reader that was at work stays at work.                                *)
(***************************************************************************)
LEMMA AtWork ==
    ASSUME EntryWhileUsed, SettingUp, Stopping, NEW k \in Conn,
           reader[k] \in {"check", "read", "decode"},
           reader'[k] \in {"check", "decode", "close"},
           \A j \in Conn \ {k} : reader'[j] = reader[j],
           UNCHANGED <<accept, cur, clients, lb, stop, stopper>>, lb \subseteq Conn
    PROVE  EntryWhileUsed' /\ SettingUp' /\ Stopping'
  <1>1. /\ accept' = accept /\ cur' = cur /\ clients' = clients /\ lb' = lb
        /\ stop' = stop /\ stopper' = stopper
    OBVIOUS
  <1>2. reader[k] # "none" /\ reader[k] # "unlist" /\ reader'[k] # "unlist"
    OBVIOUS
  <1>3. EntryWhileUsed'
    <2>1. k \in clients
      BY ONLY EntryWhileUsed, k \in Conn, reader[k] \in {"check", "read", "decode"} DEF EntryWhileUsed
    <2>2. \A j \in Conn : reader'[j] \in {"check", "read", "decode", "close"} => j \in clients
      BY <2>1 DEF EntryWhileUsed
    <2>3. \A j \in lb \ clients : j # k /\ reader[j] = "unlist"
      BY ONLY EntryWhileUsed, <2>1, ZenonT(60) DEF EntryWhileUsed
    <2>4. \A j \in lb \ clients : reader'[j] = "unlist"
      BY ONLY <2>3, lb \subseteq Conn, \A j \in Conn \ {k} : reader'[j] = reader[j], ZenonT(60)
    <2>. QED
      BY ONLY <1>1, <2>2, <2>4, ZenonT(60) DEF EntryWhileUsed
  <1>4. SettingUp'
    BY ONLY SettingUp, <1>1, <1>2, \A j \in Conn \ {k} : reader'[j] = reader[j] DEF SettingUp
  <1>5. Locked' = Locked
    BY ONLY <1>2, \A j \in Conn \ {k} : reader'[j] = reader[j], ZenonT(60) DEF Locked
  <1>6. Stopping'
    BY ONLY Stopping, <1>1, <1>5, ZenonT(60) DEF Stopping
  <1>. QED
    BY <1>3, <1>4, <1>6

LEMMA ReaderSteps ==
    ASSUME Inv, NEW k \in Conn, HandleRead(k)
    PROVE  Inv'
  <1>. USE DEF Inv
  <1>0. msg[k] \in Seq({"rpc", "vertify"}) /\ inbox[k] \in Seq({"rpc", "vertify"})
    BY DEF TypeOK
  <1>1. CASE CheckState(k)
    BY <1>1 DEF CheckState, TypeOK, EntryWhileUsed, SettingUp, Stopping, Locked, acc, peers
  <1>2. CASE Read(k)
    <2>. DEFINE Reads(p, q, i) == /\ reader' = [reader EXCEPT ![k] = p]
                                  /\ msg' = [msg EXCEPT ![k] = q]
                                  /\ inbox' = [inbox EXCEPT ![k] = i]
                                  /\ p = "decode" <=> q # <<>>
    <2>1. PICK p \in {"check", "decode", "close"}, q \in Seq({"rpc", "vertify"}),
               i \in Seq({"rpc", "vertify"}) : Reads(p, q, i)
      <3>1. ASSUME NEW n \in 1..Len(inbox[k]),
                   msg' = [msg EXCEPT ![k] = SubSeq(inbox[k], 1, n)],
                   inbox' = [inbox EXCEPT ![k] = SubSeq(@, n + 1, Len(@))],
                   reader' = [reader EXCEPT ![k] = "decode"]
            PROVE  \E p \in {"check", "decode", "close"}, q \in Seq({"rpc", "vertify"}),
                      i \in Seq({"rpc", "vertify"}) : Reads(p, q, i)
        <4>1. /\ SubSeq(inbox[k], 1, n) \in Seq({"rpc", "vertify"})
              /\ SubSeq(inbox[k], 1, n) # <<>>
              /\ SubSeq(inbox[k], n + 1, Len(inbox[k])) \in Seq({"rpc", "vertify"})
          BY ONLY <1>0, n \in 1..Len(inbox[k]), CutStream
        <4>2. Reads("decode", SubSeq(inbox[k], 1, n), SubSeq(inbox[k], n + 1, Len(inbox[k])))
          BY ONLY <3>1, <4>1, ZenonT(60)
        <4>. HIDE DEF Reads
        <4>. QED
          BY ONLY <4>1, <4>2
      <3>2. ASSUME inbox[k] = <<>>, UNCHANGED <<msg, inbox>>, reader[k] = "read",
                   reader' = [reader EXCEPT ![k] = IF k \in closed THEN "close" ELSE "check"]
            PROVE  \E p \in {"check", "decode", "close"}, q \in Seq({"rpc", "vertify"}),
                      i \in Seq({"rpc", "vertify"}) : Reads(p, q, i)
        <4>1. /\ msg' = [msg EXCEPT ![k] = msg[k]] /\ inbox' = [inbox EXCEPT ![k] = inbox[k]]
              /\ msg[k] = <<>>
          BY <3>2 DEF TypeOK
        <4>2. Reads(IF k \in closed THEN "close" ELSE "check", msg[k], inbox[k])
          BY ONLY <3>2, <4>1
        <4>. HIDE DEF Reads
        <4>. QED
          BY ONLY <1>0, <4>2
      <3>3. /\ reader[k] = "read"
            /\ \/ /\ \E n \in 1..Len(inbox[k]) :
                        /\ msg' = [msg EXCEPT ![k] = SubSeq(inbox[k], 1, n)]
                        /\ inbox' = [inbox EXCEPT ![k] = SubSeq(@, n + 1, Len(@))]
                  /\ reader' = [reader EXCEPT ![k] = "decode"]
               \/ /\ inbox[k] = <<>>
                  /\ reader' = [reader EXCEPT ![k] = IF k \in closed THEN "close" ELSE "check"]
                  /\ UNCHANGED <<msg, inbox>>
        BY ONLY <1>2, ZenonT(60) DEF Read
      <3>. HIDE DEF Reads
      <3>. QED
        BY ONLY <3>1, <3>2, <3>3, ZenonT(60)
    <2>2. /\ UNCHANGED <<identity, dialled, closed, sent, accept, cur, clients, state,
                         lb, stop, stopper, crashed>>
          /\ reader[k] = "read"
      BY <1>2 DEF Read, acc
    <2>3. inbox' \in [Conn -> Seq({"rpc", "vertify"})]
      BY <2>1 DEF TypeOK
    <2>4. /\ TypeOK' /\ reader'[k] = p
          /\ \A j \in Conn \ {k} : reader'[j] = reader[j]
      BY <2>1, <2>2, <2>3, ReaderAt, ZenonT(60) DEF TypeOK
    <2>. QED
      BY <2>2, <2>4, AtWork DEF TypeOK
  <1>3. CASE Vertify(k) \/ PreCheck(k)
    <2>1. /\ UNCHANGED <<identity, dialled, closed, inbox, sent, accept, cur, clients, lb, stop,
                         stopper>>
          /\ reader[k] = "decode" /\ Decoded(k) /\ crashed' \in BOOLEAN
      BY <1>3, ZenonT(60) DEF Vertify, PreCheck, acc, peers, TypeOK
    <2>2. state' \in [Conn -> {"init", "ok", "exit"}]
      BY <1>3 DEF Vertify, PreCheck, TypeOK
    <2>3. msg[k] # <<>>
      BY <2>1 DEF TypeOK
    <2>4. PICK p \in {"check", "decode"}, q \in Seq({"rpc", "vertify"}) :
             /\ reader' = [reader EXCEPT ![k] = p] /\ msg' = [msg EXCEPT ![k] = q]
             /\ p = "decode" <=> q # <<>>
      BY ONLY <1>0, <2>1, <2>3, TailStream DEF Decoded
    <2>5. /\ TypeOK' /\ reader'[k] = p
          /\ \A j \in Conn \ {k} : reader'[j] = reader[j]
      BY <2>1, <2>2, <2>4, ReaderAt, ZenonT(60) DEF TypeOK
    <2>. QED
      BY <2>1, <2>5, AtWork DEF TypeOK
  <1>4. CASE Close(k)
    BY <1>4 DEF Close, TypeOK, EntryWhileUsed, SettingUp, Stopping, Locked, acc, peers
  <1>5. CASE Unlist(k)
    <2>1. TypeOK' /\ EntryWhileUsed' /\ SettingUp'
      BY <1>5 DEF Unlist, TypeOK, EntryWhileUsed, SettingUp, acc, peers
    <2>2. Locked /\ UNCHANGED <<clients, stop, stopper>>
      BY <1>5 DEF Unlist, Locked
    <2>3. Stopping'
      BY ONLY Stopping, <2>2, ZenonT(60) DEF Stopping
    <2>. QED
      BY <2>1, <2>3
  <1>. QED
    BY ONLY HandleRead(k), <1>1, <1>2, <1>3, <1>4, <1>5, ZenonT(60) DEF HandleRead

LEMMA StopSteps ==
    ASSUME Inv, Stop \/ StopReturns
    PROVE  Inv'
  BY ZenonT(60) DEF Inv, Stop, StopReturns, TypeOK, EntryWhileUsed, SettingUp, Stopping, Locked, acc, peers, read

LEMMA NextInv == Inv /\ [Next]_vars => Inv'
  <1>1. Inv /\ UNCHANGED vars => Inv'
    BY SMTT(30) DEF vars, Inv, TypeOK, EntryWhileUsed, SettingUp, Stopping, Locked
  <1>. QED
    BY <1>1, PeerSteps, AcceptSteps, ReaderSteps, StopSteps DEF Next
-----------------------------------------------------------------------------
(***************************************************************************)
(* The inductive invariant holds.                                          *)
(***************************************************************************)
THEOREM InvHolds == Spec => []Inv
  BY InitInv, NextInv, PTL DEF Spec

(***************************************************************************)
(* Type correctness of the server.                                         *)
(***************************************************************************)
THEOREM TypeCorrect == Spec => []TypeOK
  <1>1. Inv => TypeOK
    BY DEF Inv
  <1>. QED
    BY <1>1, InvHolds, PTL

(***************************************************************************)
(* The entry of a connection is there while its reader is at work, and the *)
(* load balancer offers one without an entry only while onClientClose is   *)
(* between its two deletes.                                                *)
(***************************************************************************)
THEOREM EntryWhileUsedHolds == Spec => []EntryWhileUsed
  <1>1. Inv => EntryWhileUsed
    BY DEF Inv
  <1>. QED
    BY <1>1, InvHolds, PTL

(***************************************************************************)
(* Nothing is served, and nothing comes back, once Stop has returned.      *)
(***************************************************************************)
THEOREM StopIsFinalHolds == Spec => []StopIsFinal
  <1>1. Inv => StopIsFinal
    BY DEF Inv, TypeOK, EntryWhileUsed, Stopping, Locked, StopIsFinal
  <1>. QED
    BY <1>1, InvHolds, PTL

-----------------------------------------------------------------------------
Task == {CallTask(c) : c \in Call} \cup {RspTask(r) : r \in Rid}

WorkerOK ==
    /\ pc \in [Worker -> {"idle", "balance", "add", "queue", "send", "sent",
                         "wait", "get", "unlink", "give"}]
    /\ call \in [Worker -> Call \cup {Nil}]
    /\ rid \in [Worker -> Rid]
    /\ left \in [Worker -> 0..ReSendCnt]
    /\ link \in [Worker -> Nat]
    /\ result \in [Call -> {"none", "reply", "timeout", "empty"}]

(***************************************************************************)
(* A worker that has taken the entry of an answer, until it hands the      *)
(* answer over.                                                            *)
(***************************************************************************)
Answering(w) == pc[w] \in {"unlink", "give"}

(***************************************************************************)
(* Whoever is to send on the channel of a rid finds one: AddCallBack       *)
(* entered it.                                                             *)
(***************************************************************************)
ChannelInv ==
    /\ \A r \in gCbMap : ch[r] \in Worker
    /\ mgr # Nil => ch[mgr] \in Worker
    /\ \A w \in Worker : Answering(w) => ch[rid[w]] \in Worker

(***************************************************************************)
(* GenGid stays in its width, and is the next number unless it overflows.  *)
(***************************************************************************)
LEMMA GenGidType ==
  ASSUME globalGID \in Rid
  PROVE  /\ GenGid \in Rid
         /\ globalGID + 1 # GidMod => GenGid = globalGID + 1 /\ GenGid # 0
BY RpcCallAssumption, SMTT(60) DEF GenGid, Rid

(***************************************************************************)
(* The first task of a channel, and the others.                            *)
(***************************************************************************)
LEMMA ChannelStep ==
  ASSUME NEW S, NEW s \in Seq(S), s # <<>>
  PROVE  /\ Head(s) \in S /\ Tail(s) \in Seq(S)
         /\ Head(s) = s[1] /\ 1 \in 1..Len(s)
         /\ \A i \in 1..Len(Tail(s)) : i + 1 \in 1..Len(s) /\ Tail(s)[i] = s[i + 1]
BY SMTT(60)

LEMMA TypeInit == CallInit => CallTypeOK /\ ChannelInv
<1> SUFFICES ASSUME CallInit PROVE CallTypeOK /\ ChannelInv
  OBVIOUS
<1>1. 0 \in Rid /\ 1 \in Nat /\ 0 \in Nat /\ 0 \in 0..MaxDrops /\ 0 \in 0..ReSendCnt
  BY RpcCallAssumption, SMTT(60) DEF Rid
<1>2. taskCh \in Seq(Task)
  BY SMTT(60) DEF CallInit
<1>3. CallTypeOK
  BY <1>1, <1>2 DEF CallInit, CallTypeOK, Task
<1>4. ChannelInv
  BY <1>1 DEF CallInit, ChannelInv, Answering
<1> QED
  BY <1>3, <1>4

(***************************************************************************)
(* What Return leaves behind.                                              *)
(***************************************************************************)
LEMMA ReturnType ==
  ASSUME CallTypeOK, NEW w, NEW res \in {"reply", "timeout", "empty"}, Return(w, res)
  PROVE  WorkerOK'
<1>1. 0 \in Rid /\ 0 \in Nat /\ 0 \in 0..ReSendCnt
  BY RpcCallAssumption, SMTT(60) DEF Rid
<1> QED
  BY <1>1 DEF Return, CallTypeOK, WorkerOK

(***************************************************************************)
(* Every step keeps the types.                                             *)
(***************************************************************************)
LEMMA TypeStep ==
  ASSUME CallTypeOK, [CallNext]_callVars
  PROVE  CallTypeOK'
<1>1. ASSUME NEW c \in Call, Request(c) PROVE CallTypeOK'
  <2>1. CallTask(c) \in Task /\ taskCh \in Seq(Task)
    BY DEF Task, CallTypeOK
  <2>2. taskCh' \in Seq(Task)
    BY <1>1, <2>1, SMTT(60) DEF Request
  <2> QED
    BY <1>1, <2>2 DEF Request, CallTypeOK, Task, wvars, hvars
<1>2. ASSUME NEW w \in Worker, TakeCall(w) PROVE CallTypeOK'
  <2>1. Head(taskCh) \in Task /\ taskCh' \in Seq(Task)
    BY <1>2, ChannelStep DEF Task, CallTypeOK, TakeCall
  <2>2. Head(taskCh).id \in Call
    BY <1>2, <2>1, SMTT(60) DEF TakeCall, Task, CallTask, RspTask
  <2>3. GenGid \in Rid /\ ReSendCnt \in 0..ReSendCnt
    BY GenGidType, RpcCallAssumption, SMTT(60) DEF CallTypeOK
  <2> QED
    BY <1>2, <2>1, <2>2, <2>3 DEF TakeCall, NextGid, CallTypeOK, Task
<1>3. ASSUME NEW w \in Worker, TakeRsp(w) PROVE CallTypeOK'
  <2>1. Head(taskCh) \in Task /\ taskCh' \in Seq(Task)
    BY <1>3, ChannelStep DEF Task, CallTypeOK, TakeRsp
  <2>2. Head(taskCh).id \in Rid
    BY <1>3, <2>1, SMTT(60) DEF TakeRsp, Task, CallTask, RspTask
  <2> QED
    BY <1>3, <2>1, <2>2 DEF TakeRsp, CallTypeOK, Task, hvars
<1>4. 0 \in Rid /\ 0 \in Nat /\ 0 \in 0..ReSendCnt
  BY RpcCallAssumption, SMTT(60) DEF Rid
<1>5. ASSUME NEW w \in Worker, LoadBalance(w) PROVE CallTypeOK'
  <2>1. WorkerOK'
    <3>1. CASE gate = 0
      BY <1>5, <3>1, ReturnType DEF LoadBalance
    <3>2. CASE gate # 0
      <4>1. /\ pc' = [pc EXCEPT ![w] = "add"] \/ pc' = [pc EXCEPT ![w] = "send"]
            /\ link' = [link EXCEPT ![w] = gate]
            /\ UNCHANGED <<call, rid, left, result>>
        BY <1>5, <3>2 DEF LoadBalance
      <4> QED
        BY <4>1 DEF CallTypeOK, WorkerOK
    <3> QED
      BY <3>1, <3>2
  <2> QED
    BY <1>5, <2>1 DEF LoadBalance, CallTypeOK, WorkerOK, hvars
<1>6. ASSUME NEW w \in Worker, AddCallBack(w) PROVE CallTypeOK'
  BY <1>6 DEF AddCallBack, CallTypeOK, hvars
<1>7. ASSUME NEW w \in Worker, MessageSend(w) PROVE CallTypeOK'
  <2>1. WorkerOK'
    <3>1. CASE Return(w, "empty")
      BY <3>1, ReturnType
    <3>2. CASE ~Return(w, "empty")
      BY <1>7, <3>2 DEF MessageSend, CallTypeOK, WorkerOK
    <3> QED
      BY <3>1, <3>2
  <2>2. underway' \subseteq Rid /\ orphan' \subseteq Rid
    BY <1>7, SMTT(30) DEF MessageSend, CallTypeOK
  <2> QED
    BY <1>7, <2>1, <2>2 DEF MessageSend, CallTypeOK, WorkerOK
<1>8. ASSUME NEW w \in Worker, Wait(w) PROVE CallTypeOK'
  BY <1>8 DEF Wait, CallTypeOK, hvars
<1>9. ASSUME NEW w \in Worker, GetCallBack(w) PROVE CallTypeOK'
  BY <1>9, <1>4 DEF GetCallBack, CallTypeOK, hvars
<1>10. ASSUME NEW w \in Worker, Give(w) PROVE CallTypeOK'
  BY <1>10, <1>4 DEF Give, CallTypeOK, hvars
<1>11. ASSUME NEW w \in Worker, Select(w) PROVE CallTypeOK'
  <2>1. CASE SelectAdd(w)
    BY <2>1 DEF SelectAdd, CallTypeOK, hvars, Queue
  <2>2. CASE SelectDel(w)
    BY <2>2 DEF SelectDel, CallTypeOK, hvars, Queue
  <2> QED
    BY <1>11, <2>1, <2>2 DEF Select
<1>12. ASSUME NEW r \in Rid, Expire(r) PROVE CallTypeOK'
  BY <1>12 DEF Expire, CallTypeOK, wvars, hvars, Queue
<1>13. ASSUME NEW r \in Rid, Reply(r) PROVE CallTypeOK'
  <2>1. RspTask(r) \in Task /\ taskCh \in Seq(Task)
    BY DEF Task, CallTypeOK
  <2>2. taskCh' \in Seq(Task)
    BY <1>13, <2>1, SMTT(60) DEF Reply
  <2> QED
    BY <1>13, <2>2 DEF Reply, CallTypeOK, Task, wvars, hvars
<1>14. ASSUME NEW r \in Rid, Lose(r) PROVE CallTypeOK'
  BY <1>14 DEF Lose, CallTypeOK, wvars, hvars
<1>15. CASE TimeoutCb
  <2> DEFINE w == ch[mgr]
  <2>1. GenGid \in Rid
    BY GenGidType DEF CallTypeOK
  <2>2. w \in Worker /\ left[w] > 0 => left[w] - 1 \in 0..ReSendCnt
    BY RpcCallAssumption, SMTT(60) DEF CallTypeOK
  <2>3. WorkerOK'
    <3>1. CASE Return(w, "timeout")
      BY <3>1, ReturnType
    <3>2. CASE ~Return(w, "timeout")
      <4>1. /\ left[w] > 0
            /\ rid' = [rid EXCEPT ![w] = GenGid]
            /\ left' = [left EXCEPT ![w] = left[w] - 1]
            /\ pc' = [pc EXCEPT ![w] = "balance"]
            /\ UNCHANGED <<call, link, result>>
        BY <1>15, <3>2 DEF TimeoutCb
      <4>2. left' \in [Worker -> 0..ReSendCnt]
        BY <4>1, <2>2 DEF CallTypeOK
      <4> QED
        BY <4>1, <4>2, <2>1 DEF CallTypeOK, WorkerOK
    <3> QED
      BY <3>1, <3>2
  <2>4. globalGID' \in Rid /\ wrapped' \in BOOLEAN
    BY <1>15, <2>1 DEF TimeoutCb, NextGid, CallTypeOK
  <2> QED
    BY <1>15, <2>3, <2>4 DEF TimeoutCb, CallTypeOK, WorkerOK
<1>16. CASE Disconnect
  <2>1. drops' \in 0..MaxDrops
    BY <1>16, RpcCallAssumption, SMTT(60) DEF Disconnect, CallTypeOK
  <2> QED
    BY <1>16, <1>4, <2>1 DEF Disconnect, CallTypeOK, wvars, hvars
<1>17. CASE Connect
  <2>1. gate' \in Nat
    BY <1>17, RpcCallAssumption, SMTT(60) DEF Connect, CallTypeOK
  <2> QED
    BY <1>17, <2>1 DEF Connect, CallTypeOK, wvars, hvars
<1>18. CASE UNCHANGED callVars
  BY <1>18 DEF callVars, CallTypeOK
<1> QED
  BY <1>1, <1>2, <1>3, <1>5, <1>6, <1>7, <1>8, <1>9, <1>10, <1>11, <1>12, <1>13,
     <1>14, <1>15, <1>16, <1>17, <1>18 DEF CallNext, Work


(***************************************************************************)
(* A worker that runs RpcCall, from GenGid to its return.                  *)
(***************************************************************************)
Calling(w) == pc[w] \in {"balance", "add", "queue", "send", "sent", "wait"}

(***************************************************************************)
(* The rids whose answers wait in the task channel; those whose request    *)
(* was sent and not lost, and whose answer has not been looked up; and all *)
(* that anything but a call refers to.                                     *)
(***************************************************************************)
Coming == {r \in Rid : \E i \in 1..Len(taskCh) : taskCh[i] = RspTask(r)}

Asked == underway \cup Coming
         \cup {r \in Rid : \E w \in Worker : pc[w] = "get" /\ rid[w] = r}

Used == gCbMap \cup queued \cup {mgr} \cup Asked
        \cup {r \in Rid : \E w \in Worker : Answering(w) /\ rid[w] = r}

(***************************************************************************)
(* The call of r has sent its request and receives, or is about to.        *)
(***************************************************************************)
Receiver(r) == pc[ch[r]] \in {"sent", "wait"} /\ rid[ch[r]] = r

(***************************************************************************)
(* RidInv holds while GenGid has not overflowed. Every call has a rid of   *)
(* its own, and nothing refers to a new one before AddCallBack enters it.  *)
(***************************************************************************)
OwnRid ==
    /\ \A w \in Worker : Calling(w) => rid[w] \in 1..globalGID
    /\ \A w, v \in Worker : Calling(w) /\ Calling(v) /\ rid[v] = rid[w] => v = w

NewRid ==
    /\ \A r \in Rid : r \in Used => r \in 1..globalGID
    /\ \A w \in Worker : pc[w] \in {"balance", "add"} => rid[w] \notin Used

(***************************************************************************)
(* A call receives on its own channel, and is not answered before it is    *)
(* sent.                                                                   *)
(***************************************************************************)
OwnChannel ==
    \A w \in Worker : pc[w] \in {"queue", "send", "sent", "wait"} => ch[rid[w]] = w

NotAsked == \A w \in Worker : pc[w] \in {"queue", "send"} => rid[w] \notin Asked

(***************************************************************************)
(* An entry that can be answered, or expire, has a call behind it; so has  *)
(* an entry that was taken, for the timeout or for an answer, never for    *)
(* both.                                                                   *)
(***************************************************************************)
EntryServed ==
    \A r \in gCbMap : /\ r \in Asked => Receiver(r)
                      /\ r \in queued => WillReceive(r) \/ r \in orphan

TimeoutServed ==
    mgr # Nil => mgr \notin gCbMap /\ (WillReceive(mgr) \/ mgr \in orphan)

AnswerServed ==
    /\ \A w \in Worker : Answering(w) => /\ rid[w] \notin gCbMap /\ rid[w] # mgr
                                         /\ Receiver(rid[w])
    /\ \A w, v \in Worker : Answering(w) /\ Answering(v) /\ rid[w] = rid[v] => w = v

RidInv == /\ OwnRid /\ NewRid /\ OwnChannel /\ NotAsked
          /\ EntryServed /\ TimeoutServed /\ AnswerServed


LEMMA RidInvInit == CallInit => RidInv
<1> SUFFICES ASSUME CallInit PROVE RidInv
  OBVIOUS
<1>1. Coming = {}
  BY SMTT(60) DEF CallInit, Coming
<1>2. Asked = {} /\ \A r \in Rid : r \notin Used
  BY <1>1, RpcCallAssumption DEF CallInit, Asked, Used, Answering
<1> QED
  BY <1>2 DEF CallInit, RidInv, OwnRid, NewRid, OwnChannel, NotAsked, EntryServed,
              TimeoutServed, AnswerServed, Calling, Answering

(***************************************************************************)
(* What the task channel holds after a task was taken or put.              *)
(***************************************************************************)
LEMMA ComingTail ==
  ASSUME CallTypeOK, taskCh # <<>>, taskCh' = Tail(taskCh)
  PROVE  Coming' \subseteq Coming
<1>1. taskCh \in Seq(Task)
  BY DEF CallTypeOK, Task
<1> QED
  BY <1>1, ChannelStep, SMTT(30) DEF Coming

LEMMA ComingAppend ==
  ASSUME CallTypeOK, NEW t \in Task, taskCh' = Append(taskCh, t)
  PROVE  Coming' \subseteq Coming \cup {r \in Rid : t = RspTask(r)}
<1>1. taskCh \in Seq(Task)
  BY DEF CallTypeOK, Task
<1>2. \A i \in 1..Len(taskCh') :
         \/ i \in 1..Len(taskCh) /\ taskCh'[i] = taskCh[i]
         \/ taskCh'[i] = t
  BY <1>1, SMTT(60)
<1> QED
  BY <1>2 DEF Coming

(***************************************************************************)
(* Steps that leave the workers and the channels as they are, and ask      *)
(* nothing new.                                                            *)
(***************************************************************************)
LEMMA ManagerStep ==
  ASSUME CallTypeOK, RidInv, UNCHANGED <<globalGID, pc, rid, ch, orphan>>,
         gCbMap' \subseteq gCbMap, queued' \subseteq queued,
         Asked' \subseteq Asked,
         \/ mgr' = mgr
         \/ mgr' = Nil
         \/ mgr' \in Rid /\ mgr' \in gCbMap /\ mgr' \in queued /\ mgr' \notin gCbMap'
  PROVE  RidInv'
<1>1. \A r \in Rid : r \in Used' => r \in Used
  BY RpcCallAssumption DEF Used, Answering
<1>2. OwnRid' /\ OwnChannel' /\ NotAsked'
  BY DEF RidInv, OwnRid, OwnChannel, NotAsked, Calling
<1>3. NewRid'
  BY <1>1 DEF RidInv, NewRid, CallTypeOK
<1>4. EntryServed'
  BY DEF RidInv, EntryServed, Receiver, WillReceive
<1>5. TimeoutServed'
  BY DEF RidInv, TimeoutServed, EntryServed, WillReceive
<1>6. AnswerServed'
  BY RpcCallAssumption, SMTT(30) DEF RidInv, AnswerServed, Answering, Receiver, CallTypeOK
<1> QED
  BY <1>2, <1>3, <1>4, <1>5, <1>6 DEF RidInv


(***************************************************************************)
(* A call that is not answered yet goes one step further under its rid.    *)
(***************************************************************************)
Advance(w) == \/ LoadBalance(w) /\ rid[w] # 0 /\ gate # 0
              \/ AddCallBack(w) \/ SelectAdd(w) \/ Wait(w)
              \/ MessageSend(w) /\ rid[w] # 0 /\ link[w] = gate

LEMMA CallerStep ==
  ASSUME CallTypeOK, ChannelInv, RidInv, ~wrapped,
         NEW w \in Worker, Advance(w)
  PROVE  RidInv'
<1>0. pc \in [Worker -> {"idle", "balance", "add", "queue", "send", "sent",
                         "wait", "get", "unlink", "give"}]
  BY DEF CallTypeOK
<1>1. UNCHANGED <<globalGID, rid, mgr, orphan, taskCh>>
  BY DEF Advance, LoadBalance, AddCallBack, SelectAdd, Wait, MessageSend, hvars, Queue
<1>2. /\ \/ pc[w] = "balance" /\ pc'[w] = "add"
         \/ pc[w] = "add" /\ pc'[w] = "queue"
         \/ pc[w] = "queue" /\ pc'[w] = "send"
         \/ pc[w] = "send" /\ pc'[w] = "sent"
         \/ pc[w] = "sent" /\ pc'[w] = "wait"
      /\ \A v \in Worker : v # w => pc'[v] = pc[v]
  <2> DEFINE Others == \A v \in Worker : v # w => pc'[v] = pc[v]
  <2>0. LoadBalance(w) /\ rid[w] # 0 /\ gate # 0
        => pc[w] = "balance" /\ pc'[w] = "add" /\ Others
    BY <1>0 DEF LoadBalance
  <2>1. AddCallBack(w) => pc[w] = "add" /\ pc'[w] = "queue" /\ Others
    BY <1>0 DEF AddCallBack
  <2>2. SelectAdd(w) => pc[w] = "queue" /\ pc'[w] = "send" /\ Others
    BY <1>0 DEF SelectAdd, Queue
  <2>3. MessageSend(w) /\ rid[w] # 0 /\ link[w] = gate
        => pc[w] = "send" /\ pc'[w] = "sent" /\ Others
    BY <1>0 DEF MessageSend
  <2>4. Wait(w) => pc[w] = "sent" /\ pc'[w] = "wait" /\ Others
    BY <1>0 DEF Wait
  <2> QED
    BY <2>0, <2>1, <2>2, <2>3, <2>4 DEF Advance
<1>3. Asked' \subseteq Asked \cup (IF pc[w] = "send" THEN {rid[w]} ELSE {})
  BY <1>1, <1>2 DEF Asked, Coming, Advance, LoadBalance, AddCallBack, SelectAdd, Wait,
                    MessageSend, Queue
<1>4. Used' \subseteq Used \cup (IF pc[w] \in {"balance", "sent"} THEN {} ELSE {rid[w]})
  BY <1>1, <1>2, <1>3 DEF Used, Answering, Advance, LoadBalance, AddCallBack, SelectAdd,
                          Wait, MessageSend, Queue
<1>5. OwnRid'
  BY <1>1, <1>2, SMTT(30) DEF RidInv, OwnRid, Calling
<1>6. NewRid'
  BY <1>1, <1>2, <1>4, <1>5 DEF RidInv, NewRid, OwnRid, Calling, CallTypeOK
<1>7. OwnChannel'
  <2>1. \/ pc[w] # "add" /\ ch' = ch
        \/ pc[w] = "add" /\ ch' = [ch EXCEPT ![rid[w]] = w]
    BY DEF Advance, LoadBalance, AddCallBack, SelectAdd, Wait, MessageSend
  <2> QED
    BY <1>1, <1>2, <2>1, SMTT(30) DEF RidInv, OwnRid, OwnChannel, Calling, CallTypeOK
<1>8. NotAsked'
  BY <1>1, <1>2, <1>3, ZenonT(20), SMTT(60) DEF RidInv, OwnRid, NewRid, NotAsked,
                                                Calling, Used
<1>9. ASSUME NEW r \in Rid, ch[r] \in Worker, pc[w] \in {"balance", "add"} => r # rid[w]
      PROVE  /\ ch'[r] = ch[r]
             /\ WillReceive(r) => WillReceive(r)'
             /\ Receiver(r) => Receiver(r)'
  <2>1. ch'[r] = ch[r]
    BY <1>1, <1>2, <1>9 DEF Advance, LoadBalance, AddCallBack, SelectAdd, Wait,
                            MessageSend, CallTypeOK, Queue
  <2> QED
    BY <1>1, <1>2, <1>9, <2>1 DEF WillReceive, Receiver
<1>10. EntryServed'
  <2> SUFFICES ASSUME NEW r \in gCbMap'
               PROVE  /\ r \in Asked' => Receiver(r)'
                      /\ r \in queued' => WillReceive(r)' \/ r \in orphan'
    BY DEF EntryServed
  <2>1. CASE r = rid[w] /\ pc[w] \in {"balance", "add"}
    BY <2>1, <1>1, <1>2, <1>3 DEF Advance, LoadBalance, AddCallBack, SelectAdd, Wait,
                                  MessageSend, RidInv, NewRid, Used, Queue
  <2>2. CASE r = rid[w] /\ pc[w] \notin {"balance", "add"}
    <3>1. ch'[r] = w /\ pc'[w] \in {"send", "sent", "wait"} /\ rid'[w] = r
      BY <2>2, <1>1, <1>2, <1>7 DEF OwnChannel, CallTypeOK
    <3>2. pc'[w] = "send" => r \notin Asked'
      BY <2>2, <1>1, <1>2, <1>3 DEF RidInv, NotAsked
    <3> QED
      BY <3>1, <3>2, <1>1, <1>2 DEF WillReceive, Receiver
  <2>3. CASE r # rid[w]
    <3>1. r \in gCbMap /\ (r \in queued' => r \in queued) /\ (r \in Asked' => r \in Asked)
      BY <2>3, <1>1, <1>2, <1>3 DEF Advance, LoadBalance, AddCallBack, SelectAdd, Wait,
                                    MessageSend, Queue
    <3> QED
      BY <2>3, <3>1, <1>1, <1>9 DEF RidInv, EntryServed, ChannelInv, CallTypeOK
  <2> QED
    BY <2>1, <2>2, <2>3
<1>11. TimeoutServed'
  <2> SUFFICES ASSUME mgr # Nil
               PROVE  mgr \notin gCbMap' /\ (WillReceive(mgr)' \/ mgr \in orphan')
    BY <1>1 DEF TimeoutServed
  <2>1. mgr \in Rid /\ mgr \in Used /\ ch[mgr] \in Worker
    BY DEF CallTypeOK, ChannelInv, Used
  <2>2. pc[w] \in {"balance", "add"} => mgr # rid[w]
    BY <2>1 DEF RidInv, NewRid
  <2>3. mgr \notin gCbMap'
    BY <1>1, <1>2, <2>2 DEF RidInv, TimeoutServed, Advance, LoadBalance, AddCallBack,
                            SelectAdd, Wait, MessageSend, Queue
  <2> QED
    BY <2>1, <2>2, <2>3, <1>1, <1>9 DEF RidInv, TimeoutServed
<1>12. AnswerServed'
  <2>1. ASSUME NEW u \in Worker, Answering(u)'
        PROVE  Answering(u) /\ u # w /\ rid[u] \in Used /\ rid[u] \in Rid
    BY <2>1, <1>1, <1>2 DEF Answering, Used, CallTypeOK
  <2>2. ASSUME NEW u \in Worker, Answering(u)', NEW r \in Rid, r = rid[u]
        PROVE  r \notin gCbMap' /\ r # mgr /\ Receiver(r)'
    <3>1. pc[w] \in {"balance", "add"} => r # rid[w]
      BY <2>1, <2>2 DEF RidInv, NewRid
    <3>2. r \notin gCbMap /\ r # mgr /\ Receiver(r) /\ ch[r] \in Worker
      BY <2>1, <2>2 DEF RidInv, AnswerServed, ChannelInv
    <3>3. r \notin gCbMap'
      BY <3>1, <3>2, <1>1, <1>2 DEF Advance, LoadBalance, AddCallBack, SelectAdd, Wait,
                                    MessageSend, Queue
    <3> QED
      BY <3>1, <3>2, <3>3, <1>9
  <2> QED
    BY <2>1, <2>2, <1>1 DEF RidInv, AnswerServed, Receiver
<1> QED
  BY <1>5, <1>6, <1>7, <1>8, <1>10, <1>11, <1>12 DEF RidInv


(***************************************************************************)
(* A worker gives up the rid of its call: it returns, or takes a new rid.  *)
(* Nobody needs it under the old one.                                      *)
(***************************************************************************)
GivesUp(w) ==
    /\ \/ pc[w] \in {"idle", "balance"}
       \/ pc[w] = "send" /\ rid[w] \in orphan'
       \/ pc[w] = "wait" /\ rid[w] = mgr /\ mgr' = Nil
    /\ \/ pc'[w] = "idle" /\ globalGID' = globalGID
       \/ pc'[w] = "balance" /\ globalGID' = globalGID + 1 /\ rid'[w] = globalGID'
    /\ \A v \in Worker : v # w => pc'[v] = pc[v] /\ rid'[v] = rid[v]
    /\ mgr' \in {mgr, Nil}
    /\ orphan \subseteq orphan'
    /\ Coming' \subseteq Coming
    /\ UNCHANGED <<gCbMap, ch, queued, underway>>

LEMMA GiveUpStep ==
  ASSUME CallTypeOK, ChannelInv, RidInv, globalGID' \in Rid, NEW w \in Worker, GivesUp(w)
  PROVE  RidInv'
<1>1. /\ \A v \in Worker : v # w => pc'[v] = pc[v] /\ rid'[v] = rid[v]
      /\ mgr' \in {mgr, Nil}
      /\ orphan \subseteq orphan'
      /\ UNCHANGED <<gCbMap, ch, queued, underway>>
      /\ pc'[w] \in {"idle", "balance"}
      /\ pc[w] \in {"idle", "balance", "send", "wait"}
  BY DEF GivesUp
<1>2. Asked' \subseteq Asked
  BY <1>1 DEF Asked, GivesUp
<1>3. \A r \in Rid : r \in Used' => r \in Used
  BY <1>1, <1>2, RpcCallAssumption DEF Used, Answering
<1>4. /\ 1..globalGID \subseteq 1..globalGID'
      /\ globalGID' = globalGID + 1 => /\ globalGID' \in 1..globalGID'
                                       /\ globalGID' \notin 1..globalGID
  BY SMTT(60) DEF CallTypeOK, Rid, GivesUp
<1>5. OwnRid'
  BY <1>1, <1>4, SMTT(30) DEF RidInv, OwnRid, Calling, GivesUp
<1>6. NewRid'
  BY <1>1, <1>3, <1>4 DEF RidInv, NewRid, GivesUp, CallTypeOK
<1>7. OwnChannel'
  BY <1>1 DEF RidInv, OwnChannel
<1>8. NotAsked'
  BY <1>1, <1>2 DEF RidInv, NotAsked
<1>9. ASSUME NEW r \in Rid, ch[r] \in Worker, ch[r] # w
      PROVE  /\ WillReceive(r) => WillReceive(r)'
             /\ Receiver(r) => Receiver(r)'
  BY <1>1, <1>9 DEF WillReceive, Receiver
<1>10. EntryServed'
  <2> SUFFICES ASSUME NEW r \in gCbMap
               PROVE  /\ r \in Asked => Receiver(r)'
                      /\ r \in queued => WillReceive(r)' \/ r \in orphan'
    BY <1>1, <1>2 DEF EntryServed
  <2>1. r \in Rid /\ ch[r] \in Worker /\ r # mgr
    BY RpcCallAssumption DEF CallTypeOK, ChannelInv, RidInv, TimeoutServed
  <2>2. CASE ch[r] # w
    BY <2>1, <2>2, <1>1, <1>9 DEF RidInv, EntryServed
  <2>3. CASE ch[r] = w
    BY <2>1, <2>3 DEF RidInv, EntryServed, WillReceive, Receiver, GivesUp
  <2> QED
    BY <2>2, <2>3
<1>11. TimeoutServed'
  <2> SUFFICES ASSUME mgr' # Nil
               PROVE  mgr' \notin gCbMap' /\ (WillReceive(mgr)' \/ mgr' \in orphan')
    BY DEF TimeoutServed
  <2>1. mgr' = mgr /\ mgr \in Rid /\ ch[mgr] \in Worker /\ mgr \notin gCbMap
    BY <1>1 DEF CallTypeOK, ChannelInv, RidInv, TimeoutServed
  <2>2. CASE ch[mgr] # w
    BY <2>1, <2>2, <1>1 DEF RidInv, TimeoutServed, WillReceive
  <2>3. CASE ch[mgr] = w
    BY <2>1, <2>3, <1>1 DEF RidInv, TimeoutServed, WillReceive, GivesUp
  <2> QED
    BY <2>1, <2>2, <2>3, <1>1
<1>12. AnswerServed'
  <2>1. ASSUME NEW u \in Worker, Answering(u)'
        PROVE  /\ Answering(u) /\ u # w /\ rid'[u] = rid[u] /\ rid[u] \in Rid
               /\ ch[rid[u]] \in Worker
    BY <2>1, <1>1 DEF Answering, CallTypeOK, ChannelInv
  <2>2. ASSUME NEW u \in Worker, Answering(u)', NEW r \in Rid, r = rid[u]
        PROVE  r \notin gCbMap' /\ r # mgr' /\ Receiver(r)'
    <3>1. r \notin gCbMap /\ r # mgr /\ Receiver(r)
      BY <2>1, <2>2 DEF RidInv, AnswerServed
    <3>2. ch[r] # w
      BY <3>1 DEF Receiver, GivesUp
    <3> QED
      BY <3>1, <3>2, <2>1, <2>2, <1>1, <1>9, RpcCallAssumption
  <2> QED
    BY <2>1, <2>2, SMTT(30) DEF RidInv, AnswerServed, Receiver
<1> QED
  BY <1>5, <1>6, <1>7, <1>8, <1>10, <1>11, <1>12 DEF RidInv


(***************************************************************************)
(* The handler of an answer takes it up, takes its entry or finds none, or *)
(* has its node unlinked.                                                  *)
(***************************************************************************)
HandlesRsp(w) ==
    /\ pc[w] \in {"idle", "get", "unlink"}
    /\ pc'[w] \in {"idle", "get", "unlink", "give"}
    /\ \A v \in Worker : v # w => pc'[v] = pc[v] /\ rid'[v] = rid[v]
    /\ Answering(w)' => /\ rid'[w] = rid[w]
                        /\ \/ Answering(w)
                           \/ rid[w] \in gCbMap \cap Asked /\ rid[w] \notin gCbMap'
    /\ Asked' \subseteq Asked
    /\ gCbMap' \subseteq gCbMap
    /\ queued' \subseteq queued
    /\ UNCHANGED <<globalGID, ch, mgr, orphan>>

LEMMA RspStep ==
  ASSUME CallTypeOK, ChannelInv, RidInv, NEW w \in Worker, HandlesRsp(w)
  PROVE  RidInv'
<1>1. /\ \A v \in Worker : v # w => pc'[v] = pc[v] /\ rid'[v] = rid[v]
      /\ Asked' \subseteq Asked /\ gCbMap' \subseteq gCbMap /\ queued' \subseteq queued
      /\ UNCHANGED <<globalGID, ch, mgr, orphan>>
      /\ pc'[w] \in {"idle", "get", "unlink", "give"}
      /\ pc[w] \in {"idle", "get", "unlink"}
  BY DEF HandlesRsp
<1>2. Used' \subseteq Used
  BY <1>1 DEF Used, Answering, HandlesRsp
<1>3. OwnRid'
  BY <1>1 DEF RidInv, OwnRid, Calling
<1>4. NewRid'
  BY <1>1, <1>2 DEF RidInv, NewRid
<1>5. OwnChannel' /\ NotAsked'
  BY <1>1 DEF RidInv, OwnChannel, NotAsked
<1>6. ASSUME NEW r \in Rid, ch[r] \in Worker
      PROVE  /\ WillReceive(r) => WillReceive(r)'
             /\ Receiver(r) => Receiver(r)'
  BY <1>1, <1>6 DEF WillReceive, Receiver
<1>7. EntryServed'
  BY <1>1, <1>6 DEF RidInv, EntryServed, ChannelInv, CallTypeOK
<1>8. TimeoutServed'
  <2> SUFFICES ASSUME mgr # Nil
               PROVE  mgr \notin gCbMap' /\ (WillReceive(mgr)' \/ mgr \in orphan')
    BY <1>1 DEF TimeoutServed
  <2>1. mgr' = mgr /\ mgr \in Rid /\ ch[mgr] \in Worker /\ mgr \notin gCbMap
    BY <1>1 DEF CallTypeOK, ChannelInv, RidInv, TimeoutServed
  <2> QED
    BY <2>1, <1>1 DEF RidInv, TimeoutServed, WillReceive
<1>9. AnswerServed'
  <2>1. ASSUME NEW u \in Worker, Answering(u)'
        PROVE  /\ rid'[u] = rid[u] /\ rid[u] \in Rid
               /\ Answering(u) \/ (u = w /\ rid[u] \in gCbMap \cap Asked)
               /\ rid[u] \notin gCbMap'
    BY <2>1, <1>1 DEF Answering, HandlesRsp, CallTypeOK, RidInv, AnswerServed
  <2>2. ASSUME NEW u \in Worker, Answering(u)', NEW r \in Rid, r = rid[u]
        PROVE  r # mgr /\ Receiver(r)'
    <3>1. r # mgr /\ Receiver(r) /\ ch[r] \in Worker
      BY <2>1, <2>2, RpcCallAssumption DEF RidInv, AnswerServed, EntryServed,
                                           TimeoutServed, ChannelInv
    <3> QED
      BY <3>1, <1>6
  <2>3. ASSUME NEW u \in Worker, NEW v \in Worker, Answering(u)', Answering(v)',
               rid[u] = rid[v]
        PROVE  u = v
    BY <2>1, <2>3 DEF RidInv, AnswerServed
  <2> QED
    BY <1>1, <2>1, <2>2, <2>3, SMTT(30) DEF AnswerServed, Receiver
<1> QED
  BY <1>3, <1>4, <1>5, <1>7, <1>8, <1>9 DEF RidInv

(***************************************************************************)
(* The answer is handed over: both workers are idle again.                 *)
(***************************************************************************)
LEMMA GiveStep ==
  ASSUME CallTypeOK, ChannelInv, RidInv, NEW w \in Worker, Give(w)
  PROVE  RidInv'
<1> DEFINE v == ch[rid[w]]
<1>1. /\ v \in Worker /\ v # w /\ pc[v] = "wait" /\ rid[v] = rid[w] /\ pc[w] = "give"
      /\ rid[w] \in Rid
  BY DEF Give, Receives, ChannelInv, Answering, CallTypeOK
<1>2. /\ pc'[w] = "idle" /\ pc'[v] = "idle"
      /\ \A u \in Worker : u # w /\ u # v => pc'[u] = pc[u] /\ rid'[u] = rid[u]
      /\ UNCHANGED <<globalGID, taskCh, gCbMap, ch, queued, mgr, underway, orphan>>
  BY <1>1 DEF Give, CallTypeOK, hvars
<1> HIDE DEF v
<1>3. Asked' \subseteq Asked
  BY <1>2, ZenonT(20), SMTT(60) DEF Asked, Coming
<1>4. Used' \subseteq Used
  BY <1>2, <1>3 DEF Used, Answering
<1>5. OwnRid' /\ NewRid' /\ OwnChannel' /\ NotAsked'
  BY <1>2, <1>3, <1>4, ZenonT(20), SMTT(60) DEF RidInv, OwnRid, NewRid, OwnChannel,
                                                NotAsked, Calling
<1>6. rid[w] \notin gCbMap /\ rid[w] # mgr
      /\ \A u \in Worker : Answering(u) /\ rid[u] = rid[w] => u = w
  BY <1>1 DEF RidInv, AnswerServed, Answering
<1>7. ASSUME NEW r \in Rid, ch[r] \in Worker, r # rid[w]
      PROVE  /\ WillReceive(r) => WillReceive(r)'
             /\ Receiver(r) => Receiver(r)'
  <2>1. (WillReceive(r) \/ Receiver(r)) => ch[r] # w /\ ch[r] # v
    BY <1>1, <1>7 DEF WillReceive, Receiver
  <2> QED
    BY <1>2, <1>7, <2>1 DEF WillReceive, Receiver
<1>8. EntryServed'
  <2> SUFFICES ASSUME NEW r \in gCbMap
               PROVE  /\ r \in Asked => Receiver(r)'
                      /\ r \in queued => WillReceive(r)' \/ r \in orphan
    BY <1>2, <1>3 DEF EntryServed
  <2>1. r \in Rid /\ ch[r] \in Worker /\ r # rid[w]
    BY <1>6 DEF CallTypeOK, ChannelInv
  <2> QED
    BY <2>1, <1>7 DEF RidInv, EntryServed
<1>9. TimeoutServed'
  <2> SUFFICES ASSUME mgr # Nil
               PROVE  mgr \notin gCbMap /\ (WillReceive(mgr)' \/ mgr \in orphan)
    BY <1>2 DEF TimeoutServed
  <2>1. mgr \in Rid /\ ch[mgr] \in Worker /\ mgr # rid[w]
    BY <1>6 DEF CallTypeOK, ChannelInv
  <2>2. WillReceive(mgr) => ch[mgr] # w /\ ch[mgr] # v
    BY <1>1, <2>1 DEF WillReceive
  <2> QED
    BY <2>1, <2>2, <1>2 DEF RidInv, TimeoutServed, WillReceive
<1>10. AnswerServed'
  <2>1. ASSUME NEW u \in Worker, Answering(u)'
        PROVE  Answering(u) /\ rid'[u] = rid[u] /\ rid[u] \in Rid /\ rid[u] # rid[w]
    BY <2>1, <1>2, <1>6 DEF Answering, CallTypeOK
  <2>2. ASSUME NEW u \in Worker, Answering(u)', NEW r \in Rid, r = rid[u]
        PROVE  r \notin gCbMap /\ r # mgr /\ Receiver(r)'
    BY <2>1, <2>2, <1>7 DEF RidInv, AnswerServed, ChannelInv
  <2> QED
    BY <1>2, <2>1, <2>2, SMTT(30) DEF RidInv, AnswerServed, Receiver
<1> QED
  BY <1>5, <1>8, <1>9, <1>10 DEF RidInv


(***************************************************************************)
(* Only AddCallBack changes a channel, and entries are taken, not made, by *)
(* the manager and by the handlers of answers.                             *)
(***************************************************************************)
LEMMA ChannelInvStep ==
  ASSUME CallTypeOK, ChannelInv, [CallNext]_callVars
  PROVE  ChannelInv'
<1>1. ASSUME UNCHANGED ch, gCbMap' \subseteq gCbMap,
             mgr' \in {mgr, Nil} \/ mgr' \in gCbMap,
             \A w \in Worker : Answering(w)' => /\ rid'[w] = rid[w]
                                                /\ Answering(w) \/ rid[w] \in gCbMap
      PROVE  ChannelInv'
  BY <1>1 DEF ChannelInv
<1>2. ASSUME NEW c \in Call, Request(c) PROVE ChannelInv'
  BY <1>1, <1>2 DEF Request, wvars, Answering
<1>3. ASSUME NEW w \in Worker, TakeCall(w) PROVE ChannelInv'
  BY <1>1, <1>3 DEF TakeCall, Answering, CallTypeOK
<1>4. ASSUME NEW w \in Worker, TakeRsp(w) PROVE ChannelInv'
  BY <1>1, <1>4 DEF TakeRsp, Answering, CallTypeOK
<1>5. ASSUME NEW w \in Worker, LoadBalance(w) PROVE ChannelInv'
  <2>1. \A v \in Worker : Answering(v)' => Answering(v) /\ rid'[v] = rid[v]
    BY <1>5 DEF LoadBalance, Return, Answering, CallTypeOK
  <2> QED
    BY <1>1, <1>5, <2>1 DEF LoadBalance
<1>6. ASSUME NEW w \in Worker, AddCallBack(w) PROVE ChannelInv'
  <2>1. ch' = [ch EXCEPT ![rid[w]] = w] /\ ch \in [Rid -> Worker \cup {Nil}]
    BY <1>6 DEF AddCallBack, CallTypeOK
  <2>2. \A r \in Rid : ch[r] \in Worker \/ r = rid[w] => ch'[r] \in Worker
    BY <2>1
  <2>3. \A v \in Worker : Answering(v)' => Answering(v) /\ rid'[v] = rid[v]
    BY <1>6 DEF AddCallBack, Answering, CallTypeOK
  <2> QED
    BY <1>6, <2>2, <2>3 DEF AddCallBack, ChannelInv, CallTypeOK
<1>7. ASSUME NEW w \in Worker, MessageSend(w) PROVE ChannelInv'
  <2>1. \A v \in Worker : Answering(v)' => Answering(v) /\ rid'[v] = rid[v]
    BY <1>7 DEF MessageSend, Return, Answering, CallTypeOK
  <2> QED
    BY <1>1, <1>7, <2>1 DEF MessageSend
<1>8. ASSUME NEW w \in Worker, Wait(w) PROVE ChannelInv'
  BY <1>1, <1>8 DEF Wait, Answering, CallTypeOK
<1>9. ASSUME NEW w \in Worker, GetCallBack(w) PROVE ChannelInv'
  <2>1. \A v \in Worker : Answering(v)' => /\ rid'[v] = rid[v]
                                           /\ Answering(v) \/ rid[v] \in gCbMap
    BY <1>9 DEF GetCallBack, Answering, CallTypeOK
  <2> QED
    BY <1>1, <1>9, <2>1 DEF GetCallBack
<1>10. ASSUME NEW w \in Worker, Give(w) PROVE ChannelInv'
  <2>1. \A v \in Worker : Answering(v)' => Answering(v) /\ rid'[v] = rid[v]
    BY <1>10 DEF Give, Receives, Answering, CallTypeOK
  <2> QED
    BY <1>1, <1>10, <2>1 DEF Give
<1>11. ASSUME NEW w \in Worker, Select(w) PROVE ChannelInv'
  BY <1>1, <1>11 DEF Select, SelectAdd, SelectDel, Answering, CallTypeOK, Queue
<1>12. ASSUME NEW r \in Rid, Expire(r) PROVE ChannelInv'
  BY <1>1, <1>12 DEF Expire, wvars, Answering, Queue
<1>13. ASSUME NEW r \in Rid, Reply(r) \/ Lose(r) PROVE ChannelInv'
  BY <1>1, <1>13 DEF Reply, Lose, wvars, Answering
<1>14. CASE TimeoutCb
  <2>1. \A v \in Worker : Answering(v)' => Answering(v) /\ rid'[v] = rid[v]
    BY <1>14, ZenonT(20), SMTT(60) DEF TimeoutCb, Receives, Return, Answering, CallTypeOK
  <2> QED
    BY <1>1, <1>14, <2>1 DEF TimeoutCb
<1>15. CASE Disconnect \/ Connect \/ UNCHANGED callVars
  BY <1>1, <1>15 DEF Disconnect, Connect, wvars, callVars, Answering
<1> QED
  BY <1>2, <1>3, <1>4, <1>5, <1>6, <1>7, <1>8, <1>9, <1>10, <1>11, <1>12, <1>13,
     <1>14, <1>15 DEF CallNext, Work


(***************************************************************************)
(* While GenGid has not overflowed, RidInv is preserved.                   *)
(***************************************************************************)
LEMMA RidInvStep ==
  ASSUME CallTypeOK, ChannelInv, RidInv, ~wrapped, [CallNext]_callVars, ~wrapped'
  PROVE  RidInv'
<1>0. /\ pc \in [Worker -> {"idle", "balance", "add", "queue", "send", "sent",
                            "wait", "get", "unlink", "give"}]
      /\ rid \in [Worker -> Rid] /\ globalGID' \in Rid
  BY TypeStep DEF CallTypeOK
<1>1. ASSUME NEW w \in Worker, Calling(w) PROVE rid[w] # 0
  BY <1>1, SMTT(60) DEF RidInv, OwnRid
<1>2. ASSUME NEW c \in Call, Request(c) PROVE RidInv'
  <2>1. CallTask(c) \in Task /\ \A r \in Rid : CallTask(c) # RspTask(r)
    BY SMTT(60) DEF Task, CallTask, RspTask
  <2>2. Coming' \subseteq Coming
    BY <1>2, <2>1, ComingAppend DEF Request
  <2>3. Asked' \subseteq Asked
    BY <1>2, <2>2 DEF Request, wvars, Asked
  <2> QED
    BY <1>2, <2>3, ManagerStep DEF Request, wvars, hvars
<1>3. ASSUME NEW w \in Worker, NextGid, rid' = [rid EXCEPT ![w] = GenGid],
             pc' = [pc EXCEPT ![w] = "balance"]
      PROVE  /\ pc'[w] = "balance" /\ globalGID' = globalGID + 1 /\ rid'[w] = globalGID'
             /\ \A v \in Worker : v # w => pc'[v] = pc[v] /\ rid'[v] = rid[v]
  <2>1. globalGID + 1 # GidMod /\ globalGID \in Rid
    BY <1>3 DEF NextGid, CallTypeOK
  <2>2. globalGID' = globalGID + 1
    BY <1>3, <2>1, GenGidType DEF NextGid
  <2> QED
    BY <1>0, <1>3, <2>2 DEF NextGid
<1>4. ASSUME NEW w \in Worker, TakeCall(w) PROVE RidInv'
  <2>1. Coming' \subseteq Coming
    BY <1>4, ComingTail DEF TakeCall
  <2>2. GivesUp(w)
    BY <1>3, <1>4, <2>1 DEF TakeCall, GivesUp
  <2> QED
    BY <1>0, <2>2, GiveUpStep
<1>5. ASSUME NEW w \in Worker, TakeRsp(w) PROVE RidInv'
  <2>1. taskCh \in Seq(Task)
    BY DEF CallTypeOK, Task
  <2>2. Head(taskCh) \in Task /\ Head(taskCh) = taskCh[1] /\ 1 \in 1..Len(taskCh)
    BY <1>5, <2>1, ChannelStep DEF TakeRsp
  <2>3. Head(taskCh).id \in Rid /\ Head(taskCh) = RspTask(Head(taskCh).id)
    BY <1>5, <2>2, SMTT(60) DEF TakeRsp, Task, CallTask, RspTask
  <2>4. Coming' \subseteq Coming /\ Head(taskCh).id \in Coming
    BY <1>5, <2>2, <2>3, ComingTail DEF TakeRsp, Coming
  <2>5. /\ pc'[w] = "get" /\ rid'[w] = Head(taskCh).id
        /\ \A v \in Worker : v # w => pc'[v] = pc[v] /\ rid'[v] = rid[v]
    BY <1>0, <1>5 DEF TakeRsp
  <2>6. Asked' \subseteq Asked
    BY <1>5, <2>4, <2>5, SMTT(30) DEF TakeRsp, Asked
  <2>7. HandlesRsp(w)
    BY <1>5, <2>5, <2>6 DEF TakeRsp, HandlesRsp, Answering, hvars
  <2> QED
    BY <2>7, RspStep
<1>6. ASSUME NEW w \in Worker, NEW res, Return(w, res)
      PROVE  /\ pc'[w] = "idle"
             /\ \A v \in Worker : v # w => pc'[v] = pc[v] /\ rid'[v] = rid[v]
  BY <1>0, <1>6 DEF Return
<1>7. ASSUME NEW w \in Worker, LoadBalance(w) PROVE RidInv'
  <2>1. CASE gate = 0
    <3>1. GivesUp(w)
      BY <1>6, <1>7, <2>1 DEF LoadBalance, GivesUp, Coming, hvars
    <3> QED
      BY <1>0, <3>1, GiveUpStep
  <2>2. CASE gate # 0
    <3>1. Advance(w)
      BY <1>1, <1>7, <2>2 DEF LoadBalance, Calling, Advance
    <3> QED
      BY <3>1, CallerStep
  <2> QED
    BY <2>1, <2>2
<1>8. ASSUME NEW w \in Worker, AddCallBack(w) \/ SelectAdd(w) \/ Wait(w) PROVE RidInv'
  BY <1>8, CallerStep DEF Advance
<1>9. ASSUME NEW w \in Worker, MessageSend(w) PROVE RidInv'
  <2>1. rid[w] # 0
    BY <1>1, <1>9 DEF MessageSend, Calling
  <2>2. CASE link[w] # gate
    <3>1. GivesUp(w)
      BY <1>6, <1>9, <2>1, <2>2 DEF MessageSend, GivesUp, Coming
    <3> QED
      BY <1>0, <3>1, GiveUpStep
  <2>3. CASE link[w] = gate
    BY <1>9, <2>1, <2>3, CallerStep DEF Advance
  <2> QED
    BY <2>2, <2>3
<1>10. ASSUME NEW w \in Worker, GetCallBack(w) PROVE RidInv'
  <2>1. /\ pc'[w] = IF rid[w] \in gCbMap THEN "unlink" ELSE "idle"
        /\ rid[w] \in gCbMap => rid'[w] = rid[w]
        /\ \A v \in Worker : v # w => pc'[v] = pc[v] /\ rid'[v] = rid[v]
    BY <1>0, <1>10 DEF GetCallBack
  <2>2. Asked' \subseteq Asked /\ rid[w] \in Asked
    BY <1>0, <1>10, <2>1 DEF GetCallBack, Asked, Coming
  <2>3. HandlesRsp(w)
    BY <1>10, <2>1, <2>2, SMTT(30) DEF GetCallBack, HandlesRsp, Answering, hvars
  <2> QED
    BY <2>3, RspStep
<1>11. ASSUME NEW w \in Worker, SelectDel(w) PROVE RidInv'
  <2>1. pc'[w] = "give" /\ \A v \in Worker : v # w => pc'[v] = pc[v]
    BY <1>0, <1>11 DEF SelectDel, Queue
  <2>2. Asked' \subseteq Asked
    BY <1>11, <2>1 DEF SelectDel, Asked, Coming, Queue
  <2>3. HandlesRsp(w)
    BY <1>11, <2>1, <2>2 DEF SelectDel, HandlesRsp, Answering, hvars, Queue
  <2> QED
    BY <2>3, RspStep
<1>12. ASSUME NEW w \in Worker, Give(w) PROVE RidInv'
  BY <1>12, GiveStep
<1>13. ASSUME NEW r \in Rid, Expire(r) PROVE RidInv'
  <2>1. Asked' \subseteq Asked
    BY <1>13 DEF Expire, wvars, Asked, Coming, Queue
  <2> QED
    BY <1>13, <2>1, ManagerStep DEF Expire, wvars, hvars, Queue
<1>14. ASSUME NEW r \in Rid, Reply(r) PROVE RidInv'
  <2>1. RspTask(r) \in Task /\ \A q \in Rid : RspTask(q) = RspTask(r) => q = r
    BY SMTT(60) DEF Task, RspTask
  <2>2. Coming' \subseteq Coming \cup {r}
    BY <1>14, <2>1, ComingAppend DEF Reply
  <2>3. Asked' \subseteq Asked
    BY <1>14, <2>2 DEF Reply, wvars, Asked
  <2> QED
    BY <1>14, <2>3, ManagerStep DEF Reply, wvars, hvars
<1>15. CASE (\E r \in Rid : Lose(r)) \/ Disconnect \/ Connect \/ UNCHANGED callVars
  <2>1. /\ underway' \subseteq underway
        /\ UNCHANGED <<globalGID, taskCh, pc, rid, gCbMap, ch, queued, mgr, orphan>>
    BY <1>15 DEF Lose, Disconnect, Connect, callVars, wvars, hvars
  <2>2. Asked' \subseteq Asked
    BY <2>1 DEF Asked, Coming
  <2> QED
    BY <2>1, <2>2, ManagerStep
<1>16. CASE TimeoutCb
  <2> DEFINE w == ch[mgr]
  <2>1. w \in Worker /\ pc[w] = "wait" /\ rid[w] = mgr /\ mgr' = Nil
    BY <1>16 DEF TimeoutCb, Receives, ChannelInv
  <2>2. UNCHANGED <<taskCh, gCbMap, ch, queued, underway, orphan>>
    BY <1>16 DEF TimeoutCb
  <2>3. \/ /\ NextGid /\ rid' = [rid EXCEPT ![w] = GenGid]
           /\ pc' = [pc EXCEPT ![w] = "balance"]
        \/ Return(w, "timeout") /\ globalGID' = globalGID
    BY <1>16 DEF TimeoutCb
  <2> HIDE DEF w
  <2>4. /\ \/ pc'[w] = "idle" /\ globalGID' = globalGID
           \/ pc'[w] = "balance" /\ globalGID' = globalGID + 1 /\ rid'[w] = globalGID'
        /\ \A v \in Worker : v # w => pc'[v] = pc[v] /\ rid'[v] = rid[v]
    BY <2>1, <2>3, <1>3, <1>6
  <2>5. GivesUp(w)
    BY <2>1, <2>2, <2>4 DEF GivesUp, Coming
  <2> QED
    BY <1>0, <2>1, <2>5, GiveUpStep
<1> QED
  BY <1>2, <1>4, <1>5, <1>7, <1>8, <1>9, <1>10, <1>11, <1>12, <1>13, <1>14, <1>15,
     <1>16 DEF CallNext, Work, Select


(***************************************************************************)
(* As long as the gate's connection was never lost, it is the first one,   *)
(* and so is the one that a caller has chosen.                             *)
(***************************************************************************)
LinkInv ==
    drops = 0 => /\ gate = 1
                 /\ \A w \in Worker : pc[w] \in {"add", "queue", "send"} => link[w] = 1

LEMMA LinkInvStep ==
  ASSUME CallTypeOK, LinkInv, [CallNext]_callVars
  PROVE  LinkInv' /\ (drops' = 0 => drops = 0)
<1>0. /\ pc \in [Worker -> {"idle", "balance", "add", "queue", "send", "sent",
                            "wait", "get", "unlink", "give"}]
      /\ link \in [Worker -> Nat]
  BY DEF CallTypeOK
<1>1. ASSUME UNCHANGED <<gate, drops, link>>,
             \A v \in Worker : pc'[v] \in {"add", "queue", "send"} =>
                                 pc[v] \in {"add", "queue", "send"}
      PROVE  LinkInv'
  BY <1>1 DEF LinkInv
<1>2. ASSUME NEW w, NEW res, Return(w, res), UNCHANGED <<gate, drops>>
      PROVE  LinkInv'
  BY <1>0, <1>2 DEF LinkInv, Return
<1>3. ASSUME NEW w \in Worker, TakeCall(w) \/ TakeRsp(w) PROVE LinkInv' /\ drops' = drops
  BY <1>0, <1>1, <1>3 DEF TakeCall, TakeRsp
<1>4. ASSUME NEW w \in Worker, LoadBalance(w) PROVE LinkInv' /\ drops' = drops
  <2>1. CASE gate = 0
    BY <1>2, <1>4, <2>1 DEF LoadBalance
  <2>2. CASE gate # 0
    BY <1>0, <1>4, <2>2 DEF LoadBalance, LinkInv
  <2> QED
    BY <2>1, <2>2
<1>5. ASSUME NEW w \in Worker, AddCallBack(w) \/ Wait(w) \/ GetCallBack(w)
      PROVE  LinkInv' /\ drops' = drops
  BY <1>0, <1>1, <1>5 DEF AddCallBack, Wait, GetCallBack
<1>6. ASSUME NEW w \in Worker, SelectAdd(w) \/ SelectDel(w)
      PROVE  LinkInv' /\ drops' = drops
  BY <1>0, <1>1, <1>6 DEF SelectAdd, SelectDel, Queue
<1>7. ASSUME NEW w \in Worker, MessageSend(w) PROVE LinkInv' /\ drops' = drops
  <2>1. CASE Return(w, "empty")
    BY <1>2, <1>7, <2>1 DEF MessageSend
  <2>2. CASE ~Return(w, "empty")
    BY <1>0, <1>1, <1>7, <2>2 DEF MessageSend
  <2> QED
    BY <2>1, <2>2
<1>8. ASSUME NEW w \in Worker, Give(w) PROVE LinkInv' /\ drops' = drops
  BY <1>0, <1>8 DEF Give, LinkInv
<1>9. CASE TimeoutCb
  <2> DEFINE w == ch[mgr]
  <2>1. CASE Return(w, "timeout")
    BY <1>2, <1>9, <2>1 DEF TimeoutCb
  <2>2. CASE ~Return(w, "timeout")
    BY <1>0, <1>1, <1>9, <2>2 DEF TimeoutCb
  <2> QED
    BY <2>1, <2>2, <1>9 DEF TimeoutCb
<1>10. CASE Disconnect
  <2>1. drops' # 0
    BY <1>10, RpcCallAssumption, SMTT(60) DEF Disconnect, CallTypeOK
  <2> QED
    BY <2>1 DEF LinkInv
<1>11. CASE Connect
  <2>1. drops # 0 /\ drops' = drops
    BY <1>11, SMTT(60) DEF Connect, LinkInv
  <2> QED
    BY <2>1 DEF LinkInv
<1>12. CASE \/ \E c \in Call : Request(c)
            \/ \E r \in Rid : Expire(r) \/ Reply(r) \/ Lose(r)
            \/ UNCHANGED callVars
  BY <1>1, <1>12 DEF Request, Expire, Reply, Lose, wvars, callVars, Queue
<1> QED
  BY <1>3, <1>4, <1>5, <1>6, <1>7, <1>8, <1>9, <1>10, <1>11, <1>12 DEF CallNext, Work,
     Select

(***************************************************************************)
(* What RpcCall returns in a step.                                         *)
(***************************************************************************)
LEMMA EmptyStep ==
  ASSUME CallTypeOK, ~wrapped, RidInv, drops = 0, LinkInv, [CallNext]_callVars,
         \A c \in Call : result[c] # "empty"
  PROVE  \A c \in Call : result'[c] # "empty"
<1>0. gate = 1 /\ gate # 0 /\ result \in [Call -> {"none", "reply", "timeout", "empty"}]
  BY SMTT(60) DEF LinkInv, CallTypeOK
<1>1. ASSUME NEW w \in Worker, LoadBalance(w) PROVE result' = result
  BY <1>0, <1>1 DEF LoadBalance
<1>2. ASSUME NEW w \in Worker, MessageSend(w) PROVE result' = result
  <2>1. Calling(w) /\ link[w] = gate
    BY <1>0, <1>2 DEF MessageSend, LinkInv, Calling
  <2>2. rid[w] # 0
    BY <2>1, SMTT(60) DEF RidInv, OwnRid
  <2> QED
    BY <1>2, <2>1, <2>2 DEF MessageSend
<1>3. ASSUME NEW w \in Worker, Give(w) PROVE \A c \in Call : result'[c] # "empty"
  BY <1>0, <1>3 DEF Give
<1>4. CASE TimeoutCb
  BY <1>0, <1>4 DEF TimeoutCb, Return
<1>5. ASSUME NEW w \in Worker,
             TakeCall(w) \/ TakeRsp(w) \/ AddCallBack(w) \/ Wait(w) \/ GetCallBack(w) \/ Select(w)
      PROVE  result' = result
  BY <1>5 DEF TakeCall, TakeRsp, AddCallBack, Wait, GetCallBack, Select, SelectAdd,
              SelectDel, Queue
<1>6. CASE \/ \E c \in Call : Request(c)
           \/ \E r \in Rid : Expire(r) \/ Reply(r) \/ Lose(r)
           \/ Disconnect \/ Connect \/ UNCHANGED callVars
  BY <1>6 DEF Request, Expire, Reply, Lose, Disconnect, Connect, callVars, Queue
<1> QED
  BY <1>1, <1>2, <1>3, <1>4, <1>5, <1>6 DEF CallNext, Work

(***************************************************************************)
(* The inductive invariant of RpcCall.                                     *)
(***************************************************************************)
RpcInv == /\ CallTypeOK /\ ChannelInv /\ LinkInv
          /\ ~wrapped => RidInv
          /\ EmptyOnlyIfDropped

(***************************************************************************)
(* An overflow of GenGid is not forgotten.                                 *)
(***************************************************************************)
LEMMA WrappedStays ==
  ASSUME [CallNext]_callVars, wrapped
  PROVE  wrapped'
BY DEF CallNext, Work, Select, callVars, hvars, Request, TakeCall, NextGid, TakeRsp,
       LoadBalance,
       AddCallBack, MessageSend, Wait, GetCallBack, Give, SelectAdd, SelectDel, Expire,
       Reply, Lose, TimeoutCb, Disconnect, Connect, Queue

LEMMA RpcInvStep == RpcInv /\ [CallNext]_callVars => RpcInv'
<1> SUFFICES ASSUME RpcInv, [CallNext]_callVars PROVE RpcInv'
  OBVIOUS
<1>1. CallTypeOK' /\ ChannelInv' /\ LinkInv' /\ (drops' = 0 => drops = 0)
  BY TypeStep, ChannelInvStep, LinkInvStep DEF RpcInv
<1>2. ~wrapped' => ~wrapped
  BY WrappedStays
<1>3. ~wrapped' => RidInv'
  BY <1>2, RidInvStep DEF RpcInv
<1>4. EmptyOnlyIfDropped'
  <2>1. (drops > 0) = (drops # 0) /\ (drops' > 0) = (drops' # 0)
    BY <1>1, RpcCallAssumption, SMTT(60) DEF RpcInv, CallTypeOK
  <2> QED
    BY <2>1, <1>1, <1>2, EmptyStep DEF RpcInv, EmptyOnlyIfDropped
<1> QED
  BY <1>1, <1>3, <1>4 DEF RpcInv

LEMMA RpcInvInit == CallInit => RpcInv
<1> SUFFICES ASSUME CallInit PROVE RpcInv
  OBVIOUS
<1>1. LinkInv /\ EmptyOnlyIfDropped
  BY DEF CallInit, LinkInv, EmptyOnlyIfDropped
<1> QED
  BY <1>1, TypeInit, RidInvInit DEF RpcInv

(***************************************************************************)
(* RpcInv is an invariant of every behaviour of RpcCall.                   *)
(***************************************************************************)
THEOREM RpcInvariant == CallSpec => []RpcInv
BY RpcInvInit, RpcInvStep, PTL DEF CallSpec

(***************************************************************************)
(* Every variable of RpcCall keeps its type.                               *)
(***************************************************************************)
THEOREM RpcTypeCorrect == CallSpec => []CallTypeOK
<1>1. RpcInv => CallTypeOK
  BY DEF RpcInv
<1> QED
  BY <1>1, RpcInvariant, PTL

(***************************************************************************)
(* Until GenGid has counted through its 2^32 values, the handler of an     *)
(* answer and the manager that runs a timeout have a caller that receives  *)
(* on the channel, for any number of calls, workers, resends and lost      *)
(* connections. (After that a rid may belong to two calls.)                *)
(***************************************************************************)
THEOREM NobodySendsInVain == CallSpec => []SenderHasReceiver
<1>1. RpcInv => SenderHasReceiver
  BY DEF RpcInv, RidInv, AnswerServed, TimeoutServed, SenderHasReceiver,
         ResponderHasReceiver, TimeoutHasReceiver, Answering, Receiver, WillReceive
<1> QED
  BY <1>1, RpcInvariant, PTL

(***************************************************************************)
(* RpcCallSync returns nothing at all only after a lost connection or an   *)
(* overflow of GenGid.                                                     *)
(***************************************************************************)
THEOREM NeverEmptyWhileConnected == CallSpec => []EmptyOnlyIfDropped
<1>1. RpcInv => EmptyOnlyIfDropped
  BY DEF RpcInv
<1> QED
  BY <1>1, RpcInvariant, PTL
-----------------------------------------------------------------------------
(***************************************************************************)
(* What the proofs about LoadBalancer use of the theory of finite sets; it *)
(* is a hypothesis of the lemmas and proved before the theorems.           *)
(***************************************************************************)
FiniteSetFacts ==
    /\ Cardinality({}) = 0
    /\ \A S : IsFiniteSet(S) => Cardinality(S) \in Nat /\ (Cardinality(S) = 0 => S = {})
    /\ \A S, x : IsFiniteSet(S) /\ x \notin S => Cardinality(S \cup {x}) = Cardinality(S) + 1
    /\ \A S, x : IsFiniteSet(S) /\ x \in S =>
          IsFiniteSet(S \ {x}) /\ Cardinality(S \ {x}) = Cardinality(S) - 1
    /\ \A S : \A T \in SUBSET S :
          IsFiniteSet(S) => IsFiniteSet(T) /\ Cardinality(T) <= Cardinality(S)

LEMMA NoElements ==
  ASSUME FiniteSetFacts
  PROVE  Cardinality({}) = 0
BY DEF FiniteSetFacts

LEMMA Sizes ==
  ASSUME FiniteSetFacts, NEW S, IsFiniteSet(S)
  PROVE  Cardinality(S) \in Nat /\ (Cardinality(S) = 0 => S = {})
BY DEF FiniteSetFacts

LEMMA OneMore ==
  ASSUME FiniteSetFacts, NEW S, NEW x, IsFiniteSet(S), x \notin S
  PROVE  Cardinality(S \cup {x}) = Cardinality(S) + 1
BY DEF FiniteSetFacts

LEMMA OneLess ==
  ASSUME FiniteSetFacts, NEW S, NEW x, IsFiniteSet(S), x \in S
  PROVE  IsFiniteSet(S \ {x}) /\ Cardinality(S \ {x}) = Cardinality(S) - 1
BY DEF FiniteSetFacts

LEMMA Subsets ==
  ASSUME FiniteSetFacts, NEW S, IsFiniteSet(S), NEW T \in SUBSET S
  PROVE  IsFiniteSet(T) /\ Cardinality(T) <= Cardinality(S)
BY DEF FiniteSetFacts

(***************************************************************************)
(* A set of naturals that is not empty has a least element.                *)
(***************************************************************************)
LEMMA LeastElement ==
  ASSUME NEW T \in SUBSET Nat, T # {}
  PROVE  \E x \in T : \A y \in T : x <= y
<1>1. \E x \in T : \A y \in T : ~(<<y, x>> \in OpToRel(<, Nat))
  BY NatLessThanWellFounded, WFMin, ZenonT(60)
<1>2. PICK x \in T : \A y \in T : ~(<<y, x>> \in OpToRel(<, Nat))
  BY <1>1, ZenonT(60)
<1>3. \A y \in T : ~(y < x)
  BY <1>2, ZenonT(60) DEF OpToRel
<1> QED
  BY <1>3, SMTT(30)

(***************************************************************************)
(* How many elements of S are smaller than e.                              *)
(***************************************************************************)
Below(S, e) == {f \in S : f < e}

LEMMA BelowFinite ==
  ASSUME FiniteSetFacts, NEW S \in SUBSET Nat, IsFiniteSet(S), NEW e \in Nat
  PROVE  /\ IsFiniteSet(Below(S, e))
         /\ Cardinality(Below(S, e)) \in Nat
         /\ Cardinality(Below(S, e)) <= Cardinality(S)
         /\ Cardinality(S) \in Nat
<1>1. Below(S, e) \subseteq S
  BY DEF Below
<1> QED
  BY <1>1, Subsets, Sizes

(***************************************************************************)
(* The smallest element has rank 0, and the element after one of rank j,   *)
(* if there is one, has rank j + 1.                                        *)
(***************************************************************************)
LEMMA FirstRank ==
  ASSUME FiniteSetFacts, NEW S \in SUBSET Nat, S # {}
  PROVE  \E e \in S : Cardinality(Below(S, e)) = 0
<1>1. PICK e \in S : \A f \in S : e <= f
  BY LeastElement
<1>2. \A f \in S : ~(f < e)
  BY <1>1
<1>3. Below(S, e) = {}
  BY <1>2, ZenonT(60) DEF Below
<1>4. Cardinality(Below(S, e)) = 0
  BY <1>3, NoElements
<1> QED
  BY <1>4

LEMMA NextRank ==
  ASSUME FiniteSetFacts, NEW S \in SUBSET Nat, IsFiniteSet(S), NEW d \in S, NEW j \in Nat,
         Cardinality(Below(S, d)) = j, j + 1 < Cardinality(S)
  PROVE  \E e \in S : Cardinality(Below(S, e)) = j + 1
<1>1. IsFiniteSet(Below(S, d)) /\ d \notin Below(S, d) /\ Cardinality(S) \in Nat
  BY BelowFinite, SMTT(30) DEF Below
<1>2. PICK U : U = Below(S, d) \cup {d}
  BY ZenonT(60)
<1>3. Cardinality(U) = j + 1
  BY <1>1, <1>2, OneMore, ZenonT(60)
<1>4. PICK A : A = {f \in S : d < f}
  BY ZenonT(60)
<1>5. U \subseteq S /\ \A f \in S : f \in U <=> f <= d
  <2>1. \A f \in S : f \in Nat
    OBVIOUS
  <2>2. \A f \in S : f \in U <=> (f < d \/ f = d)
    BY <1>2 DEF Below
  <2> QED
    BY <1>2, <2>1, <2>2 DEF Below
<1>6. A # {}
  <2>1. SUFFICES ASSUME A = {} PROVE FALSE
    OBVIOUS
  <2>2. \A f \in S : f <= d
    BY <1>4, <2>1
  <2>3. \A f \in S : f \in U
    BY <1>5, <2>2
  <2>4. U = S
    BY <1>5, <2>3, ZenonT(60)
  <2> QED
    BY <1>3, <2>4, <1>1
<1>7. PICK e \in A : \A f \in A : e <= f
  <2>1. A \in SUBSET Nat
    BY <1>4, ZenonT(60)
  <2> QED
    BY <1>6, <2>1, LeastElement
<1>8. Below(S, e) \subseteq S /\ \A f \in S : f \in Below(S, e) <=> f <= d
  <2>1. e \in S /\ e \in Nat /\ d < e /\ \A f \in S : f \in Nat
    BY <1>4, <1>7
  <2>2. \A f \in S : f < e <=> f <= d
    BY <1>4, <1>7, <2>1
  <2> QED
    BY <2>2 DEF Below
<1>9. Below(S, e) = U
  BY <1>5, <1>8, ZenonT(60)
<1> QED
  BY <1>3, <1>4, <1>7, <1>9

(***************************************************************************)
(* The sorted copy of the keys has an element at every index below its     *)
(* length.                                                                 *)
(***************************************************************************)
HasRank(S, i) == \E e \in S : Cardinality(Below(S, e)) = i

LEMMA RankExists ==
  ASSUME FiniteSetFacts, NEW S \in SUBSET Nat, IsFiniteSet(S), NEW i \in Nat, i < Cardinality(S)
  PROVE  HasRank(S, i)
<1>0. Cardinality(S) \in Nat
  BY Sizes
<1>1. SUFFICES ASSUME ~HasRank(S, i) PROVE FALSE
  OBVIOUS
<1>2. PICK bad : bad = {k \in Nat : k < Cardinality(S) /\ ~HasRank(S, k)}
  BY ZenonT(60)
<1>3. bad \in SUBSET Nat /\ bad # {}
  BY <1>1, <1>2
<1>4. PICK k \in bad : \A y \in bad : k <= y
  BY <1>3, LeastElement
<1>5. k \in Nat /\ k < Cardinality(S) /\ ~HasRank(S, k)
  BY <1>2, <1>4
<1>6. CASE k = 0
  <2>1. S # {}
    BY <1>0, <1>5, NoElements, SMTT(30)
  <2> QED
    BY <1>5, <1>6, <2>1, FirstRank DEF HasRank
<1>7. CASE k > 0
  <2>1. k - 1 \in Nat /\ k - 1 < Cardinality(S) /\ k - 1 \notin bad /\ (k - 1) + 1 = k
    BY <1>0, <1>4, <1>5, <1>7, SMTT(30)
  <2>2. HasRank(S, k - 1)
    BY <1>2, <2>1
  <2>3. PICK d \in S : Cardinality(Below(S, d)) = k - 1
    BY <2>2 DEF HasRank
  <2>4. \E e \in S : Cardinality(Below(S, e)) = (k - 1) + 1
    BY <1>5, <2>1, <2>3, NextRank
  <2> QED
    BY <1>5, <2>1, <2>4 DEF HasRank
<1> QED
  BY <1>5, <1>6, <1>7

LEMMA NthInSet ==
  ASSUME FiniteSetFacts, NEW S \in SUBSET Nat, IsFiniteSet(S), NEW i \in Nat, i < Cardinality(S)
  PROVE  Nth(S, i) \in S
<1>1. \E e \in S : Cardinality({f \in S : f < e}) = i
  BY RankExists DEF Below, HasRank
<1> QED
  BY <1>1 DEF Nth

-----------------------------------------------------------------------------
(***************************************************************************)
(* A caller that is about to pick holds a copy that is not empty, and      *)
(* rrbIdx never passes the number of elements, so it never wraps around.   *)
(***************************************************************************)
PickInv == \A p \in Caller : at[p] = "pick" => m[p] # {}

IdxInv == rrbIdx <= Cardinality(Element)

LbInv == LbTypeOK /\ PickInv /\ IdxInv

LEMMA Width ==
  /\ UINT16 \in Nat /\ UINT16 > 0
  /\ \A x \in Nat : x < UINT16 => x % UINT16 = x
BY SMTT(60) DEF UINT16

LEMMA SubsetCard ==
  ASSUME FiniteSetFacts, NEW S \in SUBSET Element
  PROVE  /\ S \in SUBSET Nat
         /\ IsFiniteSet(S)
         /\ Cardinality(S) \in Nat
         /\ Cardinality(S) <= Cardinality(Element)
         /\ Cardinality(S) % UINT16 = Cardinality(S)
         /\ S # {} => Cardinality(S) > 0
<1>1. IsFiniteSet(S) /\ Cardinality(S) <= Cardinality(Element)
  BY ElementAssumption, Subsets, ZenonT(60)
<1>2. Cardinality(S) \in Nat /\ Cardinality(Element) \in Nat
  BY <1>1, ElementAssumption, Sizes
<1>3. S # {} => Cardinality(S) > 0
  BY <1>1, <1>2, Sizes, SMTT(30)
<1> QED
  BY <1>1, <1>2, <1>3, ElementAssumption, Width, SMTT(30)

LEMMA IndexBelow ==
  ASSUME FiniteSetFacts, LbInv, NEW p \in Caller, at[p] = "pick"
  PROVE  /\ Index(p) \in Nat
         /\ Index(p) < Cardinality(m[p])
         /\ Index(p) = IF rrbIdx >= Cardinality(m[p]) THEN 0 ELSE rrbIdx
<1>1. m[p] \in SUBSET Element /\ m[p] # {} /\ rrbIdx \in Nat
  BY Width, SMTT(30) DEF LbInv, LbTypeOK, PickInv
<1>2. Cardinality(m[p]) \in Nat /\ Cardinality(m[p]) % UINT16 = Cardinality(m[p])
      /\ Cardinality(m[p]) > 0
  BY <1>1, SubsetCard
<1> QED
  BY <1>1, <1>2, SMTT(30) DEF Index

LEMMA PickStep ==
  ASSUME FiniteSetFacts, LbInv, NEW p \in Caller, Pick(p)
  PROVE  /\ Nth(m[p], Index(p)) \in m[p]
         /\ rrbIdx' = Index(p) + 1
         /\ rrbIdx' \in Nat /\ rrbIdx' <= Cardinality(Element)
<1>1. at[p] = "pick" /\ m[p] \in SUBSET Element
  BY DEF Pick, LbInv, LbTypeOK
<1>2. Index(p) \in Nat /\ Index(p) < Cardinality(m[p])
  BY <1>1, IndexBelow
<1>3. m[p] \in SUBSET Nat /\ IsFiniteSet(m[p]) /\ Cardinality(m[p]) \in Nat
      /\ Cardinality(m[p]) <= Cardinality(Element)
  BY <1>1, SubsetCard
<1>4. Nth(m[p], Index(p)) \in m[p]
  BY <1>2, <1>3, NthInSet
<1>5. Cardinality(Element) \in Nat /\ Cardinality(Element) < UINT16
  BY ElementAssumption, Sizes
<1>6. Index(p) + 1 \in Nat /\ Index(p) + 1 <= Cardinality(Element)
      /\ Index(p) + 1 < UINT16
  BY <1>2, <1>3, <1>5, Width, SMTT(30)
<1>7. rrbIdx' = Index(p) + 1
  BY <1>6, Width DEF Pick
<1> QED
  BY <1>4, <1>6, <1>7

LEMMA LbInitInv ==
  ASSUME FiniteSetFacts, LbInit
  PROVE  LbInv
<1>1. Cardinality(Element) \in Nat
  BY ElementAssumption, Sizes
<1> QED
  BY <1>1, Width, SMTT(30) DEF LbInit, LbInv, LbTypeOK, PickInv, IdxInv

LEMMA LbInvStep ==
  ASSUME FiniteSetFacts, LbInv, [LbNext]_lbVars
  PROVE  LbInv'
<1> USE DEF LbInv, LbTypeOK, PickInv, IdxInv
<1>1. ASSUME NEW e \in Element, AddElement(e) PROVE LbInv'
  BY <1>1 DEF AddElement
<1>2. ASSUME NEW e \in Element, DelElement(e) PROVE LbInv'
  BY <1>2 DEF DelElement
<1>3. ASSUME NEW p \in Caller, Begin(p) PROVE LbInv'
  BY <1>3, SMTT(30) DEF Begin
<1>4. ASSUME NEW p \in Caller, Pick(p) PROVE LbInv'
  <2>1. rrbIdx' \in 0..(UINT16 - 1) /\ rrbIdx' <= Cardinality(Element)
    <3>1. rrbIdx' \in Nat /\ rrbIdx' <= Cardinality(Element)
      BY <1>4, PickStep
    <3>2. Cardinality(Element) \in Nat /\ Cardinality(Element) < UINT16
      BY ElementAssumption, Sizes
    <3> QED
      BY <3>1, <3>2, Width, SMTT(30)
  <2>2. ele' \in [Caller -> Element \cup {NoElement}]
    <3>1. Nth(m[p], Index(p)) \in Element
      BY <1>4, PickStep
    <3> QED
      BY <1>4, <3>1 DEF Pick
  <2>3. picks' \in [Element -> Nat]
    BY <1>4, SMTT(30) DEF Pick
  <2>4. at' \in [Caller -> {"idle", "pick", "weigh"}] /\ PickInv'
    BY <1>4 DEF Pick
  <2> QED
    BY <1>4, <2>1, <2>2, <2>3, <2>4 DEF Pick
<1>5. ASSUME NEW p \in Caller, Weigh(p) PROVE LbInv'
  BY <1>5, SMTT(30) DEF Weigh
<1>6. CASE UNCHANGED lbVars
  BY <1>6 DEF lbVars
<1> QED
  BY <1>1, <1>2, <1>3, <1>4, <1>5, <1>6 DEF LbNext

-----------------------------------------------------------------------------
(***************************************************************************)
(* Fairness of round robin.  Since the last change the indices have been   *)
(* taken one after the other, from some start s to the one before Cur,     *)
(* around the end of the keys: the elements in that stretch have been      *)
(* chosen k + 1 times, the others k times.                                 *)
(***************************************************************************)
Cur == IF rrbIdx >= Cardinality(elements) THEN 0 ELSE rrbIdx

Rank(e) == Cardinality(Below(elements, e))

Between(s, r, i) == IF s <= r THEN s <= i /\ i < r ELSE s <= i \/ i < r

Round(k, s) ==
    \A e \in elements : picks[e] = IF Between(s, Cur, Rank(e)) THEN k + 1 ELSE k

RoundInv ==
    elements # {} => \E k \in Nat, s \in 0..(Cardinality(elements) - 1) : Round(k, s)

LEMMA RankBound ==
  ASSUME FiniteSetFacts, NEW S \in SUBSET Nat, IsFiniteSet(S), NEW e \in S
  PROVE  Cardinality(Below(S, e)) \in Nat /\ Cardinality(Below(S, e)) < Cardinality(S)
<1>1. Below(S, e) \subseteq S \ {e}
  BY DEF Below
<1>2. IsFiniteSet(S \ {e}) /\ Cardinality(S \ {e}) = Cardinality(S) - 1
  BY OneLess
<1>3. IsFiniteSet(Below(S, e)) /\ Cardinality(Below(S, e)) <= Cardinality(S) - 1
  BY <1>1, <1>2, Subsets, SMTT(30)
<1>4. Cardinality(S) \in Nat /\ Cardinality(Below(S, e)) \in Nat
  BY <1>3, Sizes
<1> QED
  BY <1>3, <1>4

LEMMA RankGrows ==
  ASSUME FiniteSetFacts, NEW S \in SUBSET Nat, IsFiniteSet(S), NEW e \in S, NEW f \in S, e < f
  PROVE  Cardinality(Below(S, e)) < Cardinality(Below(S, f))
<1>1. PICK U : U = Below(S, e) \cup {e}
  BY ZenonT(60)
<1>2. e \notin Below(S, e) /\ IsFiniteSet(Below(S, e)) /\ Cardinality(Below(S, e)) \in Nat
  BY BelowFinite, SMTT(30) DEF Below
<1>3. Cardinality(U) = Cardinality(Below(S, e)) + 1
  BY <1>1, <1>2, OneMore, ZenonT(60)
<1>4. U \subseteq Below(S, f)
  <2>1. \A g \in S : g < e => g < f
    OBVIOUS
  <2> QED
    BY <1>1, <2>1, ZenonT(60) DEF Below
<1>5. IsFiniteSet(Below(S, f)) /\ Cardinality(Below(S, f)) \in Nat
  BY BelowFinite
<1>6. Cardinality(U) <= Cardinality(Below(S, f))
  BY <1>4, <1>5, Subsets
<1> QED
  BY <1>2, <1>3, <1>5, <1>6, SMTT(30)

LEMMA RankInjective ==
  ASSUME FiniteSetFacts, NEW S \in SUBSET Nat, IsFiniteSet(S), NEW e \in S, NEW f \in S,
         Cardinality(Below(S, e)) = Cardinality(Below(S, f))
  PROVE  e = f
<1>1. Cardinality(Below(S, e)) \in Nat /\ Cardinality(Below(S, f)) \in Nat
  BY BelowFinite
<1>2. ~(e < f) /\ ~(f < e)
  BY <1>1, RankGrows
<1> QED
  BY <1>2

LEMMA NthRank ==
  ASSUME FiniteSetFacts, NEW S \in SUBSET Nat, IsFiniteSet(S), NEW i \in Nat, i < Cardinality(S)
  PROVE  Cardinality(Below(S, Nth(S, i))) = i
<1>1. \E e \in S : Cardinality({f \in S : f < e}) = i
  BY RankExists DEF Below, HasRank
<1> QED
  BY <1>1 DEF Nth, Below

(***************************************************************************)
(* One pick moves the end of the stretch by one; when it meets the start,  *)
(* the round is complete and the next begins there.                        *)
(***************************************************************************)
Moved(s, c, d, i) ==
    /\ s # d /\ i # c => (Between(s, d, i) <=> Between(s, c, i))
    /\ s # d => Between(s, d, c) /\ ~Between(s, c, c)
    /\ s = d /\ i # c => Between(s, c, i) /\ ~Between(d, d, i)
    /\ s = d => ~Between(s, c, c) /\ ~Between(d, d, c)

LEMMA RoundArithmetic ==
  ASSUME NEW n \in Nat, NEW s \in 0..(n - 1), NEW c \in 0..(n - 1),
         NEW d, d = IF c + 1 >= n THEN 0 ELSE c + 1,
         NEW i \in 0..(n - 1)
  PROVE  Moved(s, c, d, i)
BY SMTT(60) DEF Moved, Between

LEMMA AllZero ==
  ASSUME FiniteSetFacts, LbTypeOK', \A e \in elements' : picks'[e] = 0
  PROVE  RoundInv'
<1> SUFFICES ASSUME elements' # {}
             PROVE  \E k \in Nat, s \in 0..(Cardinality(elements') - 1) : Round(k, s)'
  BY DEF RoundInv
<1>0. elements' \in SUBSET Element
  BY DEF LbTypeOK
<1>1. Cardinality(elements') \in Nat /\ Cardinality(elements') > 0 /\ rrbIdx' \in Nat
  BY <1>0, SubsetCard, Width, SMTT(30) DEF LbTypeOK
<1>2. Cur' \in 0..(Cardinality(elements') - 1)
  BY <1>1, SMTT(30) DEF Cur
<1>3. Cur' \in Nat /\ \A e \in elements' : Rank(e)' \in Nat
  BY <1>0, <1>2, SubsetCard, RankBound, SMTT(30) DEF Rank
<1>4. \A e \in elements' : ~Between(Cur', Cur', Rank(e)')
  BY <1>3 DEF Between
<1>5. \E s \in 0..(Cardinality(elements') - 1) : Round(0, s)'
  BY <1>2, <1>4 DEF Round
<1> QED
  BY <1>5

LEMMA RoundStep ==
  ASSUME FiniteSetFacts, LbInv, LbInv', RoundInv, NEW p \in Caller, Pick(p), m[p] = elements
  PROVE  RoundInv'
<1>1. elements # {} /\ elements \in SUBSET Element /\ elements' = elements
      /\ at[p] = "pick" /\ picks \in [Element -> Nat]
  BY DEF LbInv, PickInv, LbTypeOK, Pick
<1>2. elements \in SUBSET Nat /\ IsFiniteSet(elements) /\ Cardinality(elements) \in Nat
  BY <1>1, SubsetCard
<1>3. PICK n \in Nat : n = Cardinality(elements)
  BY <1>2
<1>4. PICK c \in Nat : c = Index(p)
  BY <1>1, IndexBelow
<1>5. c < n /\ c = Cur
  BY <1>1, <1>3, <1>4, IndexBelow DEF Cur
<1>6. PICK x \in elements : x = Nth(elements, c) /\ Rank(x) = c
  BY <1>1, <1>2, <1>3, <1>5, NthInSet, NthRank, ZenonT(60) DEF Rank
<1>7. \A e \in elements : Rank(e) \in 0..(n - 1) /\ (Rank(e) = c => e = x)
  <2> TAKE e \in elements
  <2>1. Rank(e) \in Nat /\ Rank(e) < n
    BY <1>2, <1>3, RankBound DEF Rank
  <2>2. Rank(e) = c => e = x
    <3> HAVE Rank(e) = c
    <3>1. Cardinality(Below(elements, e)) = Cardinality(Below(elements, x))
      BY <1>6 DEF Rank
    <3> QED
      BY <1>2, <3>1, RankInjective, SMTT(30)
  <2> QED
    BY <2>1, <2>2, SMTT(30)
<1>8. PICK d : d = IF c + 1 >= n THEN 0 ELSE c + 1
  OBVIOUS
<1>9. d \in 0..(n - 1) /\ c \in 0..(n - 1)
  BY <1>5, <1>8, SMTT(30)
<1>10. rrbIdx' = c + 1
  BY <1>4, PickStep
<1>11. Cur' = d
  BY <1>1, <1>3, <1>8, <1>10 DEF Cur
<1>12. \A e \in elements : Rank(e)' = Rank(e)
  BY <1>1 DEF Rank
<1>13. \A e \in elements : picks'[e] = IF e = x THEN picks[e] + 1 ELSE picks[e]
  <2>1. ele'[p] = x
    BY <1>1, <1>4, <1>6 DEF Pick, LbInv, LbTypeOK
  <2>2. \A e \in Element : picks'[e] = picks[e] + IF e = x THEN 1 ELSE 0
    BY <2>1 DEF Pick
  <2> QED
    BY <1>1, <2>2, SMTT(30)
<1>14. PICK k \in Nat, s \in 0..(n - 1) : Round(k, s)
  BY <1>1, <1>3 DEF RoundInv
<1>15. \A e \in elements : picks[e] = IF Between(s, c, Rank(e)) THEN k + 1 ELSE k
  BY <1>5, <1>14 DEF Round
<1>16. CASE s = d
  <2>1. \A e \in elements : picks'[e] = k + 1 /\ ~Between(d, d, Rank(e))
    <3> TAKE e \in elements
    <3>1. Rank(e) \in 0..(n - 1) /\ (Rank(e) # c => e # x) /\ (Rank(e) = c => e = x)
      BY <1>6, <1>7
    <3>a. PICK i \in 0..(n - 1) : i = Rank(e)
      BY <3>1
    <3>b. picks[e] = IF Between(s, c, i) THEN k + 1 ELSE k
      BY <1>15, <3>a
    <3>c. picks'[e] = IF i = c THEN picks[e] + 1 ELSE picks[e]
      BY <1>13, <3>1, <3>a
    <3>d. Moved(s, c, d, i)
      BY <1>8, <1>9, RoundArithmetic
    <3>2. CASE i = c
      BY <1>16, <3>2, <3>a, <3>b, <3>c, <3>d, ZenonT(60) DEF Moved
    <3>3. CASE i # c
      BY <1>16, <3>3, <3>a, <3>b, <3>c, <3>d DEF Moved
    <3> QED
      BY <3>2, <3>3
  <2>2. Round(k + 1, d)'
    BY <1>1, <1>11, <1>12, <2>1 DEF Round
  <2> QED
    BY <1>1, <1>3, <1>9, <2>2, SMTT(30) DEF RoundInv
<1>17. CASE s # d
  <2>1. \A e \in elements : picks'[e] = IF Between(s, d, Rank(e)) THEN k + 1 ELSE k
    <3> TAKE e \in elements
    <3>1. Rank(e) \in 0..(n - 1) /\ (Rank(e) # c => e # x) /\ (Rank(e) = c => e = x)
      BY <1>6, <1>7
    <3>a. PICK i \in 0..(n - 1) : i = Rank(e)
      BY <3>1
    <3>b. picks[e] = IF Between(s, c, i) THEN k + 1 ELSE k
      BY <1>15, <3>a
    <3>c. picks'[e] = IF i = c THEN picks[e] + 1 ELSE picks[e]
      BY <1>13, <3>1, <3>a
    <3>d. Moved(s, c, d, i)
      BY <1>8, <1>9, RoundArithmetic
    <3>2. CASE i = c
      BY <1>17, <3>2, <3>a, <3>b, <3>c, <3>d, ZenonT(60) DEF Moved
    <3>3. CASE i # c
      BY <1>17, <3>3, <3>a, <3>b, <3>c, <3>d DEF Moved
    <3> QED
      BY <3>2, <3>3
  <2>2. Round(k, s)'
    BY <1>1, <1>11, <1>12, <2>1 DEF Round
  <2> QED
    BY <1>1, <1>3, <2>2, ZenonT(60) DEF RoundInv
<1> QED
  BY <1>16, <1>17

LEMMA RoundInvStep ==
  ASSUME FiniteSetFacts, LbInv, RoundInv, [LbNext]_lbVars
  PROVE  RoundInv'
<1>0. LbInv'
  BY LbInvStep
<1>1. ASSUME NEW e \in Element, AddElement(e) \/ DelElement(e) PROVE RoundInv'
  <2>1. \A f \in elements' : picks'[f] = 0
    BY <1>0, <1>1 DEF AddElement, DelElement, LbInv, LbTypeOK
  <2> QED
    BY <1>0, <2>1, AllZero DEF LbInv
<1>2. ASSUME NEW p \in Caller, Pick(p) PROVE RoundInv'
  <2>1. CASE m[p] = elements
    BY <1>0, <1>2, <2>1, RoundStep
  <2>2. CASE m[p] # elements
    <3>1. \A f \in elements' : picks'[f] = 0
      BY <1>0, <1>2, <2>2 DEF Pick, LbInv, LbTypeOK
    <3> QED
      BY <1>0, <3>1, AllZero DEF LbInv
  <2> QED
    BY <2>1, <2>2
<1>3. ASSUME UNCHANGED <<elements, rrbIdx, picks>> PROVE RoundInv'
  BY <1>3 DEF RoundInv, Round, Cur, Rank
<1>4. ASSUME NEW p \in Caller, Begin(p) \/ Weigh(p) PROVE RoundInv'
  BY <1>3, <1>4 DEF Begin, Weigh
<1>5. CASE UNCHANGED lbVars
  BY <1>3, <1>5 DEF lbVars
<1> QED
  BY <1>1, <1>2, <1>4, <1>5 DEF LbNext

-----------------------------------------------------------------------------
(***************************************************************************)
(* What a caller works with was in the set when its call began: its copy   *)
(* of the keys and its choice are elements, or were deleted since.         *)
(***************************************************************************)
StaleInv ==
    \A p \in Caller :
        /\ at[p] = "pick" => m[p] \subseteq elements \cup deleted[p]
        /\ at[p] = "weigh" /\ ele[p] # NoElement => ele[p] \in elements \cup deleted[p]
        /\ at[p] # "weigh" => ele[p] = NoElement

LEMMA StaleInvStep ==
  ASSUME FiniteSetFacts, LbInv, StaleInv, [LbNext]_lbVars
  PROVE  StaleInv'
<1>0. /\ at \in [Caller -> {"idle", "pick", "weigh"}] /\ m \in [Caller -> SUBSET Element]
      /\ ele \in [Caller -> Element \cup {NoElement}]
      /\ deleted \in [Caller -> SUBSET Element]
  BY DEF LbInv, LbTypeOK
<1>1. ASSUME NEW e \in Element, AddElement(e) PROVE StaleInv'
  BY <1>0, <1>1 DEF AddElement, StaleInv
<1>2. ASSUME NEW e \in Element, DelElement(e) PROVE StaleInv'
  <2>1. \A q \in Caller : at[q] # "idle" =>
           elements \cup deleted[q] \subseteq elements' \cup deleted'[q]
    BY <1>2 DEF DelElement
  <2> QED
    BY <1>0, <1>2, <2>1 DEF DelElement, StaleInv
<1>3. ASSUME NEW p \in Caller, Begin(p) PROVE StaleInv'
  <2>1. \A q \in Caller \ {p} : /\ at'[q] = at[q] /\ m'[q] = m[q] /\ ele'[q] = ele[q]
                               /\ deleted'[q] = deleted[q]
    BY <1>0, <1>3 DEF Begin
  <2>2. /\ at'[p] = "pick" => m'[p] = elements /\ ele'[p] = NoElement
        /\ at'[p] = "weigh" => ele'[p] \in elements \cup {NoElement}
        /\ at'[p] \in {"pick", "weigh"} /\ elements' = elements
    BY <1>0, <1>3 DEF Begin, StaleInv
  <2> QED
    BY <2>1, <2>2 DEF StaleInv
<1>4. ASSUME NEW p \in Caller, Pick(p) PROVE StaleInv'
  <2>0. Nth(m[p], Index(p)) \in m[p] /\ at[p] = "pick"
    BY <1>4, PickStep, ZenonT(60) DEF Pick
  <2>1. Nth(m[p], Index(p)) \in elements \cup deleted[p]
    BY <2>0, ZenonT(60) DEF StaleInv
  <2>2. /\ at' = [at EXCEPT ![p] = "weigh"] /\ ele' = [ele EXCEPT ![p] = Nth(m[p], Index(p))]
        /\ UNCHANGED <<elements, m, deleted>>
    BY <1>4 DEF Pick
  <2> QED
    BY <1>0, <2>1, <2>2 DEF StaleInv
<1>5. ASSUME NEW p \in Caller, Weigh(p) PROVE StaleInv'
  BY <1>0, <1>5 DEF Weigh, StaleInv
<1>6. CASE UNCHANGED lbVars
  BY <1>6 DEF lbVars, StaleInv
<1> QED
  BY <1>1, <1>2, <1>3, <1>4, <1>5, <1>6 DEF LbNext
-----------------------------------------------------------------------------
INSTANCE FiniteSetTheorems

LEMMA FiniteSetsOfTheory == FiniteSetFacts
<1>1. Cardinality({}) = 0
  BY FS_EmptySet
<1>2. \A S : IsFiniteSet(S) => Cardinality(S) \in Nat /\ (Cardinality(S) = 0 => S = {})
  BY FS_CardinalityType, FS_EmptySet
<1>3. \A S, x : IsFiniteSet(S) /\ x \notin S => Cardinality(S \cup {x}) = Cardinality(S) + 1
  BY FS_AddElement
<1>4. \A S, x : IsFiniteSet(S) /\ x \in S =>
         IsFiniteSet(S \ {x}) /\ Cardinality(S \ {x}) = Cardinality(S) - 1
  BY FS_RemoveElement
<1>5. \A S : \A T \in SUBSET S :
         IsFiniteSet(S) => IsFiniteSet(T) /\ Cardinality(T) <= Cardinality(S)
  BY FS_Subset
<1> QED
  BY <1>1, <1>2, <1>3, <1>4, <1>5 DEF FiniteSetFacts

LEMMA LbInductive ==
  /\ LbInit => LbInv
  /\ LbInv /\ [LbNext]_lbVars => LbInv'
BY FiniteSetsOfTheory, LbInitInv, LbInvStep

(***************************************************************************)
(* Every variable keeps its type; for the choice of LoadBalance this says  *)
(* that it is the empty string or a string that was added.                 *)
(***************************************************************************)
THEOREM LbTypeCorrect == LbSpec => []LbTypeOK
<1>1. LbInv => LbTypeOK
  BY DEF LbInv
<1> QED
  BY <1>1, LbInductive, PTL DEF LbSpec

(***************************************************************************)
(* m[l.rrbIdx] in LoadBalanceRoundRobin is never out of range.             *)
(***************************************************************************)
THEOREM IndexAlwaysInRange == LbSpec => []IndexInRange
<1>1. LbInv => IndexInRange
  BY FiniteSetsOfTheory, IndexBelow DEF IndexInRange
<1> QED
  BY <1>1, LbInductive, PTL DEF LbSpec

(***************************************************************************)
(* Round robin is fair for every number of elements and of concurrent      *)
(* callers: between changes of the set, choices differ by at most one.     *)
(***************************************************************************)
THEOREM RoundRobinFair == LbSpec => []Balanced
<1>1. LbInit => RoundInv
  BY DEF LbInit, RoundInv
<1>2. LbInv /\ RoundInv => Balanced
  <2> SUFFICES ASSUME LbInv, RoundInv, NEW e \in elements, NEW f \in elements
               PROVE  picks[e] <= picks[f] + 1
    BY DEF Balanced
  <2>1. PICK k \in Nat, s \in 0..(Cardinality(elements) - 1) : Round(k, s)
    BY DEF RoundInv
  <2>2. picks[e] \in {k, k + 1} /\ picks[f] \in {k, k + 1}
    BY <2>1 DEF Round
  <2> QED
    BY <2>1, <2>2, SMTT(30)
<1>3. LbInv /\ RoundInv /\ [LbNext]_lbVars => LbInv' /\ RoundInv'
  BY FiniteSetsOfTheory, LbInvStep, RoundInvStep
<1> QED
  BY <1>1, <1>2, <1>3, LbInductive, PTL DEF LbSpec
(***************************************************************************)
(* LoadBalance never returns an element that was gone before it was        *)
(* called, however many goroutines add, delete and choose meanwhile.       *)
(***************************************************************************)
THEOREM NeverStaleBefore == LbSpec => []StaleOnlyIfDeleted
<1>1. LbInit => StaleInv
  BY DEF LbInit, StaleInv
<1>2. StaleInv => StaleOnlyIfDeleted
  BY DEF StaleInv, StaleOnlyIfDeleted
<1>3. LbInv /\ StaleInv /\ [LbNext]_lbVars => LbInv' /\ StaleInv'
  BY FiniteSetsOfTheory, LbInvStep, StaleInvStep
<1> QED
  BY <1>1, <1>2, <1>3, LbInductive, PTL DEF LbSpec
=============================================================================
