------------------------------- MODULE RpcCall ------------------------------
(***************************************************************************)
(* RpcCallSync of ms_framework/msf_simple_rpc.go: handlers that run on the *)
(* task pool call another service through a gate and wait on a channel for *)
(* the answer, which another task of the same pool gives them, or for the  *)
(* timeout, which the goroutine of the callback manager gives them.        *)
(*                                                                         *)
(* Channels are unbuffered: a send on one is a step of both sides.  Time   *)
(* is left out: an entry that the manager has queued may expire, or be     *)
(* answered first.  Of the order of the queue only its first node is kept: *)
(* the tick comes to it last, whenever it is due.                          *)
(***************************************************************************)
EXTENDS Naturals, Sequences

CONSTANTS Call,       \* calls of RpcCallSync, one task each
          Worker,     \* goroutines of the task pool
          ReSendCnt,  \* how often a call is sent again after a timeout (3)
          GidMod,     \* 2^32: GenGid counts modulo this
          MaxDrops,   \* bound: how often the gate's connection is lost
          Nil         \* no call, no worker, no rid

Rid == 0..(GidMod - 1)

ASSUME RpcCallAssumption == /\ ReSendCnt \in Nat
                            /\ GidMod \in Nat \ {0}
                            /\ MaxDrops \in Nat
                            /\ Nil \notin Call \cup Worker \cup Rid

CallTask(c) == [kind |-> "call", id |-> c]

RspTask(r) == [kind |-> "rsp", id |-> r]

VARIABLES globalGID,
          gate, drops,       \* which connection of the gate is up (0: none); how many were lost
          taskCh, todo,      \* TaskPool.taskCh; calls that are not in it yet
          pc, call, rid, left, link,  \* of a worker: its RpcCall, or the response it handles
          gCbMap, ch,        \* rids that have an entry; the worker that receives on its channel
          queued, first,     \* rids in the timeout queue; its firstNode
          mgr,               \* the rid whose timeoutCb the manager runs, or Nil
          underway,          \* requests on their way, at the gate or at the other service
          result,            \* what RpcCallSync returned
          orphan, wrapped    \* rids left behind by a failed send; GenGid has overflowed

wvars == <<pc, call, rid, left, link>>

callVars == <<globalGID, gate, drops, taskCh, todo, pc, call, rid, left, link,
              gCbMap, ch, queued, first, mgr, underway, result, orphan, wrapped>>

hvars == <<orphan, wrapped>>

CallInit == /\ globalGID = 0
            /\ gate = 1
            /\ drops = 0
            /\ taskCh = <<>>
            /\ todo = Call
            /\ pc = [w \in Worker |-> "idle"]
            /\ call = [w \in Worker |-> Nil]
            /\ rid = [w \in Worker |-> 0]
            /\ left = [w \in Worker |-> 0]
            /\ link = [w \in Worker |-> 0]
            /\ gCbMap = {}
            /\ ch = [r \in Rid |-> Nil]
            /\ queued = {} /\ first = Nil
            /\ mgr = Nil
            /\ underway = {}
            /\ result = [c \in Call |-> "none"]
            /\ orphan = {} /\ wrapped = FALSE

(* Faulty variant: the counter is not advanced. *)
GenGidStuck == globalGID % GidMod

GenGid == (globalGID + 1) % GidMod

NextGid == /\ globalGID' = GenGid
           /\ wrapped' = (wrapped \/ globalGID + 1 = GidMod)

Request(c) ==
    /\ c \in todo
    /\ todo' = todo \ {c}
    /\ taskCh' = Append(taskCh, CallTask(c))
    /\ UNCHANGED <<globalGID, gate, drops, wvars, gCbMap, ch, queued, first, mgr,
                   underway, result, hvars>>

(***************************************************************************)
(* A worker takes a task: a handler that calls RpcCallSync, or the handler *)
(* of MSG_G2C_RPC_RSP.                                                     *)
(***************************************************************************)
TakeCall(w) ==
    /\ pc[w] = "idle"
    /\ taskCh # <<>>
    /\ Head(taskCh).kind = "call"
    /\ taskCh' = Tail(taskCh)
    /\ NextGid
    /\ pc' = [pc EXCEPT ![w] = "balance"]
    /\ call' = [call EXCEPT ![w] = Head(taskCh).id]
    /\ rid' = [rid EXCEPT ![w] = GenGid]
    /\ left' = [left EXCEPT ![w] = ReSendCnt]
    /\ UNCHANGED <<gate, drops, todo, link, gCbMap, ch, queued, first, mgr, underway,
                   result, orphan>>

TakeRsp(w) ==
    /\ pc[w] = "idle"
    /\ taskCh # <<>>
    /\ Head(taskCh).kind = "rsp"
    /\ taskCh' = Tail(taskCh)
    /\ pc' = [pc EXCEPT ![w] = "get"]
    /\ rid' = [rid EXCEPT ![w] = Head(taskCh).id]
    /\ UNCHANGED <<globalGID, gate, drops, todo, call, left, link, gCbMap, ch,
                   queued, first, mgr, underway, result, hvars>>

(***************************************************************************)
(* RpcCall returns res to the handler, whose task ends.                    *)
(***************************************************************************)
Return(w, res) ==
    /\ pc' = [pc EXCEPT ![w] = "idle"]
    /\ call' = [call EXCEPT ![w] = Nil]
    /\ rid' = [rid EXCEPT ![w] = 0]
    /\ left' = [left EXCEPT ![w] = 0]
    /\ link' = [link EXCEPT ![w] = 0]
    /\ result' = [result EXCEPT ![call[w]] = res]
-----------------------------------------------------------------------------
(***************************************************************************)
(* RpcCall chooses a connection, and returns nothing if there is none; a   *)
(* rid of 0 means that no answer is wanted.                                *)
(***************************************************************************)
LoadBalance(w) ==
    /\ pc[w] = "balance"
    /\ \/ /\ gate = 0
          /\ Return(w, "empty")
       \/ /\ gate # 0
          /\ link' = [link EXCEPT ![w] = gate]
          /\ pc' = [pc EXCEPT ![w] = IF rid[w] # 0 THEN "add" ELSE "send"]
          /\ UNCHANGED <<call, rid, left, result>>
    /\ UNCHANGED <<globalGID, gate, drops, taskCh, todo, gCbMap, ch, queued, first,
                   mgr, underway, hvars>>

(***************************************************************************)
(* AddCallBack: enter the channel, then wait for the manager.              *)
(***************************************************************************)
AddCallBack(w) ==
    /\ pc[w] = "add"
    /\ gCbMap' = gCbMap \cup {rid[w]}
    /\ ch' = [ch EXCEPT ![rid[w]] = w]
    /\ pc' = [pc EXCEPT ![w] = "queue"]
    /\ UNCHANGED <<globalGID, gate, drops, taskCh, todo, call, rid, left, link,
                   queued, first, mgr, underway, result, hvars>>

(***************************************************************************)
(* queueAdd puts a node behind the first one; queueDel of the first one    *)
(* makes the next the first.                                               *)
(***************************************************************************)
Queue(q) == /\ queued' = q
            /\ first' \in IF first \in q THEN {first} ELSE IF q = {} THEN {Nil} ELSE q

SelectAdd(w) ==
    /\ pc[w] = "queue"
    /\ mgr = Nil
    /\ Queue(queued \cup {rid[w]})
    /\ pc' = [pc EXCEPT ![w] = "send"]
    /\ UNCHANGED <<globalGID, gate, drops, taskCh, todo, call, rid, left, link,
                   gCbMap, ch, mgr, underway, result, hvars>>

(***************************************************************************)
(* MessageSend fails when the connection was lost meanwhile; RpcCall then  *)
(* returns at once and leaves its entry behind.                            *)
(***************************************************************************)
MessageSend(w) ==
    /\ pc[w] = "send"
    /\ \/ /\ link[w] # gate
          /\ Return(w, "empty")
          /\ orphan' = orphan \cup ({rid[w]} \ {0})
          /\ UNCHANGED underway
       \/ /\ link[w] = gate
          /\ rid[w] = 0
          /\ Return(w, "empty")
          /\ UNCHANGED <<underway, orphan>>
       \/ /\ link[w] = gate
          /\ rid[w] # 0
          /\ underway' = underway \cup {rid[w]}
          /\ pc' = [pc EXCEPT ![w] = "sent"]
          /\ UNCHANGED <<call, rid, left, link, result, orphan>>
    /\ UNCHANGED <<globalGID, gate, drops, taskCh, todo, gCbMap, ch, queued, first, mgr,
                   wrapped>>

Wait(w) ==
    /\ pc[w] = "sent"
    /\ pc' = [pc EXCEPT ![w] = "wait"]
    /\ UNCHANGED <<globalGID, gate, drops, taskCh, todo, call, rid, left, link,
                   gCbMap, ch, queued, first, mgr, underway, result, hvars>>

(***************************************************************************)
(* The call whose channel belongs to rid r is receiving on it.             *)
(***************************************************************************)
Receives(r) == LET w == ch[r] IN pc[w] = "wait" /\ rid[w] = r
-----------------------------------------------------------------------------
(* Faulty variant: the timeoutCb is not called. *)
ExpireSilently(r) ==
    /\ mgr = Nil
    /\ r \in queued /\ (r = first => queued = {r})
    /\ Queue(queued \ {r})
    /\ gCbMap' = gCbMap \ {r}
    /\ UNCHANGED <<globalGID, gate, drops, taskCh, todo, wvars, ch, mgr, underway,
                   result, hvars>>

(***************************************************************************)
(* The manager: the node of r expires, the first only when no other is     *)
(* left; if it still has its entry, its timeoutCb runs, which sends on the *)
(* channel of the call.  A call that times out is sent again under a new   *)
(* rid, or returns.                                                        *)
(***************************************************************************)
Expire(r) ==
    /\ mgr = Nil
    /\ r \in queued /\ (r = first => queued = {r})
    /\ Queue(queued \ {r})
    /\ gCbMap' = gCbMap \ {r}
    /\ mgr' = IF r \in gCbMap THEN r ELSE Nil
    /\ UNCHANGED <<globalGID, gate, drops, taskCh, todo, wvars, ch, underway,
                   result, hvars>>

TimeoutCb ==
    /\ mgr # Nil
    /\ Receives(mgr)
    /\ mgr' = Nil
    /\ LET w == ch[mgr] IN
       \/ /\ left[w] > 0
          /\ NextGid
          /\ rid' = [rid EXCEPT ![w] = GenGid]
          /\ left' = [left EXCEPT ![w] = @ - 1]
          /\ pc' = [pc EXCEPT ![w] = "balance"]
          /\ UNCHANGED <<call, link, result>>
       \/ /\ left[w] = 0
          /\ Return(w, "timeout")
          /\ UNCHANGED <<globalGID, wrapped>>
    /\ UNCHANGED <<gate, drops, taskCh, todo, gCbMap, ch, queued, first, underway, orphan>>
-----------------------------------------------------------------------------
(* Faulty variant: the entry is not deleted. *)
GetCallBackKeepsEntry(w) ==
    /\ pc[w] = "get"
    /\ pc' = [pc EXCEPT ![w] = IF rid[w] \in gCbMap THEN "unlink" ELSE "idle"]
    /\ rid' = [rid EXCEPT ![w] = IF rid[w] \in gCbMap THEN @ ELSE 0]
    /\ UNCHANGED <<globalGID, gate, drops, taskCh, todo, call, left, link, gCbMap,
                   ch, queued, first, mgr, underway, result, hvars>>

(***************************************************************************)
(* RpcG2CRpcRspHandler: take the entry, have its node unlinked, send on    *)
(* its channel.  Without an entry there is nothing to do.                  *)
(***************************************************************************)
GetCallBack(w) ==
    /\ pc[w] = "get"
    /\ gCbMap' = gCbMap \ {rid[w]}
    /\ pc' = [pc EXCEPT ![w] = IF rid[w] \in gCbMap THEN "unlink" ELSE "idle"]
    /\ rid' = [rid EXCEPT ![w] = IF rid[w] \in gCbMap THEN @ ELSE 0]
    /\ UNCHANGED <<globalGID, gate, drops, taskCh, todo, call, left, link, ch,
                   queued, first, mgr, underway, result, hvars>>

SelectDel(w) ==
    /\ pc[w] = "unlink"
    /\ mgr = Nil
    /\ Queue(queued \ {rid[w]})
    /\ pc' = [pc EXCEPT ![w] = "give"]
    /\ UNCHANGED <<globalGID, gate, drops, taskCh, todo, call, rid, left, link,
                   gCbMap, ch, mgr, underway, result, hvars>>

Give(w) ==
    /\ pc[w] = "give"
    /\ Receives(rid[w])
    /\ LET v == ch[rid[w]] IN
       /\ pc' = [pc EXCEPT ![w] = "idle", ![v] = "idle"]
       /\ call' = [call EXCEPT ![v] = Nil]
       /\ rid' = [rid EXCEPT ![w] = 0, ![v] = 0]
       /\ left' = [left EXCEPT ![v] = 0]
       /\ link' = [link EXCEPT ![v] = 0]
       /\ result' = [result EXCEPT ![call[v]] = "reply"]
    /\ UNCHANGED <<globalGID, gate, drops, taskCh, todo, gCbMap, ch, queued, first,
                   mgr, underway, hvars>>
-----------------------------------------------------------------------------
(***************************************************************************)
(* The gate and the other service: a request is answered or lost.  With    *)
(* the connection, what was under way on it is lost too.                   *)
(***************************************************************************)
Reply(r) ==
    /\ r \in underway
    /\ gate # 0
    /\ underway' = underway \ {r}
    /\ taskCh' = Append(taskCh, RspTask(r))
    /\ UNCHANGED <<globalGID, gate, drops, todo, wvars, gCbMap, ch, queued, first,
                   mgr, result, hvars>>

Lose(r) ==
    /\ r \in underway
    /\ underway' = underway \ {r}
    /\ UNCHANGED <<globalGID, gate, drops, taskCh, todo, wvars, gCbMap, ch,
                   queued, first, mgr, result, hvars>>

Disconnect ==
    /\ gate # 0
    /\ drops < MaxDrops
    /\ drops' = drops + 1
    /\ gate' = 0
    /\ underway' = {}
    /\ UNCHANGED <<globalGID, taskCh, todo, wvars, gCbMap, ch, queued, first, mgr,
                   result, hvars>>

Connect ==
    /\ gate = 0
    /\ gate' = drops + 1
    /\ UNCHANGED <<globalGID, drops, taskCh, todo, wvars, gCbMap, ch, queued, first,
                   mgr, underway, result, hvars>>

Select(w) == SelectAdd(w) \/ SelectDel(w)

Work(w) == \/ TakeCall(w) \/ TakeRsp(w) \/ LoadBalance(w) \/ AddCallBack(w)
           \/ MessageSend(w) \/ Wait(w) \/ GetCallBack(w) \/ Give(w)

CallNext == \/ \E c \in Call : Request(c)
            \/ \E w \in Worker : Work(w) \/ Select(w)
            \/ \E r \in Rid : Expire(r) \/ Reply(r) \/ Lose(r)
            \/ TimeoutCb
            \/ Disconnect
            \/ Connect

CallSpec == CallInit /\ [][CallNext]_callVars

(***************************************************************************)
(* Goroutines that can run do; the manager's select serves senders and     *)
(* expired nodes in the end, whichever they are.  Nothing is assumed of    *)
(* the gate: it need not answer or come back.                              *)
(***************************************************************************)
CallFairness == /\ \A w \in Worker : WF_callVars(Work(w))
                /\ SF_callVars(\E w \in Worker : Select(w))
                /\ SF_callVars(\E r \in Rid : Expire(r))
                /\ WF_callVars(TimeoutCb)

CallFairSpec == CallSpec /\ CallFairness
-----------------------------------------------------------------------------
CallTypeOK == /\ globalGID \in Rid
              /\ gate \in Nat /\ drops \in 0..MaxDrops
              /\ taskCh \in Seq({CallTask(c) : c \in Call} \cup {RspTask(r) : r \in Rid})
              /\ todo \subseteq Call
              /\ pc \in [Worker -> {"idle", "balance", "add", "queue", "send", "sent",
                                    "wait", "get", "unlink", "give"}]
              /\ call \in [Worker -> Call \cup {Nil}]
              /\ rid \in [Worker -> Rid]
              /\ left \in [Worker -> 0..ReSendCnt]
              /\ link \in [Worker -> Nat]
              /\ gCbMap \subseteq Rid /\ queued \subseteq Rid /\ underway \subseteq Rid
              /\ first \in Rid \cup {Nil}
              /\ ch \in [Rid -> Worker \cup {Nil}]
              /\ mgr \in Rid \cup {Nil}
              /\ result \in [Call -> {"none", "reply", "timeout", "empty"}]
              /\ orphan \subseteq Rid /\ wrapped \in BOOLEAN

(***************************************************************************)
(* The call whose channel belongs to r has sent its request and receives   *)
(* on the channel, or is about to.                                         *)
(***************************************************************************)
WillReceive(r) == LET w == ch[r] IN pc[w] \in {"send", "sent", "wait"} /\ rid[w] = r

(***************************************************************************)
(* A worker that holds an answer never waits for a caller that is gone: no *)
(* timeout, resend or late answer makes it block for ever on the channel.  *)
(***************************************************************************)
ResponderHasReceiver ==
    \A w \in Worker : pc[w] = "give" => WillReceive(rid[w]) /\ pc[ch[rid[w]]] # "send"

(***************************************************************************)
(* The manager, when it runs a timeoutCb, has a caller that receives: it   *)
(* serves every other call of the process, so it must not block.  Only the *)
(* entry of a call whose send failed has none.                             *)
(***************************************************************************)
TimeoutHasReceiver == mgr # Nil => WillReceive(mgr) \/ mgr \in orphan

(***************************************************************************)
(* Whoever is about to send on a call's channel, the handler of its answer *)
(* or the manager that runs its timeout, has a caller that receives, until *)
(* GenGid overflows: then one rid may belong to two calls.                 *)
(***************************************************************************)
SenderHasReceiver == ~wrapped => ResponderHasReceiver /\ TimeoutHasReceiver

(***************************************************************************)
(* While the gate stays connected and the ids do not overflow, a           *)
(* synchronous call returns an answer or a timeout, never nothing at all.  *)
(***************************************************************************)
EmptyOnlyIfDropped == \A c \in Call : result[c] = "empty" => drops > 0 \/ wrapped

(***************************************************************************)
(* Every call that is taken up returns, whatever the gate does, as long as *)
(* no send fails and calls stop coming in the end: an answer that is lost  *)
(* is replaced by a timeout.  (While others keep coming, the first node of *)
(* the queue is not reached: nothing bounds how long its call waits.)      *)
(***************************************************************************)
EveryCallReturns ==
    \A c \in Call : c \notin todo ~> result[c] # "none" \/ orphan # {}

(***************************************************************************)
(* README.md: callbacks have timeouts, so that a caller never blocks: here *)
(* of a caller whose send, or another caller's, failed.                    *)
(***************************************************************************)
CallersNeverBlock == \A c \in Call : c \notin todo ~> result[c] # "none"
=============================================================================
