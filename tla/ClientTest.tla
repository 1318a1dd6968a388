----------------------------- MODULE ClientTest -----------------------------
(***************************************************************************)
(* client/client.go: the test clients of one process.  Each makes its      *)
(* calls one after the other (ServiceProxy._rpcCall of clientsdk), every   *)
(* call with a callback that counts, waits until its counter has seen them *)
(* all, stops the counter and ends.                                        *)
(*                                                                         *)
(* The clients share the callback manager.  A callback runs in a goroutine *)
(* of the task pool when the answer comes (RpcG2CRpcRspHandler), and in    *)
(* the manager itself when it times out.  Count and Stop of the counter    *)
(* wait for its goroutine, for ever once that one has ended.               *)
(***************************************************************************)
EXTENDS PriorityQueue

CONSTANTS Client,
          Calls        \* the cbids of a client's calls, in order

ASSUME CallsAssumption ==
    /\ Calls \in [Client -> Seq(Cbid)]
    /\ UNION {Range(Calls[k]) : k \in Client} = Cbid
    /\ \A k, l \in Client : k # l => Range(Calls[k]) \cap Range(Calls[l]) = {}

CallsOf(k) == Range(Calls[k])

Owner(c) == CHOOSE k \in Client : c \in CallsOf(k)

testCnt(k) == Cardinality(CallsOf(k))

VARIABLES fvc,         \* the counter of a client: "up" or "stopped"
          totalCnt,    \* FlowVelocityCounter.totalCnt
          ran          \* the calls whose callback has run with the answer

cvars == <<fvc, totalCnt, ran>>

allvars == <<vars, lvars, cvars>>

CInit == /\ Init /\ ListInit
         /\ fvc = [k \in Client |-> "up"]
         /\ totalCnt = [k \in Client |-> 0]
         /\ ran = {}

(***************************************************************************)
(* Bound: the clients have made their calls by the second LastAdd.         *)
(***************************************************************************)
CClock == /\ Clock
          /\ now = LastAdd => \A c \in Cbid : adder[c] # "new"
          /\ UNCHANGED <<lvars, cvars>>

(***************************************************************************)
(* The next call of StartTest, when AddCallBack has returned in the one    *)
(* before.  Nothing depends on whether the request can be sent.            *)
(***************************************************************************)
RpcCall(k) ==
    \E i \in 1..Len(Calls[k]) :
        /\ \A j \in 1..i - 1 : adder[Calls[k][j]] = "returned"
        /\ AddCallBack(Calls[k][i])
        /\ UNCHANGED <<lvars, cvars>>

RpcRsp(c) == GetCallBack(c) /\ UNCHANGED <<lvars, cvars>>

Count(k) == /\ fvc[k] = "up"
            /\ totalCnt' = [totalCnt EXCEPT ![k] = @ + 1]
            /\ UNCHANGED fvc

(***************************************************************************)
(* The callback of a call that was answered.                               *)
(***************************************************************************)
CallBack(c) ==
    /\ getter[c] = "returned"
    /\ c \notin ran
    /\ ran' = ran \cup {c}
    /\ Count(Owner(c))
    /\ UNCHANGED <<vars, lvars>>

(* Faulty variant: no timeoutCb is given to AddCallBack. *)
TimeoutCbNil == TickFire /\ UNCHANGED <<lvars, cvars>>

(***************************************************************************)
(* timeoutCb runs the same callback.                                       *)
(***************************************************************************)
TimeoutCb == TickFire /\ Count(Owner(Last(queue))) /\ UNCHANGED <<lvars, ran>>

(* Faulty variant: does not wait for the last call. *)
AllCountedButOne(k) == totalCnt[k] >= testCnt(k) - 1

AllCounted(k) == totalCnt[k] = testCnt(k)

StopFvc(k) ==
    /\ fvc[k] = "up"
    /\ \A c \in CallsOf(k) : adder[c] = "returned"
    /\ AllCounted(k)
    /\ fvc' = [fvc EXCEPT ![k] = "stopped"]
    /\ UNCHANGED <<vars, lvars, totalCnt, ran>>

CSelect(c) == (ListAdd(c) \/ ListDel(c)) /\ UNCHANGED cvars

CSelectTick == ListTick /\ UNCHANGED cvars

CTick == \/ TickTake /\ UNCHANGED <<lvars, cvars>>
         \/ TimeoutCb
         \/ (ListUnlink \/ ListTickEnd) /\ UNCHANGED cvars

CNext == \/ CClock
         \/ \E k \in Client : RpcCall(k) \/ StopFvc(k)
         \/ \E c \in Cbid : RpcRsp(c) \/ CallBack(c) \/ CSelect(c)
         \/ CSelectTick
         \/ CTick

(***************************************************************************)
(* Fairness of CallbackMgr, and every client and pool goroutine runs on.   *)
(* Nothing is assumed of answers: they need not come.                      *)
(***************************************************************************)
CSpec == /\ CInit /\ [][CNext]_allvars
         /\ WF_allvars(CClock)
         /\ SF_allvars(CSelectTick)
         /\ WF_allvars(CTick)
         /\ \A c \in Cbid : SF_allvars(CSelect(c)) /\ WF_allvars(CallBack(c))
         /\ \A k \in Client : WF_allvars(RpcCall(k)) /\ WF_allvars(StopFvc(k))
-----------------------------------------------------------------------------
(***************************************************************************)
(* A client stops its counter only when all its callbacks have run: none   *)
(* is left that would wait for ever in Count, and, if it times out, keep   *)
(* the manager from serving every other client.                            *)
(***************************************************************************)
NoLateCount ==
    \A k \in Client : fvc[k] = "stopped" =>
        \A c \in CallsOf(k) : c \in ran \/ timedOut[c] = 1

(***************************************************************************)
(* Every test ends, whatever answers come or are lost (timeouts count      *)
(* too), and nothing is left behind in the manager.                        *)
(***************************************************************************)
TestEnds == <>(\A k \in Client : fvc[k] = "stopped") /\ QueueDrains

(***************************************************************************)
(* The inductive invariant: the counter is the number of callbacks that    *)
(* have run.                                                               *)
(***************************************************************************)
Resolved(k) == {c \in CallsOf(k) : c \in ran \/ timedOut[c] = 1}

CountInv ==
    /\ fvc \in [Client -> {"up", "stopped"}]
    /\ totalCnt \in [Client -> Nat]
    /\ ran \subseteq {c \in Cbid : getter[c] = "returned"}
    /\ \A k \in Client : /\ totalCnt[k] = Cardinality(Resolved(k))
                         /\ fvc[k] = "stopped" => totalCnt[k] = testCnt(k)
=============================================================================
