---------------------------- MODULE CallbackMgr ----------------------------
(***************************************************************************)
(* ms_framework/msf_callback_mgr_new.go: the table gCbMap of callbacks     *)
(* that wait for an answer, the goroutine that owns the timeout queue, and *)
(* the goroutines that call AddCallBack and GetCallBack.                   *)
(*                                                                         *)
(* A callback and its queue node are named by the cbid: GenGid gives every *)
(* call its own.  Critical sections under cbMutex are one step; a send on  *)
(* an unbuffered channel is a step of sender and manager together, and a   *)
(* goroutine that has not met the manager yet is "sending".                *)
(***************************************************************************)
EXTENDS TimeoutQueue

CONSTANTS Cbid,        \* one per call of AddCallBack
          WaitTimes,   \* the waitTime arguments, in seconds
          LastAdd,     \* bound: no AddCallBack after this second
          MaxTime      \* bound: stands for every later second too

ASSUME CbidAssumption == IsFiniteSet(Cbid)

ASSUME WaitAssumption == WaitTimes \subseteq Nat

ASSUME TimeAssumption == /\ MaxTime \in Nat
                         /\ LastAdd \in Nat
                         /\ \A w \in WaitTimes : LastAdd + w <= MaxTime

VARIABLES now,                 \* GetNowTimestamp()
          gCbMap,              \* the cbids that have an entry
          endTime,             \* Node.endTime
          adder, getter,       \* progress of AddCallBack, of a GetCallBack that found its entry
          queue, size,         \* gPriorityQueue
          pc, tickNow,         \* the manager: where it is, `now` of priorityQueueTick
          nextTick,            \* when the channel of time.After is ready
          replied, timedOut    \* how often a callback was handed out, timed out

qvars == <<queue, size>>

mvars == <<pc, tickNow, nextTick>>

vars == <<now, gCbMap, endTime, adder, getter, queue, size, pc, tickNow,
          nextTick, replied, timedOut>>

Init == /\ now = 0
        /\ gCbMap = {}
        /\ endTime = [c \in Cbid |-> 0]
        /\ adder = [c \in Cbid |-> "new"]
        /\ getter = [c \in Cbid |-> "none"]
        /\ queue = <<>>
        /\ size = 0
        /\ pc = "select"
        /\ tickNow = 0
        /\ nextTick = 1
        /\ replied = [c \in Cbid |-> 0]
        /\ timedOut = [c \in Cbid |-> 0]

(***************************************************************************)
(* The clock stops at MaxTime, when every deadline has passed, but ticks   *)
(* go on as if it did not.                                                 *)
(***************************************************************************)
Clock == /\ now < MaxTime
         /\ now' = now + 1
         /\ UNCHANGED <<gCbMap, endTime, adder, getter, queue, size, pc,
                        tickNow, nextTick, replied, timedOut>>
-----------------------------------------------------------------------------
(***************************************************************************)
(* AddCallBack: enter the callback, then wait for the manager.             *)
(***************************************************************************)
AddCallBack(c) ==
    /\ adder[c] = "new"
    /\ now <= LastAdd
    /\ \E w \in WaitTimes : endTime' = [endTime EXCEPT ![c] = now + w]
    /\ gCbMap' = gCbMap \cup {c}
    /\ adder' = [adder EXCEPT ![c] = "sending"]
    /\ UNCHANGED <<now, getter, qvars, mvars, replied, timedOut>>

(***************************************************************************)
(* GetCallBack: take the entry, then wait for the manager; without an      *)
(* entry (answered or timed out before) return nil.  An answer exists only *)
(* after AddCallBack has returned: every caller sends the request then.    *)
(***************************************************************************)
GetCallBack(c) ==
    /\ adder[c] = "returned"
    /\ \/ /\ c \in gCbMap
          /\ gCbMap' = gCbMap \ {c}
          /\ getter' = [getter EXCEPT ![c] = "sending"]
          /\ UNCHANGED <<now, endTime, adder, qvars, mvars, replied, timedOut>>
       \/ /\ c \notin gCbMap
          /\ UNCHANGED vars

(* Faulty variant: size is not incremented. *)
SelectAddUncounted(c) ==
    /\ pc = "select"
    /\ adder[c] = "sending"
    /\ adder' = [adder EXCEPT ![c] = "returned"]
    /\ queue' = QueueAdd(queue, endTime, c)
    /\ UNCHANGED <<now, gCbMap, endTime, getter, size, mvars, replied, timedOut>>

(***************************************************************************)
(* The cases of the manager's select.                                      *)
(***************************************************************************)
SelectAdd(c) ==
    /\ pc = "select"
    /\ adder[c] = "sending"
    /\ adder' = [adder EXCEPT ![c] = "returned"]
    /\ queue' = QueueAdd(queue, endTime, c)
    /\ size' = size + 1
    /\ UNCHANGED <<now, gCbMap, endTime, getter, mvars, replied, timedOut>>

SelectDel(c) ==
    /\ pc = "select"
    /\ getter[c] = "sending"
    /\ getter' = [getter EXCEPT ![c] = "returned"]
    /\ replied' = [replied EXCEPT ![c] = @ + 1]
    /\ queue' = QueueDel(queue, c)
    /\ size' = size - 1
    /\ UNCHANGED <<now, gCbMap, endTime, adder, mvars, timedOut>>

SelectTick ==
    /\ pc = "select"
    /\ nextTick <= now
    /\ tickNow' = now
    /\ pc' = "scan"
    /\ UNCHANGED <<now, gCbMap, endTime, adder, getter, qvars, nextTick,
                   replied, timedOut>>
-----------------------------------------------------------------------------
(* Faulty variant: off by one. *)
ExpiredEarly == queue # <<>> /\ endTime[Last(queue)] <= tickNow + 1

(* Faulty variant: < instead of <=. *)
ExpiredLate == queue # <<>> /\ endTime[Last(queue)] < tickNow

(***************************************************************************)
(* priorityQueueTick.  Its cursor starts at lastNode and every node it     *)
(* passes is unlinked, so the cursor is the last node of the queue.        *)
(***************************************************************************)
Expired == queue # <<>> /\ endTime[Last(queue)] <= tickNow

(* Faulty variant: whether the entry was there is not looked at. *)
TickTakeAnyway ==
    /\ pc = "scan"
    /\ Expired
    /\ gCbMap' = gCbMap \ {Last(queue)}
    /\ pc' = "fire"
    /\ UNCHANGED <<now, endTime, adder, getter, qvars, tickNow, nextTick,
                   replied, timedOut>>

(* Faulty variant: the entry is not deleted. *)
TickTakeKeepsEntry ==
    /\ pc = "scan"
    /\ Expired
    /\ pc' = IF Last(queue) \in gCbMap THEN "fire" ELSE "unlink"
    /\ UNCHANGED <<now, gCbMap, endTime, adder, getter, qvars, tickNow, nextTick,
                   replied, timedOut>>

TickTake ==
    /\ pc = "scan"
    /\ Expired
    /\ gCbMap' = gCbMap \ {Last(queue)}
    /\ pc' = IF Last(queue) \in gCbMap THEN "fire" ELSE "unlink"
    /\ UNCHANGED <<now, endTime, adder, getter, qvars, tickNow, nextTick,
                   replied, timedOut>>

TickFire ==
    /\ pc = "fire"
    /\ timedOut' = [timedOut EXCEPT ![Last(queue)] = @ + 1]
    /\ pc' = "unlink"
    /\ UNCHANGED <<now, gCbMap, endTime, adder, getter, qvars, tickNow,
                   nextTick, replied>>

TickUnlink ==
    /\ pc = "unlink"
    /\ queue' = QueueDel(queue, Last(queue))
    /\ size' = size - 1
    /\ pc' = "scan"
    /\ UNCHANGED <<now, gCbMap, endTime, adder, getter, tickNow, nextTick,
                   replied, timedOut>>

TickEnd ==
    /\ pc = "scan"
    /\ ~Expired
    /\ pc' = "select"
    /\ nextTick' = IF now = MaxTime THEN MaxTime ELSE now + 1
    /\ UNCHANGED <<now, gCbMap, endTime, adder, getter, qvars, tickNow,
                   replied, timedOut>>

Tick == TickTake \/ TickFire \/ TickUnlink \/ TickEnd

Next == \/ Clock
        \/ \E c \in Cbid : \/ AddCallBack(c) \/ GetCallBack(c)
                           \/ SelectAdd(c) \/ SelectDel(c)
        \/ SelectTick
        \/ Tick

Spec == Init /\ [][Next]_vars

(***************************************************************************)
(* Time passes; the manager keeps running; select chooses at random among  *)
(* the ready cases, so no waiting sender is passed over for ever.  Nothing *)
(* is assumed of answers: they need not come.                              *)
(***************************************************************************)
Fairness == /\ WF_vars(Clock)
            /\ SF_vars(SelectTick)
            /\ WF_vars(Tick)
            /\ \A c \in Cbid : SF_vars(SelectAdd(c)) /\ SF_vars(SelectDel(c))

FairSpec == Spec /\ Fairness
-----------------------------------------------------------------------------
TypeOK == /\ now \in Nat
          /\ gCbMap \subseteq Cbid
          /\ endTime \in [Cbid -> Nat]
          /\ adder \in [Cbid -> {"new", "sending", "returned"}]
          /\ getter \in [Cbid -> {"none", "sending", "returned"}]
          /\ queue \in Seq(Cbid)
          /\ size \in Int
          /\ pc \in {"select", "scan", "fire", "unlink"}
          /\ tickNow \in Nat
          /\ nextTick \in Nat
          /\ replied \in [Cbid -> Nat]
          /\ timedOut \in [Cbid -> Nat]

(***************************************************************************)
(* A callback is handed out or timed out, never both and never twice,      *)
(* although GetCallBack and the tick race for the same entry.              *)
(***************************************************************************)
ResolvedOnce == \A c \in Cbid : replied[c] + timedOut[c] <= 1

(***************************************************************************)
(* No entry of gCbMap is without a node: each is in the queue or its       *)
(* AddCallBack is about to put it there, so none is out of the tick's      *)
(* reach and the map cannot fill up with forgotten callbacks.              *)
(***************************************************************************)
NoForgottenEntry ==
    \A c \in gCbMap : adder[c] = "sending" \/ c \in Range(queue)

(***************************************************************************)
(* No node outlives its entry in the queue, except while the GetCallBack   *)
(* that took the entry waits in chQueueDel or the tick is unlinking it.    *)
(***************************************************************************)
NoForgottenNode ==
    \A c \in Range(queue) \ gCbMap :
        getter[c] = "sending" \/ (pc \in {"fire", "unlink"} /\ c = Last(queue))

(***************************************************************************)
(* The map and the queue never lose track of each other, although          *)
(* AddCallBack fills the map first and GetCallBack and the tick empty them *)
(* in two steps: no entry is without its node, no node without its entry.  *)
(***************************************************************************)
MapMatchesQueue == NoForgottenEntry /\ NoForgottenNode

(***************************************************************************)
(* gPriorityQueue.size errs on one side only: each callback that was       *)
(* answered can have been subtracted once too often, none is added twice.  *)
(***************************************************************************)
SizeDriftBounded ==
    /\ size <= Len(queue)
    /\ Len(queue) - size <= Cardinality({c \in Cbid : getter[c] = "returned"})

(***************************************************************************)
(* The tick takes an entry only once its deadline has passed.              *)
(***************************************************************************)
NeverEarly ==
    [][\A c \in gCbMap \ gCbMap' : getter'[c] = "none" => endTime[c] <= now]_vars

(***************************************************************************)
(* When the tick is over, whatever had expired when it began is gone from  *)
(* the queue, except possibly the first node.                              *)
(***************************************************************************)
TickLeavesOnlyFirst ==
    [][(pc = "scan" /\ pc' = "select") =>
         \A i \in 2..Len(queue) : endTime[queue[i]] > tickNow]_vars

(***************************************************************************)
(* Once calls stop coming in, every registered callback is resolved, even  *)
(* if no answer comes, its node is unlinked, and nobody waits any more in  *)
(* AddCallBack or GetCallBack for the manager.                             *)
(***************************************************************************)
QueueDrains ==
    <>[](/\ gCbMap = {} /\ queue = <<>>
         /\ \A c \in Cbid : adder[c] # "sending" /\ getter[c] # "sending")

(***************************************************************************)
(* The inductive invariant: how the phases of the two callers of one cbid, *)
(* the map, the queue and the tick fit together at every step.             *)
(***************************************************************************)
CallbackInv(c) ==
    /\ adder[c] = "new" => c \notin gCbMap
    /\ adder[c] = "sending" => c \in gCbMap
    /\ adder[c] # "returned" =>
          c \notin Range(queue) /\ getter[c] = "none" /\ timedOut[c] = 0
    /\ c \in gCbMap => getter[c] = "none" /\ timedOut[c] = 0
    /\ getter[c] # "none" => timedOut[c] = 0
    /\ replied[c] = IF getter[c] = "returned" THEN 1 ELSE 0
    /\ timedOut[c] <= 1

TickInv ==
    /\ pc \in {"fire", "unlink"} => Expired /\ Last(queue) \notin gCbMap
    /\ pc = "fire" => getter[Last(queue)] = "none" /\ timedOut[Last(queue)] = 0

Inv == /\ NoDuplicates(queue)
       /\ TailSorted(queue, endTime)
       /\ tickNow <= now
       /\ now <= MaxTime
       /\ \A c \in Cbid : CallbackInv(c)
       /\ TickInv
       /\ NoForgottenEntry
       /\ NoForgottenNode

(***************************************************************************)
(* The abstract state of a callback: taken by the tick, taken by an        *)
(* answer, in the map, or not registered yet.                              *)
(***************************************************************************)
Status(c) ==
    IF adder[c] = "new" THEN "idle"
    ELSE IF c \in gCbMap THEN "pending"
    ELSE IF getter[c] # "none" THEN "answered"
    ELSE "expired"

Promise == INSTANCE CallbackSpec
               WITH status <- [c \in Cbid |-> Status(c)], deadline <- endTime

(***************************************************************************)
(* The manager keeps the promise of CallbackSpec.                          *)
(***************************************************************************)
ImplementsPromise == Promise!Spec
=============================================================================
