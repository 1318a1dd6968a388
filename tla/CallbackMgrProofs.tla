------------------------- MODULE CallbackMgrProofs -------------------------
(***************************************************************************)
(* Proofs about the manager of CallbackMgr, about the clients of           *)
(* ClientTest that use it and about the linked list that holds its queue,  *)
(* for every set of callbacks, every number of clients, every waiting time *)
(* and every bound.                                                        *)
(***************************************************************************)
EXTENDS ClientTest, PriorityQueueProofs

USE ZenonT(5), SMTT(60), SMTT(90)

LEMMA InitInv == Init => TypeOK /\ Inv
<1> SUFFICES ASSUME Init PROVE TypeOK /\ Inv
  OBVIOUS
<1> USE TimeAssumption DEF Init
<1>1. TypeOK
  BY DEF TypeOK
<1>2. NoDuplicates(queue) /\ TailSorted(queue, endTime)
  BY DEF NoDuplicates, TailSorted, SortedFrom
<1>3. Range(queue) = {}
  BY DEF Range
<1>4. \A c \in Cbid : CallbackInv(c)
  BY <1>3 DEF CallbackInv
<1>5. TickInv
  BY DEF TickInv
<1>6. NoForgottenEntry /\ NoForgottenNode
  BY <1>3 DEF NoForgottenEntry, NoForgottenNode
<1> QED
  BY <1>1, <1>2, <1>4, <1>5, <1>6 DEF Inv

(***************************************************************************)
(* What a step does to the queue: only the manager's add, delete and       *)
(* unlink steps touch it, and they keep it a list of distinct nodes that   *)
(* is sorted from the second node on.                                      *)
(***************************************************************************)
LEMMA UnlinkStep ==
  ASSUME TypeOK, Inv, TickUnlink
  PROVE  /\ queue' \in Seq(Cbid)
         /\ Len(queue') = Len(queue) - 1
         /\ Range(queue') = Range(queue) \ {Last(queue)}
         /\ NoDuplicates(queue')
         /\ TailSorted(queue', endTime)
         /\ queue # <<>> /\ Last(queue) \in Cbid /\ Last(queue) \in Range(queue)
<1>1. queue \in Seq(Cbid) /\ endTime \in [Cbid -> Nat]
  BY DEF TypeOK
<1>2. NoDuplicates(queue) /\ TailSorted(queue, endTime)
  BY DEF Inv
<1>3. queue # <<>>
  BY DEF Inv, TickInv, Expired, TickUnlink
<1>4. Last(queue) \in Cbid /\ Last(queue) \in Range(queue)
  BY <1>1, <1>3, LastInQueue
<1>5. queue' = QueueDel(queue, Last(queue))
  BY DEF TickUnlink
<1> QED
  BY <1>1, <1>2, <1>3, <1>4, <1>5, QueueDelProperties, ZenonT(60)

LEMMA DelStep ==
  ASSUME TypeOK, Inv, NEW c \in Cbid, SelectDel(c)
  PROVE  /\ queue' \in Seq(Cbid)
         /\ Len(queue') = IF c \in Range(queue) THEN Len(queue) - 1 ELSE Len(queue)
         /\ Range(queue') = Range(queue) \ {c}
         /\ NoDuplicates(queue')
         /\ TailSorted(queue', endTime)
<1>1. queue \in Seq(Cbid) /\ endTime \in [Cbid -> Nat]
  BY DEF TypeOK
<1>2. NoDuplicates(queue) /\ TailSorted(queue, endTime)
  BY DEF Inv
<1>3. queue' = QueueDel(queue, c)
  BY DEF SelectDel
<1> QED
  BY <1>1, <1>2, <1>3, QueueDelProperties, ZenonT(60)

LEMMA AddStep ==
  ASSUME TypeOK, Inv, NEW c \in Cbid, SelectAdd(c)
  PROVE  /\ queue' \in Seq(Cbid)
         /\ Len(queue') = Len(queue) + 1
         /\ Range(queue') = Range(queue) \cup {c}
         /\ NoDuplicates(queue')
         /\ TailSorted(queue', endTime)
<1>1. queue \in Seq(Cbid) /\ endTime \in [Cbid -> Nat]
  BY DEF TypeOK
<1>2. NoDuplicates(queue) /\ TailSorted(queue, endTime)
  BY DEF Inv
<1>3. c \notin Range(queue)
  BY DEF Inv, CallbackInv, SelectAdd
<1>4. queue' = QueueAdd(queue, endTime, c)
  BY DEF SelectAdd
<1> QED
  BY <1>1, <1>2, <1>3, <1>4, QueueAddProperties, SMTT(30)

LEMMA TypeStep ==
  ASSUME TypeOK, Inv, [Next]_vars
  PROVE  TypeOK'
<1> USE TimeAssumption, WaitAssumption DEF TypeOK
<1>1. CASE Clock
  BY <1>1, SMTT(30) DEF Clock
<1>2. ASSUME NEW c \in Cbid, AddCallBack(c) PROVE TypeOK'
  <2>1. PICK w \in WaitTimes : endTime' = [endTime EXCEPT ![c] = now + w]
    BY <1>2, ZenonT(60) DEF AddCallBack
  <2>2. now + w \in Nat
    BY <2>1, SMTT(30)
  <2>3. endTime' \in [Cbid -> Nat]
    BY <2>1, <2>2
  <2> QED
    BY <1>2, <2>3 DEF AddCallBack, qvars, mvars
<1>3. ASSUME NEW c \in Cbid, GetCallBack(c) PROVE TypeOK'
  BY <1>3, ZenonT(60) DEF GetCallBack, qvars, mvars, vars
<1>4. ASSUME NEW c \in Cbid, SelectAdd(c) PROVE TypeOK'
  <2>1. queue' \in Seq(Cbid)
    BY <1>4, AddStep
  <2> QED
    BY <1>4, <2>1, SMTT(30) DEF SelectAdd, mvars
<1>5. ASSUME NEW c \in Cbid, SelectDel(c) PROVE TypeOK'
  <2>1. queue' \in Seq(Cbid)
    BY <1>5, DelStep
  <2> QED
    BY <1>5, <2>1, SMTT(30) DEF SelectDel, mvars
<1>6. CASE SelectTick
  BY <1>6 DEF SelectTick, qvars
<1>7. CASE TickTake
  BY <1>7 DEF TickTake, qvars
<1>8. CASE TickFire
  <2>1. Last(queue) \in Cbid
    BY <1>8, LastInQueue DEF TickFire, Inv, TickInv, Expired
  <2>2. timedOut' \in [Cbid -> Nat]
    BY <1>8, <2>1, SMTT(30) DEF TickFire
  <2> QED
    BY <1>8, <2>2 DEF TickFire, qvars
<1>9. CASE TickUnlink
  <2>1. queue' \in Seq(Cbid)
    BY <1>9, UnlinkStep
  <2> QED
    BY <1>9, <2>1, SMTT(30) DEF TickUnlink
<1>10. CASE TickEnd
  BY <1>10, SMTT(30) DEF TickEnd, qvars
<1>11. CASE UNCHANGED vars
  BY <1>11 DEF vars
<1> QED
  BY ONLY [Next]_vars, <1>1, <1>2, <1>3, <1>4, <1>5, <1>6, <1>7, <1>8, <1>9, <1>10, <1>11,
     ZenonT(60) DEF Next, Tick

LEMMA InvStep ==
  ASSUME TypeOK, Inv, [Next]_vars
  PROVE  Inv'
<1> USE TimeAssumption
<1>0. TypeOK'
  BY TypeStep
<1>1. CASE Clock
  <2>1. UNCHANGED <<gCbMap, endTime, adder, getter, queue, pc, tickNow, replied, timedOut>>
        /\ tickNow' <= now' /\ now' <= MaxTime
    BY <1>1 DEF Clock, TypeOK, Inv
  <2> QED
    BY <2>1 DEF Inv, CallbackInv, TickInv, NoForgottenEntry, NoForgottenNode, Expired
<1>2. ASSUME NEW c \in Cbid, AddCallBack(c) PROVE Inv'
  <2>1. c \notin Range(queue)
    BY <1>2 DEF Inv, CallbackInv, AddCallBack
  <2>2. UNCHANGED <<now, getter, queue, pc, tickNow, replied, timedOut>>
    BY <1>2 DEF AddCallBack, qvars, mvars
  <2>3. \A d \in Cbid : d # c => endTime'[d] = endTime[d]
    BY <1>2 DEF AddCallBack, TypeOK
  <2>4. \A d \in Range(queue) : d \in Cbid /\ endTime'[d] = endTime[d]
    BY <2>1, <2>3, SMTT(30) DEF TypeOK, Range
  <2>5. TailSorted(queue', endTime')
    <3>1. \A i \in 1..Len(queue) : queue[i] \in Range(queue)
      BY SMTT(30) DEF Range, TypeOK
    <3>2. \A i \in 1..Len(queue) : endTime'[queue[i]] = endTime[queue[i]]
      BY <2>4, <3>1
    <3> QED
      BY <2>2, <3>2 DEF Inv, TailSorted, SortedFrom
  <2>6. \A d \in Cbid : CallbackInv(d)'
    BY <1>2, <2>1, <2>2 DEF Inv, CallbackInv, AddCallBack, TypeOK
  <2>7. TickInv'
    <3>1. queue # <<>> => Last(queue) \in Range(queue)
      BY LastInQueue DEF TypeOK
    <3>2. Expired => Expired' /\ Last(queue) # c
      BY <2>1, <2>2, <2>4, <3>1 DEF Expired
    <3> QED
      BY <1>2, <2>2, <3>2 DEF Inv, TickInv, AddCallBack, TypeOK
  <2>8. NoForgottenEntry' /\ NoForgottenNode'
    BY <1>2, <2>1, <2>2 DEF Inv, NoForgottenEntry, NoForgottenNode, AddCallBack, TypeOK
  <2> QED
    BY <2>2, <2>5, <2>6, <2>7, <2>8 DEF Inv
<1>3. ASSUME NEW c \in Cbid, GetCallBack(c) PROVE Inv'
  <2>1. UNCHANGED <<now, endTime, adder, queue, pc, tickNow, replied, timedOut>>
    BY <1>3 DEF GetCallBack, qvars, mvars, vars
  <2>2. CASE c \notin gCbMap
    <3>1. UNCHANGED vars
      BY <1>3, <2>2 DEF GetCallBack
    <3> QED
      BY <3>1 DEF vars, Inv, CallbackInv, TickInv, NoForgottenEntry, NoForgottenNode, Expired
  <2>3. CASE c \in gCbMap
    <3>1. gCbMap' = gCbMap \ {c} /\ getter' = [getter EXCEPT ![c] = "sending"]
      BY <1>3, <2>3 DEF GetCallBack
    <3>2. adder[c] = "returned"
      BY <1>3 DEF GetCallBack
    <3>3. \A d \in Cbid : CallbackInv(d)'
      BY <2>1, <2>3, <3>1, <3>2 DEF Inv, CallbackInv, TypeOK
    <3>4. TickInv'
      BY <2>1, <2>3, <3>1, SMTT(30) DEF Inv, TickInv, Expired, TypeOK
    <3>5. NoForgottenEntry' /\ NoForgottenNode'
      BY <2>1, <3>1, SMTT(30) DEF Inv, NoForgottenEntry, NoForgottenNode, TypeOK
    <3> QED
      BY <2>1, <3>3, <3>4, <3>5 DEF Inv
  <2> QED
    BY <2>2, <2>3
<1>4. ASSUME NEW c \in Cbid, SelectAdd(c) PROVE Inv'
  <2>1. UNCHANGED <<now, gCbMap, endTime, getter, pc, tickNow, replied, timedOut>>
        /\ pc = "select" /\ adder' = [adder EXCEPT ![c] = "returned"]
        /\ adder[c] = "sending"
    BY <1>4 DEF SelectAdd, mvars
  <2>2. /\ Range(queue') = Range(queue) \cup {c}
        /\ NoDuplicates(queue') /\ TailSorted(queue', endTime)
    BY <1>4, AddStep
  <2>3. \A d \in Cbid : CallbackInv(d)'
    BY <2>1, <2>2 DEF Inv, CallbackInv, TypeOK
  <2>4. TickInv'
    BY <2>1 DEF TickInv
  <2>5. NoForgottenEntry' /\ NoForgottenNode'
    BY <2>1, <2>2 DEF Inv, NoForgottenEntry, NoForgottenNode, CallbackInv, TypeOK
  <2> QED
    BY <2>1, <2>2, <2>3, <2>4, <2>5 DEF Inv
<1>5. ASSUME NEW c \in Cbid, SelectDel(c) PROVE Inv'
  <2>1. UNCHANGED <<now, gCbMap, endTime, adder, pc, tickNow, timedOut>>
        /\ pc = "select" /\ getter' = [getter EXCEPT ![c] = "returned"]
        /\ getter[c] = "sending" /\ replied' = [replied EXCEPT ![c] = @ + 1]
    BY <1>5 DEF SelectDel, mvars
  <2>2. /\ Range(queue') = Range(queue) \ {c}
        /\ NoDuplicates(queue') /\ TailSorted(queue', endTime)
    BY <1>5, DelStep
  <2>3. \A d \in Cbid : CallbackInv(d)'
    BY <2>1, <2>2, SMTT(30) DEF Inv, CallbackInv, TypeOK
  <2>4. TickInv'
    BY <2>1 DEF TickInv
  <2>5. NoForgottenEntry' /\ NoForgottenNode'
    BY <2>1, <2>2, SMTT(30) DEF Inv, NoForgottenEntry, NoForgottenNode, CallbackInv, TypeOK
  <2> QED
    BY <2>1, <2>2, <2>3, <2>4, <2>5 DEF Inv
<1>6. CASE SelectTick
  <2>1. UNCHANGED <<now, gCbMap, endTime, adder, getter, queue, replied, timedOut>>
        /\ pc = "select" /\ pc' = "scan" /\ tickNow' = now
    BY <1>6 DEF SelectTick, qvars
  <2> QED
    BY <2>1, SMTT(30) DEF Inv, CallbackInv, TickInv, NoForgottenEntry, NoForgottenNode, TypeOK
<1>7. CASE TickTake
  <2>1. UNCHANGED <<now, endTime, adder, getter, queue, tickNow, replied, timedOut>>
        /\ pc = "scan" /\ Expired /\ gCbMap' = gCbMap \ {Last(queue)}
        /\ pc' = IF Last(queue) \in gCbMap THEN "fire" ELSE "unlink"
    BY <1>7 DEF TickTake, qvars
  <2>2. Last(queue) \in Cbid /\ Last(queue) \in Range(queue)
    BY <2>1, LastInQueue DEF TypeOK, Expired
  <2>3. Expired' /\ Last(queue)' = Last(queue)
    BY <2>1 DEF Expired
  <2>4. \A d \in Cbid : CallbackInv(d)'
    BY <2>1, <2>2 DEF Inv, CallbackInv, TypeOK
  <2>5. TickInv'
    BY <2>1, <2>2, <2>3 DEF Inv, CallbackInv, TickInv
  <2>6. NoForgottenEntry' /\ NoForgottenNode'
    BY <2>1 DEF Inv, NoForgottenEntry, NoForgottenNode, TypeOK
  <2> QED
    BY <2>1, <2>4, <2>5, <2>6 DEF Inv
<1>8. CASE TickFire
  <2>1. UNCHANGED <<now, gCbMap, endTime, adder, getter, queue, tickNow, replied>>
        /\ pc = "fire" /\ pc' = "unlink"
        /\ timedOut' = [timedOut EXCEPT ![Last(queue)] = @ + 1]
    BY <1>8 DEF TickFire, qvars
  <2>2. /\ Expired /\ Last(queue) \notin gCbMap
        /\ getter[Last(queue)] = "none" /\ timedOut[Last(queue)] = 0
    BY <2>1 DEF Inv, TickInv
  <2>3. Last(queue) \in Cbid /\ Last(queue) \in Range(queue)
    BY <2>2, LastInQueue DEF TypeOK, Expired
  <2>4. \A d \in Cbid : CallbackInv(d)'
    BY <2>1, <2>2, <2>3, SMTT(30) DEF Inv, CallbackInv, TypeOK
  <2>5. Expired'
    BY <2>1, <2>2 DEF Expired
  <2>6. TickInv'
    BY <2>1, <2>2, <2>5 DEF TickInv
  <2>7. NoForgottenEntry' /\ NoForgottenNode'
    BY <2>1 DEF Inv, NoForgottenEntry, NoForgottenNode, TypeOK
  <2> QED
    BY <2>1, <2>4, <2>6, <2>7 DEF Inv
<1>9. CASE TickUnlink
  <2>1. UNCHANGED <<now, gCbMap, endTime, adder, getter, tickNow, replied, timedOut>>
        /\ pc = "unlink" /\ pc' = "scan"
    BY <1>9 DEF TickUnlink
  <2>2. /\ Range(queue') = Range(queue) \ {Last(queue)}
        /\ NoDuplicates(queue') /\ TailSorted(queue', endTime)
        /\ Last(queue) \in Cbid /\ Last(queue) \in Range(queue)
    BY <1>9, UnlinkStep
  <2>3. Last(queue) \notin gCbMap
    BY <2>1 DEF Inv, TickInv
  <2>4. \A d \in Cbid : CallbackInv(d)'
    BY <2>1, <2>2 DEF Inv, CallbackInv, TypeOK
  <2>5. TickInv'
    BY <2>1 DEF TickInv
  <2>6. NoForgottenEntry' /\ NoForgottenNode'
    BY <2>1, <2>2, <2>3 DEF Inv, NoForgottenEntry, NoForgottenNode, TypeOK
  <2> QED
    BY <2>1, <2>2, <2>4, <2>5, <2>6 DEF Inv
<1>10. CASE TickEnd
  <2>1. UNCHANGED <<now, gCbMap, endTime, adder, getter, queue, tickNow, replied, timedOut>>
        /\ pc = "scan" /\ pc' = "select"
    BY <1>10 DEF TickEnd, qvars
  <2> QED
    BY <2>1 DEF Inv, CallbackInv, TickInv, NoForgottenEntry, NoForgottenNode
<1>11. CASE UNCHANGED vars
  BY <1>11 DEF vars, Inv, CallbackInv, TickInv, NoForgottenEntry, NoForgottenNode, Expired
<1> QED
  BY ONLY [Next]_vars, <1>1, <1>2, <1>3, <1>4, <1>5, <1>6, <1>7, <1>8, <1>9, <1>10, <1>11,
     ZenonT(60) DEF Next, Tick

LEMMA InvImpliesResolvedOnce == TypeOK /\ Inv => ResolvedOnce
<1> SUFFICES ASSUME TypeOK, Inv, NEW c \in Cbid
             PROVE  replied[c] + timedOut[c] <= 1
  BY DEF ResolvedOnce
<1>1. /\ getter[c] # "none" => timedOut[c] = 0
      /\ replied[c] = IF getter[c] = "returned" THEN 1 ELSE 0
      /\ timedOut[c] <= 1
  BY DEF Inv, CallbackInv
<1>2. timedOut[c] \in Nat
  BY DEF TypeOK
<1> QED
  BY <1>1, <1>2

-----------------------------------------------------------------------------

(***************************************************************************)
(* The tick ends in a state where the last node has not expired: from the  *)
(* second node on every deadline is at least as late.                      *)
(***************************************************************************)
LEMMA TickEndLeaves ==
  ASSUME TypeOK, Inv, [Next]_vars, pc = "scan", pc' = "select"
  PROVE  \A i \in 2..Len(queue) : endTime[queue[i]] > tickNow
<1>1. ~Expired
  <2>1. TickEnd
    BY DEF Next, Tick, Clock, AddCallBack, GetCallBack, SelectAdd, SelectDel,
           SelectTick, TickTake, TickFire, TickUnlink, mvars, vars
  <2> QED
    BY <2>1 DEF TickEnd
<1>2. SUFFICES ASSUME NEW i \in 2..Len(queue)
               PROVE  endTime[queue[i]] > tickNow
  OBVIOUS
<1>3. queue \in Seq(Cbid) /\ queue # <<>> /\ i \in 1..Len(queue)
  BY <1>2, SMTT(30) DEF TypeOK
<1>4. Last(queue) = queue[Len(queue)] /\ Len(queue) \in 1..Len(queue)
      /\ Last(queue) \in Cbid
  BY <1>3, LastInQueue
<1>5. queue[i] \in Cbid /\ endTime[queue[i]] \in Nat /\ endTime[Last(queue)] \in Nat
      /\ tickNow \in Nat
  BY <1>3, <1>4, SMTT(30) DEF TypeOK
<1>6. endTime[Last(queue)] > tickNow
  BY <1>1, <1>3, <1>5 DEF Expired
<1>7. endTime[queue[i]] >= endTime[Last(queue)]
  <2>1. CASE i = Len(queue)
    BY <2>1, <1>4, <1>5
  <2>2. CASE i < Len(queue)
    BY <2>2, <1>2, <1>3, <1>4 DEF Inv, TailSorted, SortedFrom
  <2> QED
    BY <2>1, <2>2, <1>2
<1> QED
  BY <1>5, <1>6, <1>7

LEMMA TakenWhenDue ==
  ASSUME TypeOK, Inv, [Next]_vars, NEW c \in gCbMap \ gCbMap', getter'[c] = "none"
  PROVE  endTime[c] <= now
<1>1. TickTake
  BY DEF Next, Tick, Clock, AddCallBack, GetCallBack, SelectAdd, SelectDel, TypeOK,
         SelectTick, TickFire, TickUnlink, TickEnd, vars
<1>2. c = Last(queue) /\ Expired
  BY <1>1 DEF TickTake
<1> QED
  BY <1>2, SMTT(30) DEF Expired, Inv, TypeOK

-----------------------------------------------------------------------------

(***************************************************************************)
(* The refinement: AddCallBack registers, the GetCallBack that finds the   *)
(* entry answers, the tick that takes the entry expires the callback, and  *)
(* every other step is invisible to the callers.                           *)
(***************************************************************************)
StatusFn == [c \in Cbid |-> Status(c)]

LEMMA StatusAfter ==
  ASSUME NEW c \in Cbid, NEW v,
         Status(c)' = v,
         \A d \in Cbid \ {c} : Status(d)' = Status(d)
  PROVE  StatusFn' = [StatusFn EXCEPT ![c] = v]
BY ZenonT(60) DEF StatusFn

LEMMA StatusSame ==
  ASSUME UNCHANGED adder, UNCHANGED gCbMap,
         \A c \in Cbid : getter[c] # "none" <=> getter'[c] # "none"
  PROVE  StatusFn' = StatusFn
BY DEF StatusFn, Status

LEMMA RefinementStep ==
  ASSUME TypeOK, Inv, [Next]_vars
  PROVE  [Promise!Next]_(Promise!vars)
<1> USE DEF StatusFn
<1>1. CASE Clock
  <2>1. StatusFn' = StatusFn
    BY <1>1, StatusSame DEF Clock
  <2>2. Promise!Clock
    BY <1>1, <2>1 DEF Clock, Promise!Clock
  <2> QED
    BY <2>2 DEF Promise!Next
<1>2. ASSUME NEW c \in Cbid, AddCallBack(c) PROVE [Promise!Next]_(Promise!vars)
  <2>1. adder[c] = "new" /\ adder' = [adder EXCEPT ![c] = "sending"]
        /\ gCbMap' = gCbMap \cup {c} /\ getter' = getter /\ now' = now
        /\ \E w \in WaitTimes : endTime' = [endTime EXCEPT ![c] = now + w]
    BY <1>2, ZenonT(60) DEF AddCallBack
  <2>2. Status(c) = "idle" /\ Status(c)' = "pending"
    BY <2>1 DEF Status, TypeOK
  <2>3. \A d \in Cbid \ {c} : Status(d)' = Status(d)
    BY <2>1 DEF Status, TypeOK
  <2>4. StatusFn' = [StatusFn EXCEPT ![c] = "pending"]
    BY <2>2, <2>3, StatusAfter
  <2>5. Promise!Register(c)
    BY <2>1, <2>2, <2>4, ZenonT(60) DEF Promise!Register
  <2> QED
    BY <2>5 DEF Promise!Next
<1>3. ASSUME NEW c \in Cbid, GetCallBack(c) PROVE [Promise!Next]_(Promise!vars)
  <2>1. CASE c \notin gCbMap
    <3>1. UNCHANGED vars
      BY <1>3, <2>1 DEF GetCallBack
    <3>2. StatusFn' = StatusFn /\ endTime' = endTime /\ now' = now
      BY <3>1, StatusSame DEF vars
    <3> QED
      BY <3>2 DEF Promise!vars
  <2>2. CASE c \in gCbMap
    <3>1. gCbMap' = gCbMap \ {c} /\ getter' = [getter EXCEPT ![c] = "sending"]
          /\ adder[c] = "returned" /\ UNCHANGED <<adder, endTime, now>>
      BY <1>3, <2>2 DEF GetCallBack
    <3>2. Status(c) = "pending" /\ Status(c)' = "answered"
      BY <2>2, <3>1 DEF Status, TypeOK
    <3>3. \A d \in Cbid \ {c} : Status(d)' = Status(d)
      BY <3>1 DEF Status, TypeOK
    <3>4. StatusFn' = [StatusFn EXCEPT ![c] = "answered"]
      BY <3>2, <3>3, StatusAfter
    <3>5. Promise!Answer(c)
      BY <3>1, <3>2, <3>4 DEF Promise!Answer
    <3> QED
      BY <3>5 DEF Promise!Next
  <2> QED
    BY <2>1, <2>2
<1>4. ASSUME NEW c \in Cbid, SelectAdd(c) PROVE [Promise!Next]_(Promise!vars)
  <2>1. adder[c] = "sending" /\ adder' = [adder EXCEPT ![c] = "returned"]
        /\ UNCHANGED <<gCbMap, getter, endTime, now>>
    BY <1>4 DEF SelectAdd
  <2>2. \A d \in Cbid : Status(d)' = Status(d)
    BY <2>1 DEF Status, TypeOK
  <2>3. StatusFn' = StatusFn
    BY <2>2
  <2> QED
    BY <2>1, <2>3 DEF Promise!vars
<1>5. ASSUME NEW c \in Cbid, SelectDel(c) PROVE [Promise!Next]_(Promise!vars)
  <2>1. getter[c] = "sending" /\ getter' = [getter EXCEPT ![c] = "returned"]
        /\ UNCHANGED <<gCbMap, adder, endTime, now>>
    BY <1>5 DEF SelectDel
  <2>2. \A d \in Cbid : getter[d] # "none" <=> getter'[d] # "none"
    BY <2>1 DEF TypeOK
  <2>3. StatusFn' = StatusFn
    BY <2>1, <2>2, StatusSame
  <2> QED
    BY <2>1, <2>3 DEF Promise!vars
<1>6. CASE TickTake
  <2>1. Expired /\ gCbMap' = gCbMap \ {Last(queue)}
        /\ UNCHANGED <<adder, getter, endTime, now>>
    BY <1>6 DEF TickTake
  <2>2. CASE Last(queue) \notin gCbMap
    <3>1. gCbMap' = gCbMap
      BY <2>1, <2>2
    <3>2. StatusFn' = StatusFn
      BY <2>1, <3>1, StatusSame
    <3> QED
      BY <2>1, <3>2 DEF Promise!vars
  <2>3. CASE Last(queue) \in gCbMap
    <3>1. PICK c \in Cbid : c = Last(queue)
      BY <2>3 DEF TypeOK
    <3>2. endTime[c] <= now
      BY <2>1, <3>1 DEF Expired, Inv, TypeOK
    <3>3. adder[c] # "new" /\ getter[c] = "none"
      BY <2>3, <3>1 DEF Inv, CallbackInv
    <3>4. Status(c) = "pending" /\ Status(c)' = "expired"
      BY <2>1, <2>3, <3>1, <3>3 DEF Status
    <3>5. \A d \in Cbid \ {c} : Status(d)' = Status(d)
      BY <2>1, <3>1 DEF Status
    <3>6. StatusFn' = [StatusFn EXCEPT ![c] = "expired"]
      BY <3>4, <3>5, StatusAfter
    <3>7. Promise!Expire(c)
      BY <2>1, <3>2, <3>4, <3>6 DEF Promise!Expire
    <3> QED
      BY <3>7 DEF Promise!Next
  <2> QED
    BY <2>2, <2>3
<1>7. CASE SelectTick \/ TickFire \/ TickUnlink \/ TickEnd \/ UNCHANGED vars
  <2>1. UNCHANGED <<gCbMap, adder, getter, endTime, now>>
    BY <1>7 DEF SelectTick, TickFire, TickUnlink, TickEnd, vars
  <2>2. StatusFn' = StatusFn
    BY <2>1, StatusSame
  <2> QED
    BY <2>1, <2>2 DEF Promise!vars
<1> QED
  BY <1>1, <1>2, <1>3, <1>4, <1>5, <1>6, <1>7 DEF Next, Tick

-----------------------------------------------------------------------------

(***************************************************************************)
(* The facts about finite sets that the proofs below use.                  *)
(***************************************************************************)
FiniteSetFacts ==
    /\ Cardinality({}) = 0
    /\ \A S : IsFiniteSet(S) => Cardinality(S) \in Nat
    /\ \A S, x : IsFiniteSet(S) /\ x \notin S => Cardinality(S \cup {x}) = Cardinality(S) + 1
    /\ \A S : \A T \in SUBSET S :
          IsFiniteSet(S) => IsFiniteSet(T) /\ (Cardinality(S) = Cardinality(T) => S = T)

LEMMA Sizes ==
  ASSUME FiniteSetFacts, NEW S, IsFiniteSet(S)
  PROVE  Cardinality(S) \in Nat
BY DEF FiniteSetFacts

LEMMA OneMore ==
  ASSUME FiniteSetFacts, NEW S, NEW x, IsFiniteSet(S), x \notin S
  PROVE  Cardinality(S \cup {x}) = Cardinality(S) + 1
BY DEF FiniteSetFacts

LEMMA Subsets ==
  ASSUME FiniteSetFacts, NEW S, IsFiniteSet(S), NEW T \in SUBSET S
  PROVE  IsFiniteSet(T) /\ (Cardinality(S) = Cardinality(T) => S = T)
BY DEF FiniteSetFacts

(***************************************************************************)
(* size: each step changes it together with the length of the queue,       *)
(* except a queueDel of a node that the tick has unlinked already, and     *)
(* that step adds one to the callbacks whose GetCallBack has returned.     *)
(***************************************************************************)
Returned == {c \in Cbid : getter[c] = "returned"}

LEMMA ReturnedFinite ==
  ASSUME FiniteSetFacts
  PROVE  IsFiniteSet(Returned)
BY CbidAssumption, Subsets DEF Returned

LEMMA SizeStep ==
  ASSUME FiniteSetFacts, TypeOK, Inv, SizeDriftBounded, [Next]_vars
  PROVE  SizeDriftBounded'
<1>0. size \in Int /\ Len(queue) \in Nat /\ Cardinality(Returned) \in Nat
  BY ReturnedFinite, Sizes, SMTT(30) DEF TypeOK
<1>1. size <= Len(queue) /\ Len(queue) - size <= Cardinality(Returned)
  BY DEF SizeDriftBounded, Returned
<1>2. SUFFICES size' <= Len(queue') /\ Len(queue') - size' <= Cardinality(Returned')
  BY DEF SizeDriftBounded, Returned
<1>3. ASSUME getter' = getter, queue' = queue, size' = size
      PROVE  size' <= Len(queue') /\ Len(queue') - size' <= Cardinality(Returned')
  <2>1. Returned' = Returned
    BY <1>3 DEF Returned
  <2> QED
    BY <1>1, <1>3, <2>1
<1>4. ASSUME NEW c \in Cbid, GetCallBack(c), c \in gCbMap
      PROVE  size' <= Len(queue') /\ Len(queue') - size' <= Cardinality(Returned')
  <2>1. getter[c] = "none" /\ getter' = [getter EXCEPT ![c] = "sending"]
        /\ queue' = queue /\ size' = size
    BY <1>4 DEF GetCallBack, qvars, Inv, CallbackInv
  <2>2. Returned' = Returned
    BY <2>1 DEF Returned, TypeOK
  <2> QED
    BY <1>1, <2>1, <2>2
<1>5. ASSUME NEW c \in Cbid, SelectAdd(c)
      PROVE  size' <= Len(queue') /\ Len(queue') - size' <= Cardinality(Returned')
  <2>1. Len(queue') = Len(queue) + 1 /\ size' = size + 1 /\ getter' = getter
    BY <1>5, AddStep, ZenonT(60) DEF SelectAdd
  <2>2. Returned' = Returned
    BY <2>1 DEF Returned
  <2> QED
    BY <1>0, <1>1, <2>1, <2>2
<1>6. ASSUME NEW c \in Cbid, SelectDel(c)
      PROVE  size' <= Len(queue') /\ Len(queue') - size' <= Cardinality(Returned')
  <2>1. Len(queue') = Len(queue) - 1 \/ Len(queue') = Len(queue)
    BY <1>6, DelStep
  <2>2. size' = size - 1 /\ getter[c] = "sending"
        /\ getter' = [getter EXCEPT ![c] = "returned"]
    BY <1>6 DEF SelectDel
  <2>3. Returned' = Returned \cup {c} /\ c \notin Returned
    BY <2>2 DEF Returned, TypeOK
  <2>4. Cardinality(Returned') = Cardinality(Returned) + 1
    BY <2>3, ReturnedFinite, OneMore
  <2> QED
    BY <1>0, <1>1, <2>1, <2>2, <2>4, SMTT(30)
<1>7. CASE TickUnlink
  <2>1. Len(queue') = Len(queue) - 1 /\ size' = size - 1 /\ getter' = getter
    BY <1>7, UnlinkStep DEF TickUnlink
  <2>2. Returned' = Returned
    BY <2>1 DEF Returned
  <2> QED
    BY <1>0, <1>1, <2>1, <2>2, SMTT(30)
<1>8. CASE Clock \/ SelectTick \/ TickTake \/ TickFire \/ TickEnd \/ UNCHANGED vars
  <2>1. getter' = getter /\ queue' = queue /\ size' = size
    BY <1>8 DEF Clock, SelectTick, TickTake, TickFire, TickEnd, qvars, vars
  <2> QED
    BY <1>3, <2>1
<1>9. ASSUME NEW c \in Cbid, AddCallBack(c) \/ (GetCallBack(c) /\ c \notin gCbMap)
      PROVE  size' <= Len(queue') /\ Len(queue') - size' <= Cardinality(Returned')
  <2>1. getter' = getter /\ queue' = queue /\ size' = size
    BY <1>9 DEF AddCallBack, GetCallBack, qvars, vars
  <2> QED
    BY <1>3, <2>1
<1> QED
  BY <1>4, <1>5, <1>6, <1>7, <1>8, <1>9 DEF Next, Tick

-----------------------------------------------------------------------------

(***************************************************************************)
(* Every variable keeps its type: the map and the queue hold only cbids    *)
(* that AddCallBack was given.                                             *)
(***************************************************************************)
THEOREM TypeCorrect == Spec => []TypeOK
<1>1. TypeOK /\ Inv /\ [Next]_vars => TypeOK' /\ Inv'
  BY TypeStep, InvStep
<1> QED
  BY <1>1, InitInv, PTL DEF Spec

(***************************************************************************)
(* The inductive invariant holds for every set of callbacks.               *)
(***************************************************************************)
THEOREM InvHolds == Spec => [](TypeOK /\ Inv)
<1>1. TypeOK /\ Inv /\ [Next]_vars => TypeOK' /\ Inv'
  BY TypeStep, InvStep
<1> QED
  BY <1>1, InitInv, PTL DEF Spec

(***************************************************************************)
(* A callback is handed to GetCallBack or timed out by the tick, at most   *)
(* once in all, however the two race.                                      *)
(***************************************************************************)
THEOREM ResolvedOnceHolds == Spec => []ResolvedOnce
BY InvHolds, InvImpliesResolvedOnce, PTL

(***************************************************************************)
(* Every entry of gCbMap is, or is about to be, where the tick finds it,   *)
(* and every queued node has its entry or somebody about to unlink it.     *)
(***************************************************************************)
THEOREM NothingForgotten == Spec => []MapMatchesQueue
<1>1. Inv => MapMatchesQueue
  BY DEF Inv, MapMatchesQueue
<1> QED
  BY <1>1, InvHolds, PTL

(***************************************************************************)
(* The tick takes no entry before its deadline.                            *)
(***************************************************************************)
THEOREM NeverEarlyHolds == Spec => NeverEarly
<1>1. TypeOK /\ Inv /\ [Next]_vars =>
        [\A c \in gCbMap \ gCbMap' : getter'[c] = "none" => endTime[c] <= now]_vars
  BY ONLY TakenWhenDue, ZenonT(60)
<1> QED
  BY <1>1, InvHolds, PTL DEF Spec, NeverEarly

(***************************************************************************)
(* A tick leaves nothing that had expired behind, but possibly the first   *)
(* node.                                                                   *)
(***************************************************************************)
THEOREM TickLeavesOnlyFirstHolds == Spec => TickLeavesOnlyFirst
<1>1. TypeOK /\ Inv /\ [Next]_vars =>
        [(pc = "scan" /\ pc' = "select") =>
           \A i \in 2..Len(queue) : endTime[queue[i]] > tickNow]_vars
  BY ONLY TickEndLeaves, ZenonT(60)
<1> QED
  BY <1>1, InvHolds, PTL DEF Spec, TickLeavesOnlyFirst

(***************************************************************************)
(* The manager implements CallbackSpec: what its callers see is a callback *)
(* that is answered once, or expires once and not before its deadline.     *)
(***************************************************************************)
THEOREM PromiseKept == Spec => ImplementsPromise
<1>1. Init => Promise!Init
  <2> SUFFICES ASSUME Init PROVE Promise!Init
    OBVIOUS
  <2>1. \A c \in Cbid : Status(c) = "idle"
    BY DEF Init, Status
  <2> QED
    BY <2>1 DEF Init, Promise!Init
<1>2. TypeOK /\ Inv /\ [Next]_vars => [Promise!Next]_(Promise!vars)
  BY RefinementStep
<1> QED
  BY <1>1, <1>2, InvHolds, PTL DEF Spec, ImplementsPromise, Promise!Spec

(***************************************************************************)
(* What the clients do with the manager is what CallbackMgr allows.        *)
(***************************************************************************)
LEMMA ManagerStep == [CNext]_allvars => [Next]_vars
<1> SUFFICES ASSUME [CNext]_allvars PROVE [Next]_vars
  OBVIOUS
<1>1. CASE CClock
  BY <1>1 DEF CClock, Next
<1>2. ASSUME NEW k \in Client, RpcCall(k) PROVE [Next]_vars
  <2>1. PICK i \in 1..Len(Calls[k]) : AddCallBack(Calls[k][i])
    BY <1>2 DEF RpcCall
  <2>2. Calls[k][i] \in Cbid
    BY CallsAssumption, SMTT(30)
  <2> QED
    BY <2>1, <2>2 DEF Next
<1>3. ASSUME NEW k \in Client, StopFvc(k) PROVE [Next]_vars
  BY <1>3 DEF StopFvc
<1>4. ASSUME NEW c \in Cbid, RpcRsp(c) PROVE [Next]_vars
  BY <1>4 DEF RpcRsp, Next
<1>5. ASSUME NEW c \in Cbid, CallBack(c) PROVE [Next]_vars
  BY <1>5 DEF CallBack
<1>6. ASSUME NEW c \in Cbid, CSelect(c) PROVE [Next]_vars
  BY <1>6 DEF CSelect, ListAdd, ListDel, Next
<1>7. CASE CSelectTick
  BY <1>7 DEF CSelectTick, ListTick, Next
<1>8. CASE CTick
  BY <1>8 DEF CTick, TimeoutCb, ListUnlink, ListTickEnd, Next, Tick
<1>9. CASE UNCHANGED allvars
  BY <1>9 DEF allvars
<1> QED
  BY <1>1, <1>2, <1>3, <1>4, <1>5, <1>6, <1>7, <1>8, <1>9 DEF CNext

(***************************************************************************)
(* The clients and the manager together implement CallbackMgr, so that its *)
(* theorems hold of the manager that the clients share.                    *)
(***************************************************************************)
THEOREM ClientsUseManager == CSpec => Spec
<1>1. CInit => Init
  BY DEF CInit
<1> QED
  BY <1>1, ManagerStep, PTL DEF CSpec, Spec

(***************************************************************************)
(* Each call has one client.                                               *)
(***************************************************************************)
LEMMA OwnerOfCall ==
  ASSUME NEW c \in Cbid
  PROVE  /\ Owner(c) \in Client
         /\ c \in CallsOf(Owner(c))
         /\ \A k \in Client : c \in CallsOf(k) => k = Owner(c)
<1>1. \E k \in Client : c \in CallsOf(k)
  BY CallsAssumption DEF CallsOf
<1>2. Owner(c) \in Client /\ c \in CallsOf(Owner(c))
  BY <1>1 DEF Owner
<1> QED
  BY <1>2, CallsAssumption DEF CallsOf

LEMMA CallsFinite ==
  ASSUME FiniteSetFacts, NEW k \in Client
  PROVE  IsFiniteSet(CallsOf(k)) /\ CallsOf(k) \subseteq Cbid
<1>1. CallsOf(k) \subseteq Cbid
  BY CallsAssumption DEF CallsOf
<1> QED
  BY <1>1, CbidAssumption, Subsets

(***************************************************************************)
(* A callback that runs for the first time is counted.                     *)
(***************************************************************************)
LEMMA CountStep ==
  ASSUME FiniteSetFacts, CountInv, NEW c \in Cbid, Count(Owner(c)),
         c \notin Resolved(Owner(c)),
         \A k \in Client : Resolved(k)' = Resolved(k) \cup ({c} \cap CallsOf(k))
  PROVE  /\ fvc' \in [Client -> {"up", "stopped"}]
         /\ totalCnt' \in [Client -> Nat]
         /\ \A k \in Client : totalCnt'[k] = Cardinality(Resolved(k)')
         /\ \A k \in Client : fvc'[k] = "stopped" => totalCnt'[k] = testCnt(k)
<1>1. Owner(c) \in Client /\ c \in CallsOf(Owner(c))
  BY OwnerOfCall
<1>2. fvc' \in [Client -> {"up", "stopped"}] /\ totalCnt' \in [Client -> Nat]
  BY <1>1, SMTT(30) DEF Count, CountInv
<1>3. ASSUME NEW k \in Client PROVE totalCnt'[k] = Cardinality(Resolved(k)')
  <2>1. CASE k = Owner(c)
    <3>1. IsFiniteSet(Resolved(k))
      BY CallsFinite, Subsets DEF Resolved
    <3>2. Resolved(k)' = Resolved(k) \cup {c}
      BY <1>1, <2>1
    <3>3. Cardinality(Resolved(k)') = Cardinality(Resolved(k)) + 1
      BY <2>1, <3>1, <3>2, OneMore
    <3> QED
      BY <1>1, <2>1, <3>3 DEF Count, CountInv
  <2>2. CASE k # Owner(c)
    <3>1. c \notin CallsOf(k)
      BY <2>2, OwnerOfCall
    <3>2. Resolved(k)' = Resolved(k)
      BY <3>1
    <3> QED
      BY <1>1, <2>2, <3>2 DEF Count, CountInv
  <2> QED
    BY <2>1, <2>2
<1>4. \A k \in Client : fvc'[k] = "stopped" => totalCnt'[k] = testCnt(k)
  BY <1>1 DEF Count, CountInv
<1> QED
  BY <1>2, <1>3, <1>4

LEMMA CountSame ==
  ASSUME CountInv, UNCHANGED <<fvc, totalCnt, ran, timedOut>>,
         \A c \in Cbid : getter[c] = "returned" => getter'[c] = "returned"
  PROVE  CountInv'
<1>1. \A k \in Client : Resolved(k)' = Resolved(k)
  BY DEF Resolved
<1> QED
  BY <1>1 DEF CountInv

LEMMA CountInit ==
  ASSUME FiniteSetFacts
  PROVE  CInit => CountInv
<1> SUFFICES ASSUME CInit PROVE CountInv
  OBVIOUS
<1>1. \A k \in Client : Resolved(k) = {}
  <2> SUFFICES ASSUME NEW k \in Client, NEW c \in CallsOf(k) PROVE timedOut[c] = 0 /\ c \notin ran
    BY DEF Resolved
  <2> QED
    BY CallsFinite DEF CInit, Init
<1> QED
  BY <1>1, FiniteSetFacts DEF FiniteSetFacts, CInit, CountInv

LEMMA CountInvStep ==
  ASSUME FiniteSetFacts, TypeOK, Inv, CountInv, [CNext]_allvars
  PROVE  CountInv'
<1>1. ASSUME NEW c \in Cbid, CallBack(c) PROVE CountInv'
  <2>1. /\ getter[c] = "returned" /\ c \notin ran /\ ran' = ran \cup {c}
        /\ Count(Owner(c)) /\ UNCHANGED <<getter, timedOut>>
    BY <1>1 DEF CallBack, vars
  <2>2. timedOut[c] = 0
    BY <2>1 DEF Inv, CallbackInv
  <2>3. \A k \in Client : Resolved(k)' = Resolved(k) \cup ({c} \cap CallsOf(k))
    BY <2>1 DEF Resolved
  <2>4. c \notin Resolved(Owner(c))
    BY <2>1, <2>2 DEF Resolved
  <2> QED
    BY <2>1, <2>3, <2>4, CountStep DEF CountInv
<1>2. CASE TimeoutCb
  <2> DEFINE c == Last(queue)
  <2>1. /\ pc = "fire" /\ timedOut' = [timedOut EXCEPT ![c] = @ + 1]
        /\ Count(Owner(c)) /\ UNCHANGED <<getter, ran>>
    BY <1>2 DEF TimeoutCb, TickFire
  <2>2. queue # <<>> /\ getter[c] = "none" /\ timedOut[c] = 0
    BY <2>1 DEF Inv, TickInv, Expired
  <2>3. c \in Cbid
    BY <2>2, LastInQueue DEF TypeOK
  <2>4. c \notin ran
    BY <2>2 DEF CountInv
  <2> HIDE DEF c
  <2>5. timedOut \in [Cbid -> Nat]
    BY DEF TypeOK
  <2>6. timedOut'[c] = 1 /\ \A d \in Cbid : d # c => timedOut'[d] = timedOut[d]
    BY <2>1, <2>2, <2>3, <2>5, SMTT(30)
  <2>7. \A k \in Client : Resolved(k)' = Resolved(k) \cup ({c} \cap CallsOf(k))
    BY <2>1, <2>6, CallsFinite DEF Resolved
  <2>8. c \notin Resolved(Owner(c))
    BY <2>2, <2>4 DEF Resolved
  <2> QED
    BY <2>1, <2>3, <2>7, <2>8, CountStep DEF CountInv
<1>3. ASSUME NEW l \in Client, StopFvc(l) PROVE CountInv'
  <2>1. /\ fvc' = [fvc EXCEPT ![l] = "stopped"] /\ totalCnt[l] = testCnt(l)
        /\ UNCHANGED <<totalCnt, ran, timedOut, getter>>
    BY <1>3 DEF StopFvc, AllCounted, vars
  <2>2. \A k \in Client : Resolved(k)' = Resolved(k)
    BY <2>1 DEF Resolved
  <2> QED
    BY <2>1, <2>2 DEF CountInv
<1>4. ASSUME NEW c \in Cbid, CSelect(c) PROVE CountInv'
  <2>1. UNCHANGED <<fvc, totalCnt, ran, timedOut>> /\ getter \in [Cbid -> {"none", "sending", "returned"}]
    BY <1>4 DEF CSelect, cvars, ListAdd, ListDel, SelectAdd, SelectDel, TypeOK
  <2>2. \A d \in Cbid : getter[d] = "returned" => getter'[d] = "returned"
    BY <1>4, <2>1 DEF CSelect, ListAdd, ListDel, SelectAdd, SelectDel
  <2> QED
    BY <2>1, <2>2, CountSame
<1>5. ASSUME NEW c \in Cbid, RpcRsp(c) PROVE CountInv'
  <2>1. UNCHANGED <<fvc, totalCnt, ran, timedOut>> /\ getter \in [Cbid -> {"none", "sending", "returned"}]
    BY <1>5 DEF RpcRsp, GetCallBack, cvars, vars, TypeOK
  <2>2. c \in gCbMap => getter[c] = "none"
    BY DEF Inv, CallbackInv
  <2>3. \A d \in Cbid : getter[d] = "returned" => getter'[d] = "returned"
    BY <1>5, <2>1, <2>2 DEF RpcRsp, GetCallBack, vars
  <2> QED
    BY <2>1, <2>3, CountSame
<1>6. ASSUME NEW k \in Client, RpcCall(k) PROVE CountInv'
  <2>1. UNCHANGED <<fvc, totalCnt, ran, timedOut, getter>>
    BY <1>6 DEF RpcCall, AddCallBack, cvars
  <2> QED
    BY <2>1, CountSame
<1>7. CASE CClock \/ CSelectTick \/ UNCHANGED allvars
  <2>1. UNCHANGED <<fvc, totalCnt, ran, timedOut, getter>>
    BY <1>7 DEF CClock, Clock, CSelectTick, ListTick, SelectTick, allvars, vars, cvars
  <2> QED
    BY <2>1, CountSame
<1>8. CASE CTick /\ ~TimeoutCb
  <2>1. UNCHANGED <<fvc, totalCnt, ran, timedOut, getter>>
    BY <1>8 DEF CTick, TickTake, ListUnlink, TickUnlink, ListTickEnd, TickEnd, cvars
  <2> QED
    BY <2>1, CountSame
<1> QED
  BY <1>1, <1>2, <1>3, <1>4, <1>5, <1>6, <1>7, <1>8 DEF CNext

(***************************************************************************)
(* What the manager does to the sequence it does to the pointers.          *)
(***************************************************************************)
LEMMA ListStep ==
  ASSUME TypeOK, Inv, ListTypeOK, ListIsQueue, [CNext]_allvars,
         Cardinality(Cbid) \in Nat, Len(queue) <= Cardinality(Cbid)
  PROVE  ListTypeOK' /\ ListIsQueue'
<1>1. Represents(queue) /\ (pc # "select" => cur = lastNode)
  BY DEF ListIsQueue
<1>2. ASSUME NEW c \in Cbid, ListAdd(c) PROVE ListTypeOK' /\ ListIsQueue'
  <2>1. pc' = "select"
    BY <1>2 DEF ListAdd, SelectAdd, mvars
  <2> QED
    BY <1>1, <1>2, <2>1, PointersOfAdd DEF ListIsQueue
<1>3. ASSUME NEW c \in Cbid, ListDel(c) PROVE ListTypeOK' /\ ListIsQueue'
  <2>1. pc' = "select" /\ queue' = QueueDel(queue, c) /\ queueDel(c)
    BY <1>3 DEF ListDel, SelectDel, mvars
  <2> QED
    BY <1>1, <2>1, PointersOfDel DEF ListIsQueue
<1>4. CASE ListUnlink
  <2>1. /\ queue' = QueueDel(queue, Last(queue)) /\ queueDel(cur) /\ cur' = prev[cur]
        /\ cur = lastNode /\ queue # <<>>
    BY <1>1, <1>4 DEF ListUnlink, TickUnlink, Inv, TickInv, Expired
  <2>2. lastNode = Last(queue) /\ Last(queue) \in Cbid
    BY <1>1, <2>1, LastInQueue DEF Represents, Last, TypeOK
  <2>3. lastNode' = prev[cur]
    BY <2>1 DEF queueDel
  <2>4. ListTypeOK' /\ Represents(queue)'
    BY <1>1, <2>1, <2>2, PointersOfDel
  <2> QED
    BY <2>1, <2>3, <2>4 DEF ListIsQueue
<1>5. ASSUME UNCHANGED <<queue, list>>, pc' # "select" => cur' = lastNode
      PROVE  ListTypeOK' /\ ListIsQueue'
  <2>1. ListTypeOK'
    BY <1>5 DEF ListTypeOK, list
  <2>2. Represents(queue)'
    BY <1>1, <1>5 DEF Represents, list
  <2> QED
    BY <1>5, <2>1, <2>2 DEF ListIsQueue, list
<1>6. CASE CSelectTick
  BY <1>5, <1>6 DEF CSelectTick, ListTick, SelectTick, qvars
<1>7. CASE ListTickEnd
  BY <1>5, <1>7 DEF ListTickEnd, TickEnd, qvars
<1>8. CASE CClock \/ (\E k \in Client : RpcCall(k) \/ StopFvc(k)) \/ UNCHANGED allvars
  <2>1. UNCHANGED <<queue, pc, lvars>>
    BY <1>8 DEF CClock, Clock, RpcCall, AddCallBack, StopFvc, allvars, vars, qvars, mvars
  <2> QED
    BY <1>1, <1>5, <2>1 DEF lvars
<1>9. CASE \E c \in Cbid : RpcRsp(c) \/ CallBack(c)
  <2>1. UNCHANGED <<queue, pc, lvars>>
    BY <1>9 DEF RpcRsp, GetCallBack, CallBack, vars, qvars, mvars
  <2> QED
    BY <1>1, <1>5, <2>1 DEF lvars
<1>10. CASE (TickTake /\ UNCHANGED lvars) \/ TimeoutCb
  <2>1. UNCHANGED <<queue, lvars>> /\ pc # "select"
    BY <1>10 DEF TickTake, TimeoutCb, TickFire, qvars
  <2> QED
    BY <1>1, <1>5, <2>1 DEF lvars
<1> QED
  BY <1>2, <1>3, <1>4, <1>6, <1>7, <1>8, <1>9, <1>10 DEF CNext, CSelect, CTick

INSTANCE FiniteSetTheorems

LEMMA FiniteSets == FiniteSetFacts
<1>1. Cardinality({}) = 0
  BY FS_EmptySet
<1>2. \A S : IsFiniteSet(S) => Cardinality(S) \in Nat
  BY FS_CardinalityType
<1>3. \A S, x : IsFiniteSet(S) /\ x \notin S => Cardinality(S \cup {x}) = Cardinality(S) + 1
  BY FS_AddElement
<1>4. \A S : \A T \in SUBSET S :
         IsFiniteSet(S) => IsFiniteSet(T) /\ (Cardinality(S) = Cardinality(T) => S = T)
  BY FS_Subset
<1> QED
  BY <1>1, <1>2, <1>3, <1>4 DEF FiniteSetFacts

(***************************************************************************)
(* A list in which no node occurs twice has no more nodes than there are.  *)
(***************************************************************************)
LEMMA NotTooLong ==
  ASSUME NEW N \in Nat, NEW q \in [1..N -> Cbid], Distinct(q, N)
  PROVE  Cardinality(Cbid) \in Nat /\ N <= Cardinality(Cbid)
<1>1. q \in Injection(1..N, Cbid)
  BY DEF Injection, IsInjective, Distinct
<1>2. Cardinality(1..N) <= Cardinality(Cbid)
  BY <1>1, CbidAssumption, FS_Injection, ZenonT(20)
<1>3. Cardinality(1..N) = N
  BY FS_Interval
<1>4. Cardinality(Cbid) \in Nat
  BY CbidAssumption, FS_CardinalityType
<1> QED
  BY <1>2, <1>3, <1>4

(***************************************************************************)
(* The logged queue size is never too large, and too small by at most one  *)
(* per answered callback.                                                  *)
(***************************************************************************)
THEOREM SizeDriftBoundedHolds == Spec => []SizeDriftBounded
<1>1. Init => SizeDriftBounded
  <2> SUFFICES ASSUME Init PROVE SizeDriftBounded
    OBVIOUS
  <2>1. {c \in Cbid : getter[c] = "returned"} = {}
    BY DEF Init
  <2> QED
    <3>1. Cardinality({c \in Cbid : getter[c] = "returned"}) = 0
      BY ONLY <2>1, FiniteSets, ZenonT(60) DEF FiniteSetFacts
    <3>2. size = 0 /\ queue = <<>>
      BY DEF Init
    <3>3. Len(<<>>) = 0
      BY ONLY TRUE
    <3> QED
      BY ONLY <3>1, <3>2, <3>3, SMTT(60) DEF SizeDriftBounded
<1>2. TypeOK /\ Inv /\ SizeDriftBounded /\ [Next]_vars => SizeDriftBounded'
  BY SizeStep, FiniteSets
<1> QED
  BY <1>1, <1>2, InvHolds, PTL DEF Spec

(***************************************************************************)
(* No callback runs after its client has stopped its counter, for any      *)
(* number of clients and calls: nobody waits in Count for ever.            *)
(***************************************************************************)
THEOREM NoLateCountHolds == CSpec => []NoLateCount
<1>1. CountInv => NoLateCount
  <2> SUFFICES ASSUME CountInv, NEW k \in Client, fvc[k] = "stopped"
               PROVE  \A c \in CallsOf(k) : c \in ran \/ timedOut[c] = 1
    BY DEF NoLateCount
  <2>1. Resolved(k) \in SUBSET CallsOf(k)
    BY DEF Resolved
  <2>2. Cardinality(Resolved(k)) = Cardinality(CallsOf(k))
    BY DEF CountInv, testCnt
  <2>3. Resolved(k) = CallsOf(k)
    BY <2>1, <2>2, CallsFinite, Subsets, FiniteSets
  <2> QED
    BY <2>3 DEF Resolved
<1>2. TypeOK /\ Inv /\ CountInv /\ [CNext]_allvars => CountInv'
  BY CountInvStep, FiniteSets
<1>3. CInit => CountInv
  BY CountInit, FiniteSets
<1> QED
  BY <1>1, <1>2, <1>3, ClientsUseManager, InvHolds, PTL DEF CSpec

(***************************************************************************)
(* The pointers of the linked list hold the queue that the manager's       *)
(* theorems are about, for any number of callbacks.                        *)
(***************************************************************************)
THEOREM ListIsQueueHolds == CSpec => []ListIsQueue
<1>1. CInit => ListTypeOK /\ ListIsQueue
  BY SMTT(30) DEF CInit, Init, ListInit, ListTypeOK, ListIsQueue, Represents, Range
<1>2. TypeOK /\ Inv /\ (ListTypeOK /\ ListIsQueue) /\ [CNext]_allvars => (ListTypeOK /\ ListIsQueue)'
  <2> SUFFICES ASSUME TypeOK, Inv, ListTypeOK, ListIsQueue, [CNext]_allvars
               PROVE  (ListTypeOK /\ ListIsQueue)'
    OBVIOUS
  <2>1. Len(queue) \in Nat /\ queue \in [1..Len(queue) -> Cbid]
    BY SMTT(30) DEF TypeOK
  <2>2. Distinct(queue, Len(queue))
    BY SeqAsFunction, ZenonT(20) DEF TypeOK, Inv
  <2> QED
    BY <2>1, <2>2, NotTooLong, ListStep, ZenonT(20)
<1> QED
  BY <1>1, <1>2, ClientsUseManager, InvHolds, PTL DEF CSpec
=============================================================================
