---------------------------- MODULE CallbackSpec ----------------------------
(***************************************************************************)
(* What the callback manager promises its callers: a registered callback   *)
(* is resolved at most once, by its answer or, not before its deadline, by *)
(* its timeout.  CallbackMgr implements this.                              *)
(***************************************************************************)
EXTENDS Naturals

CONSTANTS Cbid, WaitTimes, MaxTime

VARIABLES status, deadline, now

vars == <<status, deadline, now>>

Init == /\ status = [c \in Cbid |-> "idle"]
        /\ deadline = [c \in Cbid |-> 0]
        /\ now = 0

Register(c) ==
    /\ status[c] = "idle"
    /\ status' = [status EXCEPT ![c] = "pending"]
    /\ \E w \in WaitTimes : deadline' = [deadline EXCEPT ![c] = now + w]
    /\ UNCHANGED now

Answer(c) ==
    /\ status[c] = "pending"
    /\ status' = [status EXCEPT ![c] = "answered"]
    /\ UNCHANGED <<deadline, now>>

Expire(c) ==
    /\ status[c] = "pending"
    /\ deadline[c] <= now
    /\ status' = [status EXCEPT ![c] = "expired"]
    /\ UNCHANGED <<deadline, now>>

Clock == /\ now < MaxTime
         /\ now' = now + 1
         /\ UNCHANGED <<status, deadline>>

Next == \/ \E c \in Cbid : Register(c) \/ Answer(c) \/ Expire(c)
        \/ Clock

Spec == Init /\ [][Next]_vars
=============================================================================
