--------------------------- MODULE PriorityQueue ---------------------------
(***************************************************************************)
(* The doubly linked list of ms_framework/msf_callback_mgr_new.go, at the  *)
(* level of its pointers: every step that changes the sequence `queue` of  *)
(* CallbackMgr changes prev, next, firstNode and lastNode as queueAdd and  *)
(* queueDel do.  Only the manager goroutine touches the list, so the loop  *)
(* of queueAdd is one step.                                                *)
(*                                                                         *)
(* A node may be deleted twice, by the tick and by the one GetCallBack     *)
(* that took its callback: that one may still wait in chQueueDel <- node   *)
(* while the tick unlinks the node.                                        *)
(***************************************************************************)
EXTENDS CallbackMgr

CONSTANT NIL          \* the nil pointer

ASSUME NilAssumption == NIL \notin Cbid

VARIABLES prev, next, firstNode, lastNode,   \* the list
          cur                                \* the cursor of priorityQueueTick

list == <<prev, next, firstNode, lastNode>>

lvars == <<list, cur>>

ListInit == /\ prev = [n \in Cbid |-> NIL]
            /\ next = [n \in Cbid |-> NIL]
            /\ firstNode = NIL
            /\ lastNode = NIL
            /\ cur = NIL

(* queueAdd compares the node with cur.next. *)
GoesBefore(n, x) == endTime[n] >= endTime[x]

(***************************************************************************)
(* Where the loop of queueAdd stops, if it starts at firstNode: at the     *)
(* last node, or at one whose successor the new node goes before.          *)
(***************************************************************************)
WalkEnd(n) ==
    LET at[i \in 0..Cardinality(Cbid)] ==
          IF i = 0 THEN firstNode
          ELSE LET p == at[i - 1]
               IN  IF next[p] = NIL \/ GoesBefore(n, next[p]) THEN p ELSE next[p]
    IN  at[Cardinality(Cbid)]

queueAdd(n) ==
    \/ /\ firstNode = NIL
       /\ firstNode' = n
       /\ lastNode' = n
       /\ UNCHANGED <<prev, next>>
    \/ /\ firstNode # NIL
       /\ LET p == WalkEnd(n)
              x == next[p]
          IN  /\ next' = [next EXCEPT ![p] = n, ![n] = x]
              /\ prev' = [m \in Cbid |-> IF m = n THEN p ELSE IF m = x THEN n ELSE prev[m]]
              /\ lastNode' = IF x = NIL THEN n ELSE lastNode
       /\ UNCHANGED firstNode

(* Faulty variant: the back link of the neighbour is not repaired. *)
queueDelOneWay(n) ==
    /\ next' = [m \in Cbid |-> IF m = n THEN NIL ELSE IF m = prev[n] THEN next[n] ELSE next[m]]
    /\ prev' = [prev EXCEPT ![n] = NIL]
    /\ firstNode' = IF n = firstNode THEN next[n] ELSE firstNode
    /\ lastNode' = IF n = lastNode THEN prev[n] ELSE lastNode

queueDel(n) ==
    LET p == prev[n]
        x == next[n]
    IN  /\ next' = [m \in Cbid |-> IF m = n THEN NIL ELSE IF m = p THEN x ELSE next[m]]
        /\ prev' = [m \in Cbid |-> IF m = n THEN NIL ELSE IF m = x THEN p ELSE prev[m]]
        /\ firstNode' = IF n = firstNode THEN x ELSE firstNode
        /\ lastNode' = IF n = lastNode THEN p ELSE lastNode

(***************************************************************************)
(* The steps of the manager, with what they do to the pointers.            *)
(***************************************************************************)
ListAdd(c) == SelectAdd(c) /\ queueAdd(c) /\ UNCHANGED cur

ListDel(c) == SelectDel(c) /\ queueDel(c) /\ UNCHANGED cur

ListTick == SelectTick /\ cur' = lastNode /\ UNCHANGED list

ListUnlink == TickUnlink /\ queueDel(cur) /\ cur' = prev[cur]

ListTickEnd == TickEnd /\ cur' = NIL /\ UNCHANGED list
-----------------------------------------------------------------------------
(***************************************************************************)
(* s is what the pointers hold.                                            *)
(***************************************************************************)
Represents(s) ==
    /\ firstNode = IF s = <<>> THEN NIL ELSE s[1]
    /\ lastNode = IF s = <<>> THEN NIL ELSE s[Len(s)]
    /\ \A i \in 1..Len(s) :
         /\ next[s[i]] = IF i = Len(s) THEN NIL ELSE s[i + 1]
         /\ prev[s[i]] = IF i = 1 THEN NIL ELSE s[i - 1]
    /\ \A n \in Cbid \ Range(s) : next[n] = NIL /\ prev[n] = NIL

(***************************************************************************)
(* The pointers hold exactly the queue that CallbackMgr reasons about, in  *)
(* both directions; a node that is not linked points nowhere, so that      *)
(* deleting it again changes no neighbour; and the cursor of the tick is   *)
(* the last node whenever it is looked at.                                 *)
(***************************************************************************)
ListIsQueue == Represents(queue) /\ (pc # "select" => cur = lastNode)
=============================================================================
