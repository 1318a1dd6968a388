---------------------------- MODULE TimeoutQueue ----------------------------
(***************************************************************************)
(* What the linked list of ms_framework/msf_callback_mgr_new.go holds,     *)
(* seen as a sequence from gPriorityQueue.firstNode to lastNode.  Nodes    *)
(* with a LATER endTime are meant to come first, so that the tick, which   *)
(* walks from lastNode backwards, meets the earliest deadline first.       *)
(*                                                                         *)
(* CallbackMgr uses the operators; PriorityQueue has the pointers, which   *)
(* are shown to represent the sequence.                                    *)
(***************************************************************************)
EXTENDS Integers, Sequences, FiniteSets, Functions

Last(q) == q[Len(q)]

Least(T) == CHOOSE x \in T : \A y \in T : x <= y

(***************************************************************************)
(* Where queueAdd links a node into a list that is not empty: its loop     *)
(* starts at firstNode and looks at cur.next only, so position 1 is never  *)
(* a candidate, whatever endTime the first node has.                       *)
(***************************************************************************)
InsertPos(q, end, n) ==
    LET later == {i \in 2..Len(q) : end[n] >= end[q[i]]}
    IN  IF later = {} THEN Len(q) + 1 ELSE Least(later)

LinkAt(q, p, n) == SubSeq(q, 1, p - 1) \o <<n>> \o SubSeq(q, p, Len(q))

QueueAdd(q, end, n) ==
    IF q = <<>> THEN <<n>> ELSE LinkAt(q, InsertPos(q, end, n), n)

UnlinkAt(q, p) == SubSeq(q, 1, p - 1) \o SubSeq(q, p + 1, Len(q))

(***************************************************************************)
(* queueDel of a node that is no longer linked leaves the list as it is.   *)
(***************************************************************************)
QueueDel(q, n) ==
    IF n \in Range(q) THEN UnlinkAt(q, CHOOSE i \in 1..Len(q) : q[i] = n) ELSE q

(***************************************************************************)
(* The order the list really keeps: endTime never grows from the second    *)
(* node on.                                                                *)
(***************************************************************************)
SortedFrom(q, end, k) ==
    \A i, j \in 1..Len(q) : k <= i /\ i < j => end[q[i]] >= end[q[j]]

TailSorted(q, end) == SortedFrom(q, end, 2)

NoDuplicates(q) == \A i, j \in 1..Len(q) : q[i] = q[j] => i = j
=============================================================================
