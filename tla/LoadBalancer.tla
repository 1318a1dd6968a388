---------------------------- MODULE LoadBalancer ----------------------------
(***************************************************************************)
(* ms_framework/msf_load_balancer.go: the set of elements, and goroutines  *)
(* that call LoadBalance while others call AddElement and DelElement.      *)
(*                                                                         *)
(* LoadBalance takes the lock two or three times: to copy and sort the     *)
(* keys, to take the next index (round robin), and to count the choice.    *)
(* Each critical section is one step; the set may change between them.     *)
(* Elements are numbers, ordered as sort.Strings orders their names.       *)
(***************************************************************************)
EXTENDS Naturals, FiniteSets

CONSTANTS Element,     \* the strings that may be added
          Caller,      \* goroutines that call LoadBalance
          MaxCalls,    \* bound: calls of LoadBalance in all
          NoElement    \* the empty string that LoadBalance may return

UINT16 == 65536

ASSUME ElementAssumption ==
    /\ Element \subseteq Nat
    /\ IsFiniteSet(Element)
    /\ Cardinality(Element) < UINT16
    /\ NoElement \notin Element

ASSUME CallsAssumption == MaxCalls \in Nat

VARIABLES BALANCE_STRATEGY, \* which the program sets before it starts
          elements,   \* LoadBalancer.elements
          weight,     \* BalanceInfo.weight
          rrbIdx,     \* LoadBalancer.rrbIdx
          at, m, ele, \* of each caller: where it is, its copy of the keys, its choice
          calls,      \* calls so far
          deleted,    \* of each caller: what was deleted since its call began
          picks       \* choices since the set, as callers see it, last changed

lbVars == <<BALANCE_STRATEGY, elements, weight, rrbIdx, at, m, ele, calls, deleted, picks>>

Strategy == {"Rand", "RoundRobin"}

RoundRobin == BALANCE_STRATEGY = "RoundRobin"

LbInit == /\ BALANCE_STRATEGY \in Strategy
          /\ elements = {}
          /\ weight = [e \in Element |-> 0]
          /\ rrbIdx = 0
          /\ at = [p \in Caller |-> "idle"]
          /\ m = [p \in Caller |-> {}]
          /\ ele = [p \in Caller |-> NoElement]
          /\ calls = 0
          /\ deleted = [p \in Caller |-> {}]
          /\ picks = [e \in Element |-> 0]

(***************************************************************************)
(* Adding an element that is there, or deleting one that is not, only      *)
(* returns false.  The weight of an element goes with it.                  *)
(***************************************************************************)
AddElement(e) ==
    /\ e \notin elements
    /\ elements' = elements \cup {e}
    /\ picks' = [f \in Element |-> 0]
    /\ UNCHANGED <<BALANCE_STRATEGY, weight, rrbIdx, at, m, ele, calls, deleted>>

DelElement(e) ==
    /\ e \in elements
    /\ elements' = elements \ {e}
    /\ weight' = [weight EXCEPT ![e] = 0]
    /\ deleted' = [p \in Caller |-> IF at[p] = "idle" THEN {} ELSE deleted[p] \cup {e}]
    /\ picks' = [f \in Element |-> 0]
    /\ UNCHANGED <<BALANCE_STRATEGY, rrbIdx, at, m, ele, calls>>

(***************************************************************************)
(* The first critical section: an empty set gives the empty string; round  *)
(* robin keeps a copy of the keys, random chooses at once.                 *)
(***************************************************************************)
Begin(p) ==
    /\ at[p] = "idle"
    /\ calls < MaxCalls
    /\ calls' = calls + 1
    /\ deleted' = [deleted EXCEPT ![p] = {}]
    /\ \/ /\ elements = {}
          /\ at' = [at EXCEPT ![p] = "weigh"]
          /\ UNCHANGED <<m, ele>>
       \/ /\ elements # {} /\ RoundRobin
          /\ m' = [m EXCEPT ![p] = elements]
          /\ at' = [at EXCEPT ![p] = "pick"]
          /\ UNCHANGED ele
       \/ /\ elements # {} /\ ~RoundRobin
          /\ \E e \in elements : ele' = [ele EXCEPT ![p] = e]
          /\ at' = [at EXCEPT ![p] = "weigh"]
          /\ UNCHANGED m
    /\ UNCHANGED <<BALANCE_STRATEGY, elements, weight, rrbIdx, picks>>

(* Faulty variant: the index is taken into all elements. *)
NthOfAll(S, i) == CHOOSE e \in Element : Cardinality({f \in Element : f < e}) = i

(***************************************************************************)
(* m[i] of the sorted copy: the key with i smaller ones.                   *)
(***************************************************************************)
Nth(S, i) == CHOOSE e \in S : Cardinality({f \in S : f < e}) = i

(* Faulty variant: an index past the end is not reset. *)
IndexUnchecked(p) == rrbIdx

Index(p) == IF rrbIdx >= Cardinality(m[p]) % UINT16 THEN 0 ELSE rrbIdx

(* Faulty variant: the index is not advanced. *)
PickSameAgain(p) ==
    /\ at[p] = "pick"
    /\ ele' = [ele EXCEPT ![p] = Nth(m[p], Index(p))]
    /\ rrbIdx' = Index(p)
    /\ at' = [at EXCEPT ![p] = "weigh"]
    /\ picks' = [e \in Element |->
                   IF m[p] # elements THEN 0
                   ELSE picks[e] + IF e = ele'[p] THEN 1 ELSE 0]
    /\ UNCHANGED <<BALANCE_STRATEGY, elements, weight, m, calls, deleted>>

Pick(p) ==
    /\ at[p] = "pick"
    /\ ele' = [ele EXCEPT ![p] = Nth(m[p], Index(p))]
    /\ rrbIdx' = (Index(p) + 1) % UINT16
    /\ at' = [at EXCEPT ![p] = "weigh"]
    /\ picks' = [e \in Element |->
                   IF m[p] # elements THEN 0
                   ELSE picks[e] + IF e = ele'[p] THEN 1 ELSE 0]
    /\ UNCHANGED <<BALANCE_STRATEGY, elements, weight, m, calls, deleted>>

Weigh(p) ==
    /\ at[p] = "weigh"
    /\ weight' = [e \in Element |->
                    weight[e] + IF e = ele[p] /\ e \in elements THEN 1 ELSE 0]
    /\ at' = [at EXCEPT ![p] = "idle"]
    /\ ele' = [ele EXCEPT ![p] = NoElement]
    /\ m' = [m EXCEPT ![p] = {}]
    /\ deleted' = [deleted EXCEPT ![p] = {}]
    /\ UNCHANGED <<BALANCE_STRATEGY, elements, rrbIdx, calls, picks>>

LbNext == \/ \E e \in Element : AddElement(e) \/ DelElement(e)
          \/ \E p \in Caller : Begin(p) \/ Pick(p) \/ Weigh(p)

LbSpec == LbInit /\ [][LbNext]_lbVars
-----------------------------------------------------------------------------
LbTypeOK == /\ BALANCE_STRATEGY \in Strategy
            /\ elements \subseteq Element
            /\ weight \in [Element -> Nat]
            /\ rrbIdx \in 0..(UINT16 - 1)
            /\ at \in [Caller -> {"idle", "pick", "weigh"}]
            /\ m \in [Caller -> SUBSET Element]
            /\ ele \in [Caller -> Element \cup {NoElement}]
            /\ calls \in Nat
            /\ deleted \in [Caller -> SUBSET Element]
            /\ picks \in [Element -> Nat]

(***************************************************************************)
(* m[l.rrbIdx] never indexes past the end, although the copy m was made    *)
(* before the lock was taken again and other callers move rrbIdx with      *)
(* copies of other lengths.                                                *)
(***************************************************************************)
IndexInRange == \A p \in Caller : at[p] = "pick" => Index(p) < Cardinality(m[p])

(***************************************************************************)
(* LoadBalance may return an element that is gone, but only one that was   *)
(* deleted while the call was under way.                                   *)
(***************************************************************************)
StaleOnlyIfDeleted ==
    \A p \in Caller : at[p] = "weigh" /\ ele[p] # NoElement =>
        ele[p] \in elements \cup deleted[p]

(***************************************************************************)
(* Round robin is fair under concurrency: as long as the set does not      *)
(* change and no caller holds a copy of another set, no element is chosen  *)
(* more than once oftener than any other.                                  *)
(***************************************************************************)
Balanced == \A e, f \in elements : picks[e] <= picks[f] + 1
=============================================================================
