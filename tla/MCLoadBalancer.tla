--------------------------- MODULE MCLoadBalancer ---------------------------
(***************************************************************************)
(* Three elements, two concurrent callers and four calls: enough for a     *)
(* whole round, and for a copy that is longer or shorter than the set.     *)
(***************************************************************************)
EXTENDS LoadBalancer, TLC

CONSTANTS p1, p2

MCElement == 1..3

MCCaller == {p1, p2}

MCCallerSymmetry == Permutations(MCCaller)
=============================================================================
