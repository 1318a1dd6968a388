---------------------------- MODULE MCClientTest ----------------------------
(***************************************************************************)
(* A client with two calls and one with a single call.  They can be made   *)
(* in different seconds, so that a deadline may hide behind a later one.   *)
(***************************************************************************)
EXTENDS ClientTest, TLC

CONSTANTS c1, c2, c3, k1, k2

MCCbid == {c1, c2, c3}

MCClient == {k1, k2}

MCCalls == (k1 :> <<c1, c2>> @@ k2 :> <<c3>>)

MCWaitTimes == {1}
=============================================================================
