----------------------------- MODULE MCReadLoop -----------------------------
(***************************************************************************)
(* Bytes with two values, so that a length of 2 needs the high byte of the *)
(* prefix, and payloads that look like prefixes.                           *)
(***************************************************************************)
EXTENDS ReadLoop

MCPayload == {<<0>>, <<0, 1>>, <<1, 0, 1>>}

MCHeartBeatRsp == <<1, 0>>
=============================================================================
