----------------------------- MODULE MCProcess ------------------------------
(***************************************************************************)
(* As a service: two ordered requests and one that uses the database, of   *)
(* one connection.  As a gate: a vertify, a login and a logoff of a        *)
(* client, in any order, and a route from a service that the gate has      *)
(* dialled.  The worker and the goroutine of separateCh run handlers of    *)
(* the same read side by side.                                             *)
(***************************************************************************)
EXTENDS Process, TLC

CONSTANTS o1, o2, call, vertify, login, logoff, route, c1, dialled, w1, sep

MCReq == {o1, o2, call, vertify, login, logoff, route}

MCConn == {c1, dialled}

MCDialled == {dialled}

MCWorker == {w1}

MCFrom == (o1 :> c1 @@ o2 :> c1 @@ call :> c1
           @@ vertify :> c1 @@ login :> c1 @@ logoff :> c1
           @@ route :> dialled)

MCKind == (o1 :> "ordered" @@ o2 :> "ordered" @@ call :> "plain"
           @@ vertify :> "sync" @@ login :> "sync" @@ logoff :> "plain" @@ route :> "plain")

MCRsp == {o1, call}

MCOfGate == {vertify, login, logoff, route}

MCCounted == {o1, o2, call, route}

MCUsesDb == {call, login, logoff}

MCVertify == {vertify}
=============================================================================
