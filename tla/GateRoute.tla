------------------------------ MODULE GateRoute -----------------------------
(***************************************************************************)
(* A gate routes the requests of one client to the instances of a service  *)
(* and the responses back: ms_gate/src/rpc_handler.go (route and response  *)
(* handlers, access report) with ChoiceRemote and the cache of ordered     *)
(* routes of msf_remote_mgr.go.                                            *)
(*                                                                         *)
(* The client sends requests 1, 2, ...; each is handled by a task of the   *)
(* pool, at most Window at a time.  GRids are unique, so a request stands  *)
(* for its GRid.  The client may reconnect from the same address: its      *)
(* connID stays the same, its incarnation does not.                        *)
(***************************************************************************)
EXTENDS Naturals, Sequences, FiniteSets

CONSTANTS N,           \* bound: requests
          Ordered,     \* those with IsOrdered
          NeedRsp,     \* those with Rid # 0
          Allowed,     \* those whose rpc clients may call
          Remote,      \* instances of the service
          Window,      \* bound: requests being routed at one time
          MaxInc,      \* bound: connections of the client
          MaxFlaps,    \* bound: instances lost or found
          Nowhere      \* no instance

Req == 1..N

ASSUME RouteAssumption == /\ N \in Nat
                          /\ Ordered \subseteq Req /\ NeedRsp \subseteq Req
                          /\ Allowed \subseteq Req
                          /\ Window \in Nat /\ MaxInc \in Nat /\ MaxFlaps \in Nat
                          /\ Nowhere \notin Remote

VARIABLES live, incs,   \* the client's connection: its incarnation, 0 if none; how many
          access,       \* gClientAccess has the service
          up, flaps,    \* RemoteMgr.remotes and the load balancer of the service
          cmap, cache, maps, \* orderedCache[client]: which map (0: none), its entry; maps made
          pc, from,     \* of a request: where its handler is, the incarnation it came from
          remote, seen, \* ... the instance chosen, the map that it looked into
          pend,         \* requests whose GRid has a callback
          svc, rsp,     \* at which instance a request is; responses that came back
          got,          \* for each request, the incarnations its responses went to
          last,         \* where the last ordered request went
          mixed         \* on this connection two ordered requests were routed at once

cvars == <<cmap, cache, maps>>

hvars == <<pc, from, remote, seen>>

routeVars == <<live, incs, access, up, flaps, cmap, cache, maps, pc, from, remote,
               seen, pend, svc, rsp, got, last, mixed>>

RouteInit == /\ live = 0 /\ incs = 0
             /\ access = FALSE
             /\ up = {} /\ flaps = 0
             /\ cmap = 0 /\ cache = Nowhere /\ maps = 0
             /\ pc = [q \in Req |-> "new"]
             /\ from = [q \in Req |-> 0]
             /\ remote = [q \in Req |-> Nowhere]
             /\ seen = [q \in Req |-> 0]
             /\ pend = {}
             /\ svc = {} /\ rsp = {}
             /\ got = [q \in Req |-> <<>>]
             /\ last = Nowhere
             /\ mixed = FALSE

Running == {q \in Req : pc[q] \notin {"new", "end"}}

Goto(q, l) == pc' = [pc EXCEPT ![q] = l]
-----------------------------------------------------------------------------
(***************************************************************************)
(* The client connects, sends its next request, goes away.  With it the    *)
(* gate drops its cache of ordered routes (DelRemoteOrderCache).           *)
(***************************************************************************)
Connect ==
    /\ live = 0 /\ incs < MaxInc
    /\ live' = incs + 1
    /\ incs' = incs + 1
    /\ UNCHANGED <<access, up, flaps, cvars, hvars, pend, svc, rsp, got, last,
                   mixed>>

Request(q) ==
    /\ live # 0
    /\ pc[q] = "new" /\ \A p \in 1..(q - 1) : pc[p] # "new"
    /\ Cardinality(Running) < Window
    /\ from' = [from EXCEPT ![q] = live]
    /\ Goto(q, "permit")
    /\ mixed' = (mixed \/ (q \in Ordered /\ Running \cap Ordered # {}))
    /\ UNCHANGED <<live, incs, access, up, flaps, cvars, remote, seen, pend, svc,
                   rsp, got, last>>

ClientClose ==
    /\ live # 0
    /\ live' = 0
    /\ cmap' = 0 /\ cache' = Nowhere
    /\ last' = Nowhere
    /\ mixed' = FALSE
    /\ UNCHANGED <<incs, access, up, flaps, maps, hvars, pend, svc, rsp, got>>

(***************************************************************************)
(* Instances come and go, and report the access rights when they come.     *)
(* One goes when its connection is lost, or when etcd has lost its key:    *)
(* then the connection stays open and answers still come in on it.         *)
(***************************************************************************)
RemoteUp(r) ==
    /\ r \notin up /\ flaps < MaxFlaps
    /\ up' = up \cup {r}
    /\ flaps' = flaps + 1
    /\ UNCHANGED <<live, incs, access, cvars, hvars, pend, svc, rsp, got, last,
                   mixed>>

AccessReport ==
    /\ up # {} /\ ~access
    /\ access' = TRUE
    /\ UNCHANGED <<live, incs, up, flaps, cvars, hvars, pend, svc, rsp, got,
                   last, mixed>>

RemoteDown(r) ==
    /\ r \in up /\ flaps < MaxFlaps
    /\ up' = up \ {r}
    /\ flaps' = flaps + 1
    /\ svc' \in {svc, {x \in svc : x[2] # r}}
    /\ last' = IF last = r THEN Nowhere ELSE last
    /\ UNCHANGED <<live, incs, access, cvars, hvars, pend, rsp, got, mixed>>
-----------------------------------------------------------------------------
(***************************************************************************)
(* The error response goes out on the connection the request came in on.   *)
(***************************************************************************)
ErrorRsp(q) ==
    got' = [got EXCEPT ![q] = IF q \in NeedRsp /\ live = from[q]
                              THEN Append(@, live) ELSE @]

(* Faulty variant: the return after the error is missing. *)
PermitGoesOn(q) ==
    /\ pc[q] = "permit"
    /\ IF access /\ q \in Allowed THEN UNCHANGED got ELSE ErrorRsp(q)
    /\ Goto(q, IF q \in Ordered THEN "cache" ELSE "balance")
    /\ UNCHANGED <<live, incs, access, up, flaps, cvars, from, remote, seen, pend,
                   svc, rsp, last, mixed>>

(***************************************************************************)
(* Process: the check of the access rights, then ChoiceRemote.             *)
(***************************************************************************)
Permit(q) ==
    /\ pc[q] = "permit"
    /\ \/ /\ access /\ q \in Allowed
          /\ Goto(q, IF q \in Ordered THEN "cache" ELSE "balance")
          /\ UNCHANGED got
       \/ /\ ~(access /\ q \in Allowed)
          /\ ErrorRsp(q)
          /\ Goto(q, "end")
    /\ UNCHANGED <<live, incs, access, up, flaps, cvars, from, remote, seen, pend,
                   svc, rsp, last, mixed>>

(***************************************************************************)
(* ChioceRemoteFromOrderCache.  The entry of an instance that is gone is   *)
(* deleted under another lock than it was found under, in the map that was *)
(* found then.                                                             *)
(***************************************************************************)
LookInCache(q) ==
    /\ pc[q] = "cache"
    /\ \/ /\ cache = Nowhere
          /\ Goto(q, "balance")
          /\ UNCHANGED <<remote, seen>>
       \/ /\ cache \in up
          /\ remote' = [remote EXCEPT ![q] = cache]
          /\ Goto(q, "add")
          /\ UNCHANGED seen
       \/ /\ cache \notin up \cup {Nowhere}
          /\ seen' = [seen EXCEPT ![q] = cmap]
          /\ Goto(q, "forget")
          /\ UNCHANGED remote
    /\ UNCHANGED <<live, incs, access, up, flaps, cvars, from, pend, svc, rsp,
                   got, last, mixed>>

Forget(q) ==
    /\ pc[q] = "forget"
    /\ cache' = IF seen[q] = cmap THEN Nowhere ELSE cache
    /\ Goto(q, "balance")
    /\ UNCHANGED <<live, incs, access, up, flaps, cmap, maps, from, remote, seen,
                   pend, svc, rsp, got, last, mixed>>

(***************************************************************************)
(* LoadBalance, then GetRemote, then UpdateRemoteOrderCache: three locks.  *)
(***************************************************************************)
LoadBalance(q) ==
    /\ pc[q] = "balance"
    /\ \/ /\ up = {}
          /\ UNCHANGED remote
       \/ \E r \in up : remote' = [remote EXCEPT ![q] = r]
    /\ Goto(q, "find")
    /\ UNCHANGED <<live, incs, access, up, flaps, cvars, from, seen, pend, svc,
                   rsp, got, last, mixed>>

GetRemote(q) ==
    /\ pc[q] = "find"
    /\ \/ /\ remote[q] \in up
          /\ Goto(q, IF q \in Ordered THEN "keep" ELSE "add")
          /\ UNCHANGED got
       \/ /\ remote[q] \notin up
          /\ ErrorRsp(q)
          /\ Goto(q, "end")
    /\ UNCHANGED <<live, incs, access, up, flaps, cvars, from, remote, seen, pend,
                   svc, rsp, last, mixed>>

(* Faulty variant: the route is not cached. *)
UpdateRemoteOrderCacheNever(q) ==
    /\ pc[q] = "keep"
    /\ Goto(q, "add")
    /\ UNCHANGED <<live, incs, access, up, flaps, cvars, from, remote, seen, pend,
                   svc, rsp, got, last, mixed>>

UpdateRemoteOrderCache(q) ==
    /\ pc[q] = "keep"
    /\ cache' = remote[q]
    /\ cmap' = IF cmap = 0 THEN maps + 1 ELSE cmap
    /\ maps' = IF cmap = 0 THEN maps + 1 ELSE maps
    /\ Goto(q, "add")
    /\ UNCHANGED <<live, incs, access, up, flaps, from, remote, seen, pend, svc,
                   rsp, got, last, mixed>>

(***************************************************************************)
(* The callback that remembers client and Rid, then the message.  It is    *)
(* lost if the connection is broken by then.                               *)
(***************************************************************************)
AddCallBack(q) ==
    /\ pc[q] = "add"
    /\ pend' = IF q \in NeedRsp THEN pend \cup {q} ELSE pend
    /\ Goto(q, "send")
    /\ UNCHANGED <<live, incs, access, up, flaps, cvars, from, remote, seen, svc,
                   rsp, got, last, mixed>>

MessageSend(q) ==
    /\ pc[q] = "send"
    /\ svc' \in {svc, svc \cup {<<q, remote[q]>>}}
    /\ last' = IF q \in Ordered /\ remote[q] \in up /\ live = from[q]
               THEN remote[q] ELSE last
    /\ Goto(q, "end")
    /\ UNCHANGED <<live, incs, access, up, flaps, cvars, from, remote, seen, pend,
                   rsp, got, mixed>>
-----------------------------------------------------------------------------
(***************************************************************************)
(* The instance answers; the response handler takes the callback, if it    *)
(* has not timed out, and sends to whatever the connID stands for now.     *)
(***************************************************************************)
Answer(q, r) ==
    /\ <<q, r>> \in svc
    /\ svc' = svc \ {<<q, r>>}
    /\ rsp' = IF q \in NeedRsp THEN rsp \cup {q} ELSE rsp
    /\ UNCHANGED <<live, incs, access, up, flaps, cvars, hvars, pend, got,
                   last, mixed>>

Expire(q) ==
    /\ q \in pend
    /\ pend' = pend \ {q}
    /\ UNCHANGED <<live, incs, access, up, flaps, cvars, hvars, svc, rsp, got,
                   last, mixed>>

S2GRpcRsp(q) ==
    /\ q \in rsp
    /\ rsp' = rsp \ {q}
    /\ pend' = pend \ {q}
    /\ got' = [got EXCEPT ![q] = IF q \in pend /\ live # 0 THEN Append(@, live) ELSE @]
    /\ UNCHANGED <<live, incs, access, up, flaps, cvars, hvars, svc, last, mixed>>

ChoiceRemote(q) == \/ LookInCache(q) \/ Forget(q) \/ LoadBalance(q)
                   \/ GetRemote(q) \/ UpdateRemoteOrderCache(q)

Process(q) == Permit(q) \/ ChoiceRemote(q) \/ AddCallBack(q) \/ MessageSend(q)

RouteNext == \/ Connect \/ ClientClose \/ AccessReport
             \/ \E r \in Remote : RemoteUp(r) \/ RemoteDown(r)
             \/ \E q \in Req : \/ Request(q) \/ Process(q) \/ Expire(q) \/ S2GRpcRsp(q)
                               \/ \E r \in Remote : Answer(q, r)

RouteSpec == RouteInit /\ [][RouteNext]_routeVars
-----------------------------------------------------------------------------
RouteTypeOK == /\ live \in Nat /\ incs \in 0..MaxInc
               /\ access \in BOOLEAN
               /\ up \subseteq Remote /\ flaps \in 0..MaxFlaps
               /\ cmap \in Nat /\ cache \in Remote \cup {Nowhere} /\ maps \in Nat
               /\ pc \in [Req -> {"new", "permit", "cache", "forget", "balance", "find",
                                  "keep", "add", "send", "end"}]
               /\ from \in [Req -> Nat]
               /\ remote \in [Req -> Remote \cup {Nowhere}]
               /\ seen \in [Req -> Nat]
               /\ pend \subseteq NeedRsp
               /\ svc \subseteq Req \X Remote /\ rsp \subseteq NeedRsp
               /\ got \in [Req -> Seq(Nat)]
               /\ last \in Remote \cup {Nowhere}
               /\ mixed \in BOOLEAN

(***************************************************************************)
(* A request gets one response at most: an error of the gate or the answer *)
(* of the service, never both.                                             *)
(***************************************************************************)
AtMostOneResponse == \A q \in Req : Len(got[q]) <= 1

(***************************************************************************)
(* Ordered requests of a client that are routed one after the other go to  *)
(* the same instance for as long as it is there and the client stays.      *)
(***************************************************************************)
StickyWhileUp ==
    [][\A q \in Ordered :
          pc[q] = "send" /\ pc'[q] = "end" /\ live = from[q] /\ ~mixed =>
             last \in {Nowhere, remote[q]} \/ remote[q] \notin up]_routeVars

(***************************************************************************)
(* README.md: the gate caches the first route of ordered requests, so that *)
(* those that follow go to the same instance, here also when the client    *)
(* does not wait with the next request till the last one was routed.       *)
(***************************************************************************)
SameInstance ==
    [][\A q \in Ordered : pc[q] = "send" /\ pc'[q] = "end" /\ live = from[q] =>
          last \in {Nowhere, remote[q]} \/ remote[q] \notin up]_routeVars
=============================================================================
