----------------------------- MODULE PushService ----------------------------
(***************************************************************************)
(* Messages pushed to a client: push_service/src/rpc_handler.go, the login *)
(* and push handlers of ms_gate/src/rpc_handler.go and the client's side   *)
(* in clientsdk/gate_proxy.go.                                             *)
(*                                                                         *)
(* A safe push is a record in mongo, unarrived until the client replies.   *)
(* Redis says on which connection the client is.  The gate's reader of a   *)
(* connection handles a login itself; every other message becomes a task   *)
(* of the pool, and tasks run in any order.  Connections are numbered; a   *)
(* message for one that is gone is lost.                                   *)
(***************************************************************************)
EXTENDS Naturals, Sequences

CONSTANTS Msg, Safe,    \* what is pushed to the client; by a safe push
          MaxConn,      \* bound: connections of the client
          MaxLogin,     \* bound: logins
          MaxFault      \* bound: failed calls of mongo, redis or a gate, unknown pushes

ASSUME PushAssumption == /\ Safe \subseteq Msg
                         /\ MaxConn \in Nat /\ MaxLogin \in Nat /\ MaxFault \in Nat

VARIABLES conn, conns,    \* the client's connection, 0 if none; how many there were
          in, logins,     \* the client takes itself to be logged in; how many logins
          uplink,         \* per connection, what the client sent and the gate has not read
          pool,           \* tasks of the gate and of the push service
          redis,          \* the connection the client is registered with, 0 if none
          mongo,          \* state of the record of a push
          pushed,         \* MSG_S2P_PUSH came in
          lookups,        \* calls of PushToGate: <<message, login or 0>>
          down,           \* MSG_P2G_PUSH under way: <<connection, message, login or 0>>
          handled,        \* what the client has handled
          faults,
          owner,          \* history: the login that redis's entry is of, 0 if none
          overtaken       \* history: logins whose entry an earlier login or logoff took

clientVars == <<conn, conns, in, logins>>

redisVars == <<redis, owner, overtaken>>

pushVars == <<conn, conns, in, logins, uplink, pool, redis, mongo, pushed, lookups,
              down, handled, faults, owner, overtaken>>

PushInit == /\ conn = 0 /\ conns = 0
            /\ in = FALSE /\ logins = 0
            /\ uplink = [k \in 1..MaxConn |-> <<>>]
            /\ pool = {}
            /\ redis = 0
            /\ mongo = [m \in Msg |-> "none"]
            /\ pushed = {}
            /\ lookups = {} /\ down = {}
            /\ handled = {}
            /\ faults = 0
            /\ owner = 0 /\ overtaken = {}

Fault == faults < MaxFault /\ faults' = faults + 1

Sends(k, ms) == uplink' = [uplink EXCEPT ![k] = @ \o ms]

(* What login or logoff i does to redis takes the entry from a later login. *)
Overtakes(i) == overtaken' = overtaken \cup {o \in {owner} : o > i}

(* P2G_PUSH: the gate still has the connection that the push is for. *)
HasClient(k) == k = conn
-----------------------------------------------------------------------------
(***************************************************************************)
(* The client: Login sends the login and a request to restore.             *)
(***************************************************************************)
ClientConnect ==
    /\ conn = 0 /\ conns < MaxConn
    /\ conns' = conns + 1
    /\ conn' = conns + 1
    /\ UNCHANGED <<in, logins, uplink, pool, redisVars, mongo, pushed, lookups, down,
                   handled, faults>>

(* Faulty variant: the two messages are swapped. *)
LoginAfterRestore ==
    /\ conn # 0 /\ ~in /\ logins < MaxLogin
    /\ in' = TRUE
    /\ logins' = logins + 1
    /\ Sends(conn, <<<<"restore", logins + 1>>, <<"login", logins + 1>>>>)
    /\ UNCHANGED <<conn, conns, pool, redisVars, mongo, pushed, lookups, down,
                   handled, faults>>

Login ==
    /\ conn # 0 /\ ~in /\ logins < MaxLogin
    /\ in' = TRUE
    /\ logins' = logins + 1
    /\ Sends(conn, <<<<"login", logins + 1>>, <<"restore", logins + 1>>>>)
    /\ UNCHANGED <<conn, conns, pool, redisVars, mongo, pushed, lookups, down,
                   handled, faults>>

Logoff ==
    /\ in
    /\ in' = FALSE
    /\ Sends(conn, <<<<"logoff", logins>>>>)
    /\ UNCHANGED <<conn, conns, logins, pool, redisVars, mongo, pushed, lookups, down,
                   handled, faults>>

Disconnect ==
    /\ conn # 0
    /\ conn' = 0
    /\ in' = FALSE
    /\ UNCHANGED <<conns, logins, uplink, pool, redisVars, mongo, pushed, lookups, down,
                   handled, faults>>

Lose(k) ==
    /\ k # conn /\ uplink[k] # <<>>
    /\ uplink' = [uplink EXCEPT ![k] = <<>>]
    /\ UNCHANGED <<clientVars, pool, redisVars, mongo, pushed, lookups, down, handled,
                   faults>>

(***************************************************************************)
(* G2C_PUSH: the client handles the message, then replies to a safe push;  *)
(* it does neither when it does not know the inner rpc or cannot decode    *)
(* its arguments.                                                          *)
(***************************************************************************)
Push2Client(k, m, l) ==
    /\ <<k, m, l>> \in down
    /\ down' = down \ {<<k, m, l>>}
    /\ \/ /\ HasClient(k)
          /\ handled' = handled \cup {m}
          /\ IF m \in Safe THEN Sends(k, <<<<"reply", m>>>>) ELSE UNCHANGED uplink
          /\ UNCHANGED faults
       \/ /\ HasClient(k)
          /\ Fault
          /\ UNCHANGED <<handled, uplink>>
       \/ /\ ~HasClient(k)
          /\ UNCHANGED <<handled, uplink, faults>>
    /\ UNCHANGED <<clientVars, pool, redisVars, mongo, pushed, lookups>>
-----------------------------------------------------------------------------
(***************************************************************************)
(* The gate reads the next message of connection k.                        *)
(***************************************************************************)
GateRead(k) ==
    /\ uplink[k] # <<>>
    /\ uplink' = [uplink EXCEPT ![k] = Tail(@)]
    /\ \/ /\ Head(uplink[k])[1] = "login"
          /\ \/ /\ redis' = k /\ owner' = Head(uplink[k])[2]
                /\ Overtakes(Head(uplink[k])[2])
                /\ UNCHANGED faults
             \/ Fault /\ UNCHANGED redisVars
          /\ UNCHANGED pool
       \/ /\ Head(uplink[k])[1] # "login"
          /\ pool' = pool \cup {Head(uplink[k])}
          /\ UNCHANGED <<redisVars, faults>>
    /\ UNCHANGED <<clientVars, mongo, pushed, lookups, down, handled>>

GateLogoff(i) ==
    /\ <<"logoff", i>> \in pool
    /\ pool' = pool \ {<<"logoff", i>>}
    /\ \/ redis' = 0 /\ owner' = 0 /\ Overtakes(i) /\ UNCHANGED faults
       \/ Fault /\ UNCHANGED redisVars
    /\ UNCHANGED <<clientVars, uplink, mongo, pushed, lookups, down, handled>>
-----------------------------------------------------------------------------
(***************************************************************************)
(* The push service.  A safe push is in mongo before redis is asked.       *)
(***************************************************************************)
S2PPush(m) ==
    /\ m \notin pushed
    /\ pushed' = pushed \cup {m}
    /\ \/ /\ m \in Safe
          /\ mongo' = [mongo EXCEPT ![m] = "unarrive"]
          /\ lookups' = lookups \cup {<<m, 0>>}
          /\ UNCHANGED faults
       \/ /\ m \in Safe
          /\ Fault
          /\ UNCHANGED <<mongo, lookups>>
       \/ /\ m \notin Safe
          /\ lookups' = lookups \cup {<<m, 0>>}
          /\ UNCHANGED <<mongo, faults>>
    /\ UNCHANGED <<clientVars, uplink, pool, redisVars, down, handled>>

(* Faulty variant: sent counts as arrived. *)
PushToGateIsArrival(m, l) ==
    /\ <<m, l>> \in lookups /\ redis # 0
    /\ lookups' = lookups \ {<<m, l>>}
    /\ down' = down \cup {<<redis, m, l>>}
    /\ mongo' = [mongo EXCEPT ![m] = "arrived"]
    /\ UNCHANGED <<clientVars, uplink, pool, redisVars, pushed, handled, faults>>

PushToGate(m, l) ==
    /\ <<m, l>> \in lookups
    /\ lookups' = lookups \ {<<m, l>>}
    /\ \/ /\ redis # 0
          /\ down' = down \cup {<<redis, m, l>>}
          /\ UNCHANGED faults
       \/ /\ redis = 0
          /\ UNCHANGED <<down, faults>>
       \/ /\ Fault
          /\ UNCHANGED down
    /\ UNCHANGED <<clientVars, uplink, pool, redisVars, mongo, pushed, handled>>

(* Faulty variant: the query asks for the wrong state. *)
PushRestoreArrived(i) ==
    /\ <<"restore", i>> \in pool
    /\ pool' = pool \ {<<"restore", i>>}
    /\ lookups' = lookups \cup {<<m, i>> : m \in {x \in Safe : mongo[x] = "arrived"}}
    /\ UNCHANGED <<clientVars, uplink, redisVars, mongo, pushed, down, handled, faults>>

PushRestore(i) ==
    /\ <<"restore", i>> \in pool
    /\ pool' = pool \ {<<"restore", i>>}
    /\ \/ /\ lookups' = lookups \cup {<<m, i>> : m \in {x \in Safe : mongo[x] = "unarrive"}}
          /\ UNCHANGED faults
       \/ Fault /\ UNCHANGED lookups
    /\ UNCHANGED <<clientVars, uplink, redisVars, mongo, pushed, down, handled>>

PushReply(m) ==
    /\ <<"reply", m>> \in pool
    /\ pool' = pool \ {<<"reply", m>>}
    /\ \/ mongo' = [mongo EXCEPT ![m] = "arrived"] /\ UNCHANGED faults
       \/ Fault /\ UNCHANGED mongo
    /\ UNCHANGED <<clientVars, uplink, redisVars, pushed, lookups, down, handled>>

Client == ClientConnect \/ Login \/ Logoff \/ Disconnect

Handlers == \/ \E k \in 1..MaxConn : GateRead(k)
            \/ \E i \in 1..MaxLogin : GateLogoff(i) \/ PushRestore(i)
            \/ \E m \in Msg : PushReply(m)
            \/ \E m \in Msg, l \in 0..MaxLogin : PushToGate(m, l)
            \/ \E k \in 1..MaxConn, m \in Msg, l \in 0..MaxLogin : Push2Client(k, m, l)

PushNext == \/ Client
            \/ Handlers
            \/ \E k \in 1..MaxConn : Lose(k)
            \/ \E m \in Msg : S2PPush(m)

PushSpec == PushInit /\ [][PushNext]_pushVars

(***************************************************************************)
(* Readers and workers go on; neither the client nor those who push need   *)
(* do anything.                                                            *)
(***************************************************************************)
PushFairSpec == PushSpec /\ WF_pushVars(Handlers)
-----------------------------------------------------------------------------
Message == ({"login", "restore", "logoff"} \X (1..MaxLogin)) \cup ({"reply"} \X Safe)

PushTypeOK == /\ conn \in 0..MaxConn /\ conns \in 0..MaxConn
              /\ in \in BOOLEAN /\ logins \in 0..MaxLogin
              /\ uplink \in [1..MaxConn -> Seq(Message)]
              /\ pool \subseteq Message
              /\ redis \in 0..MaxConn
              /\ mongo \in [Msg -> {"none", "unarrive", "arrived"}]
              /\ pushed \subseteq Msg
              /\ lookups \subseteq Msg \X (0..MaxLogin)
              /\ down \subseteq (1..MaxConn) \X Msg \X (0..MaxLogin)
              /\ handled \subseteq Msg
              /\ faults \in 0..MaxFault
              /\ owner \in 0..MaxLogin /\ overtaken \subseteq 1..MaxLogin

(***************************************************************************)
(* A record is marked as arrived only when the client has handled the      *)
(* message.                                                                *)
(***************************************************************************)
ArrivedMeansHandled == \A m \in Msg : mongo[m] = "arrived" => m \in handled

Sent(x) == x \in pool \/ \E i \in 1..Len(uplink[conn]) : uplink[conn][i] = x

(***************************************************************************)
(* An unarrived safe push is on its way to a client that is logged in: it  *)
(* is about to be looked up or delivered, the reply to it is under way, or *)
(* a restore will find it.  The order of the two stores matters: the login *)
(* is in redis before the restore reads mongo, the push is in mongo before *)
(* redis is read.  So no push falls between the two, unless something      *)
(* failed or the gate handled a message of an earlier login after this one *)
(* and took its entry: a late logoff deletes the entry, a late login puts  *)
(* the old connection in its place.                                        *)
(***************************************************************************)
NothingMissed ==
    in /\ faults = 0 /\ logins \notin overtaken =>
       \A m \in Safe : mongo[m] = "unarrive" =>
          \/ \E l \in 0..MaxLogin : <<m, l>> \in lookups \/ <<conn, m, l>> \in down
          \/ Sent(<<"reply", m>>)
          \/ Sent(<<"restore", logins>>)

(***************************************************************************)
(* README.md:197 promises that a safe push is sure to arrive.  The code    *)
(* keeps the promise to a client that stays logged in from some time on,   *)
(* if nothing failed and no earlier logoff or login, handled late, took    *)
(* the entry of that login in redis: then the record waits for the next    *)
(* login.                                                                  *)
(***************************************************************************)
SafePushArrives ==
    \A m \in Safe : <>[](in /\ faults = 0 /\ logins \notin overtaken) =>
                       (mongo[m] = "unarrive" ~> mongo[m] = "arrived")
=============================================================================
