------------------------------ MODULE Process -------------------------------
(***************************************************************************)
(* A process of the framework from start to exit: Start and Stop of        *)
(* ms_framework/msf_main.go around the readers and the task pool of        *)
(* Dispatch, with the flow counter that handlers report to and the         *)
(* database resources they use.                                            *)
(*                                                                         *)
(* The process is a service or a gate.  A gate has also dialled services;  *)
(* Stop does not end the readers of those connections.  The clients of a   *)
(* client gate must vertify before anything else they send is run.         *)
(***************************************************************************)
EXTENDS Dispatch

CONSTANTS OfGate,     \* the requests that a gate serves; a service serves the others
          Dialled,    \* the connections that the process dialled itself
          Counted,    \* the requests whose handler calls RpcFvcCount
          UsesDb,     \* the requests whose handler uses the database
          Vertify,    \* the MSG_C2G_VERTIFY requests
          KeyOk       \* those of them that have the right key

ASSUME ProcessAssumption == /\ OfGate \subseteq Req /\ UsesDb \subseteq Req
                            /\ Counted \subseteq Req /\ Dialled \subseteq Conn
                            /\ \A r \in Req : From[r] \in Dialled => r \in OfGate
                            /\ KeyOk \subseteq Vertify /\ Vertify \subseteq OfGate
                            /\ \A r \in Vertify : Kind[r] = "sync" /\ r \notin UsesDb

(* Faulty variant: etcd first, as it takes longest. *)
StartOrderEtcdFirst == <<"etcd", "fvc", "pool", "db", "tcp">>

(* StopBusi and StartBusi are hooks of the application. *)
StartOrder == <<"fvc", "pool", "db", "etcd", "tcp">>

(* Faulty variant: the counter is stopped before the pool. *)
StopOrderPoolLast == <<"tcp", "etcd", "db", "fvc", "pool">>

(* Faulty variant: the pool is not waited for. *)
StopOrderNoPool == <<"tcp", "etcd", "db", "fvc">>

StopOrder == <<"tcp", "etcd", "db", "pool", "fvc">>

VARIABLES gate,       \* GetServerIdentity() is one of the gates
          client,     \* it is the client gate
          main, step, \* the main goroutine: "start", "run", "stop" or "exit"; its next call
          up,         \* the parts that were started and not stopped
          state,      \* TcpClient.state: "init", "ok" or "exit"
          exit,       \* TcpServer.Stop has set the state of its clients
          last,       \* readers that had looked at their state before that
          broken,     \* requests whose handler did not find the database
          crashed     \* a goroutine panicked

svars == <<gate, client, main, step, up, state, exit, last, broken, crashed>>

allvars == <<vars, svars>>

PInit == /\ Init
         /\ gate \in BOOLEAN /\ client \in BOOLEAN /\ (client => gate)
         /\ state = [c \in Conn |-> IF client THEN "init" ELSE "ok"]
         /\ main = "start" /\ step = 1
         /\ up = {}
         /\ exit = FALSE /\ last = {}
         /\ broken = {}
         /\ crashed = FALSE

Alive == main # "exit" /\ ~crashed

Accepted == Conn \ Dialled
-----------------------------------------------------------------------------
(***************************************************************************)
(* Start makes its calls one after the other, then waits for a signal.     *)
(***************************************************************************)
Start ==
    /\ Alive /\ main = "start"
    /\ up' = up \cup {StartOrder[step]}
    /\ main' = IF step = Len(StartOrder) THEN "run" ELSE main
    /\ step' = IF step = Len(StartOrder) THEN 1 ELSE step + 1
    /\ UNCHANGED <<vars, gate, client, state, exit, last, broken, crashed>>

Signal ==
    /\ Alive /\ main = "run"
    /\ main' = "stop"
    /\ UNCHANGED <<vars, gate, client, step, up, state, exit, last, broken, crashed>>

(***************************************************************************)
(* TcpServer.Stop tells the readers of the accepted connections to end.    *)
(***************************************************************************)
StopReaders ==
    /\ Alive /\ main = "stop"
    /\ StopOrder[step] = "tcp" /\ ~exit
    /\ exit' = TRUE
    /\ state' = [c \in Conn |-> IF c \in Accepted THEN "exit" ELSE state[c]]
    /\ last' = {c \in Accepted : reader[c] = "read" /\ state[c] # "exit"}
    /\ UNCHANGED <<vars, gate, client, main, step, up, broken, crashed>>

(***************************************************************************)
(* A call of Stop returns: TcpServer.Stop once those readers have closed   *)
(* their connections, StopTaskPool once size is 0; the others do not wait. *)
(***************************************************************************)
StopReturn ==
    /\ Alive /\ main = "stop"
    /\ StopOrder[step] = "tcp" => exit /\ \A c \in Accepted : reader[c] = "closed"
    /\ StopOrder[step] = "pool" => size = 0
    /\ up' = up \ {StopOrder[step]}
    /\ main' = IF step = Len(StopOrder) THEN "exit" ELSE main
    /\ step' = step + 1
    /\ UNCHANGED <<vars, gate, client, state, exit, last, broken, crashed>>
-----------------------------------------------------------------------------
(***************************************************************************)
(* Accepted connections come with StartTcpServer; those that a gate dials, *)
(* already with StartEtcdDriver.                                           *)
(***************************************************************************)
Connected(c) == IF c \in Dialled THEN gate /\ (main = "start" => "etcd" \in up)
                                 ELSE main # "start"

PArrive(r) ==
    /\ Alive
    /\ (r \in OfGate) = gate
    /\ reader[From[r]] # "closed"
    /\ Connected(From[r])
    /\ Arrive(r)
    /\ UNCHANGED svars

(***************************************************************************)
(* HandleRead looks at the state once for each read.                       *)
(***************************************************************************)
PHandleRead(c) ==
    /\ Alive
    /\ c \in Accepted /\ state[c] = "exit" => c \in last
    /\ HandleRead(c)
    /\ last' = last \ {c}
    /\ UNCHANGED <<gate, client, main, step, up, state, exit, broken, crashed>>

EndRead(c) ==
    /\ Close(c)
    /\ last' = last \ {c}
    /\ UNCHANGED <<gate, client, main, step, up, state, exit, broken, crashed>>

(* The reader finds the state EXIT. *)
PClose(c) == Alive /\ c \in Accepted /\ state[c] = "exit" /\ EndRead(c)

(***************************************************************************)
(* The other ends of HandleRead: the peer closes or is silent for too      *)
(* long, a read or a heartbeat fails.                                      *)
(***************************************************************************)
PLose(c) == Alive /\ Connected(c) /\ EndRead(c)

Crash ==
    /\ crashed' = TRUE
    /\ UNCHANGED <<vars, gate, client, main, step, up, state, exit, last, broken>>

(* Faulty variant: only the state EXIT is refused. *)
PreCheckExit(c) == \/ Head(batch[c]) \in Vertify
                   \/ c \in Dialled
                   \/ state[c] # "exit"

(***************************************************************************)
(* PreCheck lets a vertify through, whatever comes over a dialled          *)
(* connection, and the rest only in state OK.                              *)
(***************************************************************************)
PreCheck(c) == \/ Head(batch[c]) \in Vertify
               \/ c \in Dialled
               \/ state[c] = "ok"

(* What it refuses ends the connection, after the rest of the read. *)
PRefuse(c) ==
    /\ Alive
    /\ reader[c] = "decode" /\ ~PreCheck(c)
    /\ Refuse(c)
    /\ state' = [state EXCEPT ![c] = "exit"]
    /\ UNCHANGED <<gate, client, main, step, up, exit, last, broken, crashed>>

(***************************************************************************)
(* The handler of a vertify sets the state of the client to OK, whatever   *)
(* it was; a dialled connection has no client.                             *)
(***************************************************************************)
SetState(c) == IF Head(batch[c]) \in KeyOk /\ c \in Accepted THEN "ok" ELSE state[c]

(***************************************************************************)
(* The reader needs the pool, or the database for a login; a nil one makes *)
(* it panic.                                                               *)
(***************************************************************************)
Panics(c) == /\ reader[c] = "decode"
             /\ IF Kind[Head(batch[c])] = "sync"
                THEN Head(batch[c]) \in UsesDb /\ "db" \notin up
                ELSE main = "start" /\ "pool" \notin up

PDecode(c) ==
    /\ Alive
    /\ reader[c] = "decode" => PreCheck(c)
    /\ reader[c] \in {"decode", "send"}
    /\ IF Panics(c) THEN Crash
       ELSE /\ DecodeSync(c) \/ Decode(c) \/ ProduceTask(c)
            /\ state' = [state EXCEPT ![c] = SetState(c)]
            /\ UNCHANGED <<gate, client, main, step, up, exit, last, broken, crashed>>

PProduceTaskSeparate(c) == Alive /\ ProduceTaskSeparate(c) /\ UNCHANGED svars

(***************************************************************************)
(* RpcFvcCount hands its count to the goroutine of the counter, and waits  *)
(* for ever when that one has ended.                                       *)
(***************************************************************************)
RpcFvcCount(r) == r \in Counted => "fvc" \in up

(***************************************************************************)
(* A handler without its database panics.  The call handler of a service   *)
(* recovers and answers as if nothing had happened; in a gate nothing does.*)
(***************************************************************************)
PRpcHandle(g) ==
    /\ Alive
    /\ phase[g] = "process"
    /\ RpcFvcCount(task[g])
    /\ IF task[g] \in UsesDb /\ "db" \notin up
       THEN IF gate THEN Crash
            ELSE /\ RpcHandle(g) /\ failed' = failed
                 /\ broken' = broken \cup {task[g]}
                 /\ UNCHANGED <<gate, client, main, step, up, state, exit, last, crashed>>
       ELSE /\ RpcHandle(g) /\ (gate => failed' = failed)
            /\ UNCHANGED svars

PReject(g) == Alive /\ ~gate /\ RpcFvcCount(task[g]) /\ Reject(g) /\ UNCHANGED svars

PTask(g) ==
    /\ Alive
    /\ Respond(g) \/ EndTask(g)
    /\ UNCHANGED svars

PTakeTask(w) == Alive /\ TakeTask(w) /\ UNCHANGED svars

Reader(c) == PHandleRead(c) \/ PClose(c) \/ PRefuse(c) \/ PDecode(c)

Run(g) == PTask(g) \/ PRpcHandle(g) \/ PReject(g)

Main == Start \/ StopReaders \/ StopReturn

PNext == \/ Main \/ Signal
         \/ \E r \in Req : PArrive(r)
         \/ \E c \in Conn : Reader(c) \/ PLose(c) \/ PProduceTaskSeparate(c)
         \/ \E w \in Worker : PTakeTask(w)
         \/ \E g \in Goroutine : Run(g)

(***************************************************************************)
(* Goroutines that can run do, and handlers return.  Senders that wait for *)
(* separateCh are served in the order they came, so none waits for ever.   *)
(* Nothing makes a request or a signal come, or a connection end.          *)
(***************************************************************************)
Spec == /\ PInit /\ [][PNext]_allvars
        /\ WF_allvars(Main)
        /\ \A c \in Conn : /\ WF_allvars(Reader(c))
                            /\ SF_allvars(PProduceTaskSeparate(c))
        /\ WF_allvars(\E w \in Worker : PTakeTask(w))
        /\ \A g \in Goroutine : WF_allvars(Run(g))
-----------------------------------------------------------------------------
(***************************************************************************)
(* What becomes of a request unless the process is told to stop: it is run *)
(* to its end, and answered if it wants an answer and its connection       *)
(* lasts; or PreCheck refuses it; or its connection ends before it was     *)
(* decoded.                                                                *)
(***************************************************************************)
Served(r) == /\ r \in done
             /\ r \in Rsp /\ Kind[r] # "sync" =>
                    rsp[r] # {} \/ reader[From[r]] = "closed"

Settled(r) == \/ Served(r)
              \/ r \in refused
              \/ session[r] = NONE /\ reader[From[r]] = "closed"

ServedUnlessStopped ==
    (\E r \in Req : r \in Range(arrived[From[r]]) /\ ~Settled(r))
    ~> \/ \A r \in Req : r \in Range(arrived[From[r]]) => Settled(r)
       \/ main \in {"stop", "exit"}

(***************************************************************************)
(* Until Stop, PreCheck refuses exactly what a client of the client gate   *)
(* sends before a vertify with the right key, though a read may hold both: *)
(* nothing of it is run before, nothing refused after.                     *)
(***************************************************************************)
Verified(c, j) == \E i \in 1..(j - 1) : arrived[c][i] \in KeyOk

RefusedIffUnverified ==
    \A c \in Conn : \A j \in 1..Len(arrived[c]) :
        LET r == arrived[c][j] IN
        /\ r \in started /\ client /\ c \in Accepted /\ r \notin Vertify
           => Verified(c, j)
        /\ r \in refused /\ ~exit => client /\ ~Verified(c, j)

(***************************************************************************)
(* When the process exits, every request that a read of an accepted        *)
(* connection returned has been run to its end or was refused: Stop ends   *)
(* the readers before it waits for the pool.  (Routes that come over       *)
(* dialled connections may be cut off.)                                    *)
(***************************************************************************)
DrainedOnExit ==
    main = "exit" =>
        \A c \in Accepted : \A i \in 1..(Len(arrived[c]) - Len(wire[c])) :
            arrived[c][i] \in done \cup refused

(***************************************************************************)
(* No caller is told that a request succeeded whose handler set an error,  *)
(* though it shares its Session with the other requests of its read, or    *)
(* found the database released: the connection is closed by then.          *)
(***************************************************************************)
NoFalseSuccess == \A r \in failed \cup broken : NONE \notin rsp[r]

(***************************************************************************)
(* Stop returns.  There are two exceptions.  A gate that still has a       *)
(* logoff in its pool when the database is released: that task panics.     *)
(* And a vertify that is decoded after Stop has set the states: it takes   *)
(* that back, and the reader goes on.                                      *)
(***************************************************************************)
StopReturns ==
    main = "stop" ~> \/ main = "exit"
                     \/ crashed /\ gate /\ \E g \in Worker : task[g] \in UsesDb
                     \/ exit /\ \E c \in Accepted : state[c] = "ok"

-----------------------------------------------------------------------------
PTypeOK == /\ TypeOK
           /\ gate \in BOOLEAN /\ client \in BOOLEAN /\ exit \in BOOLEAN /\ crashed \in BOOLEAN
           /\ main \in {"start", "run", "stop", "exit"}
           /\ step \in 1..6
           /\ up \subseteq {"fvc", "pool", "db", "etcd", "tcp"}
           /\ state \in [Conn -> {"init", "ok", "exit"}]
           /\ last \subseteq Conn
           /\ broken \subseteq Req

Stopping(k) == main \in {"stop", "exit"} /\ step > k

(***************************************************************************)
(* An accepted connection is in state OK when a vertify with the right key *)
(* was decoded on it; what was refused on it came before that.             *)
(***************************************************************************)
StateInv(c) == /\ client /\ state[c] = "ok" => Verified(c, sentTo(c) + 1)
               /\ ~exit /\ Verified(c, sentTo(c) + 1) => state[c] = "ok"

CheckInv(c, r, v) ==
    /\ session[r] # NONE /\ client /\ c \in Accepted /\ r \notin Vertify => v
    /\ r \in refused /\ ~exit => client /\ ~v

VerifyInv ==
    /\ client => gate
    /\ ~client /\ ~exit => refused = {} /\ \A c \in Accepted : state[c] = "ok"
    /\ \A c \in Accepted : StateInv(c)
    /\ \A c \in Conn : \A j \in 1..Len(arrived[c]) :
          CheckInv(c, arrived[c][j], Verified(c, j))

(***************************************************************************)
(* The inductive invariant of the process: what holds once the first call  *)
(* of Stop has returned, and once the fourth has.                          *)
(***************************************************************************)
ProcessInv ==
    /\ main \in {"start", "stop"} => step <= 5
    /\ main = "run" => step = 1
    /\ main = "exit" => step = 6
    /\ \A c \in Conn : \A i \in 1..Len(arrived[c]) :
          /\ (arrived[c][i] \in OfGate) = gate
          /\ main = "start" => gate
    /\ "db" \notin up => (main = "start" /\ step <= 3) \/ Stopping(1)
    /\ Stopping(1) => \A c \in Accepted : reader[c] = "closed"
    /\ Stopping(4) => \A r \in Req : session[r] # NONE /\ From[r] \in Accepted => r \in done
    /\ \A r \in broken : rsp[r] = {} /\ reader[From[r]] = "closed"
    /\ VerifyInv
=============================================================================
