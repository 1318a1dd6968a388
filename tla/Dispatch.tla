------------------------------ MODULE Dispatch ------------------------------
(***************************************************************************)
(* How a service runs the requests it receives: the goroutine that reads a *)
(* connection (HandleRead, MessageDecode, RpcDecode), the task pool        *)
(* (msf_task_pool_new.go) and the handler of MSG_G2S_RPC_CALL.             *)
(*                                                                         *)
(* One read takes some of the bytes that wait on the connection; all the   *)
(* requests that are complete in it are decoded with ONE Session, which    *)
(* their handlers share.  A session is named by its first request.         *)
(*                                                                         *)
(* Process puts these actions together with the start and the stop of the  *)
(* process.                                                                *)
(***************************************************************************)
EXTENDS Integers, Sequences, FiniteSets, Functions

CONSTANTS Req,         \* requests, each sent once
          Conn,        \* connections, one reader goroutine each
          From,        \* the connection that a request is sent on
          Kind,        \* "sync" (vertify, login), "ordered" or "plain"
          Rsp,         \* the requests whose GRid is not 0
          Worker,      \* the coroutinesSize goroutines on taskCh
          Sep,         \* the goroutine on separateCh
          NONE         \* the empty error string

ASSUME DispatchAssumption ==
    /\ From \in [Req -> Conn]
    /\ Kind \in [Req -> {"sync", "ordered", "plain"}]
    /\ Rsp \subseteq Req
    /\ Sep \notin Worker
    /\ NONE \notin Req
    /\ IsFiniteSet(Req)

Goroutine == Worker \cup {Sep}

VARIABLES wire,        \* what waits on a connection or in its recvBuf
          reader,      \* the reader: "read", "decode" or "send"; "closed" with its connection
          batch,       \* what is left of the read that is being decoded
          cur,         \* the Session of that read
          session,     \* the Session a request was decoded with
          err,         \* Session.err: the request whose handler set it
          size,        \* TaskPool.size
          taskCh,      \* TaskPool.taskCh
          phase, task, \* of a pool goroutine: what it does, on which request
          rsp,         \* the error in the MSG_S2G_RPC_RSP of a request
          arrived,     \* per connection: all the requests so far
          started, done, \* requests whose task began; those whose task ended
          failed,      \* requests whose handler called SetResponseErr
          refused      \* requests that PreCheck did not let through

rvars == <<wire, reader, batch, cur, arrived>>

pvars == <<phase, task>>

hvars == <<failed, refused>>

vars == <<wire, reader, batch, cur, session, err, size, taskCh, phase, task,
          rsp, arrived, started, done, failed, refused>>

Init == /\ wire = [c \in Conn |-> <<>>]
        /\ reader = [c \in Conn |-> "read"]
        /\ batch = [c \in Conn |-> <<>>]
        /\ cur = [c \in Conn |-> NONE]
        /\ session = [r \in Req |-> NONE]
        /\ err = [s \in Req |-> NONE]
        /\ size = 0
        /\ taskCh = <<>>
        /\ phase = [g \in Goroutine |-> "idle"]
        /\ task = [g \in Goroutine |-> NONE]
        /\ rsp = [r \in Req |-> {}]
        /\ arrived = [c \in Conn |-> <<>>]
        /\ started = {}
        /\ done = {} /\ failed = {} /\ refused = {}

(***************************************************************************)
(* The peer sends a request.                                               *)
(***************************************************************************)
Arrive(r) ==
    LET c == From[r] IN
    /\ r \notin Range(arrived[c])
    /\ wire' = [wire EXCEPT ![c] = Append(@, r)]
    /\ arrived' = [arrived EXCEPT ![c] = Append(@, r)]
    /\ UNCHANGED <<reader, batch, cur, session, err, size, taskCh, pvars, rsp,
                   started, done, hvars>>
-----------------------------------------------------------------------------
(***************************************************************************)
(* HandleRead: one conn.Read returns the bytes of some of the requests;    *)
(* Turn2Session makes the Session that MessageDecode uses for all of them. *)
(***************************************************************************)
HandleRead(c) ==
    /\ reader[c] = "read"
    /\ \E n \in 1..Len(wire[c]) :
          /\ batch' = [batch EXCEPT ![c] = SubSeq(wire[c], 1, n)]
          /\ wire' = [wire EXCEPT ![c] = SubSeq(wire[c], n + 1, Len(wire[c]))]
    /\ cur' = [cur EXCEPT ![c] = Head(wire[c])]
    /\ reader' = [reader EXCEPT ![c] = "decode"]
    /\ UNCHANGED <<session, err, size, taskCh, pvars, rsp, arrived, started,
                   done, hvars>>

(***************************************************************************)
(* The read loop ends; what the peer sent after the last read is lost.     *)
(***************************************************************************)
Close(c) ==
    /\ reader[c] = "read"
    /\ reader' = [reader EXCEPT ![c] = "closed"]
    /\ UNCHANGED <<wire, batch, cur, session, err, size, taskCh, pvars, rsp,
                   arrived, started, done, hvars>>

(***************************************************************************)
(* The reader goes on with the rest of the read, or reads again.           *)
(***************************************************************************)
NextPacket(c) ==
    /\ batch' = [batch EXCEPT ![c] = Tail(@)]
    /\ reader' = [reader EXCEPT ![c] = IF Len(batch[c]) > 1 THEN "decode" ELSE "read"]

(***************************************************************************)
(* RpcDecode drops a packet that PreCheck refuses (Process says which) and *)
(* goes on with the next one.                                              *)
(***************************************************************************)
Refuse(c) ==
    /\ reader[c] = "decode"
    /\ refused' = refused \cup {Head(batch[c])}
    /\ NextPacket(c)
    /\ UNCHANGED <<wire, cur, session, err, size, taskCh, pvars, rsp, arrived,
                   started, done, failed>>

StartTask(g, r) ==
    /\ phase[g] = "idle"
    /\ phase' = [phase EXCEPT ![g] = "process"]
    /\ task' = [task EXCEPT ![g] = r]
    /\ started' = started \cup {r}

(* Faulty variant: the goroutine of separateCh runs them. *)
DecodeSyncSeparate(c) ==
    /\ reader[c] = "decode"
    /\ Kind[Head(batch[c])] = "sync"
    /\ session' = [session EXCEPT ![Head(batch[c])] = cur[c]]
    /\ size' = size + 1
    /\ StartTask(Sep, Head(batch[c]))
    /\ NextPacket(c)
    /\ UNCHANGED <<wire, cur, err, taskCh, rsp, arrived, done, hvars>>

(***************************************************************************)
(* Of the others it runs vertify and login itself, before it looks further *)
(***************************************************************************)
DecodeSync(c) ==
    /\ reader[c] = "decode"
    /\ Kind[Head(batch[c])] = "sync"
    /\ session' = [session EXCEPT ![Head(batch[c])] = cur[c]]
    /\ started' = started \cup {Head(batch[c])}
    /\ done' = done \cup {Head(batch[c])}
    /\ NextPacket(c)
    /\ UNCHANGED <<wire, cur, err, size, taskCh, pvars, rsp, arrived, hvars>>

(***************************************************************************)
(* ... and counts the rest before it sends their tasks.                    *)
(***************************************************************************)
Decode(c) ==
    /\ reader[c] = "decode"
    /\ Kind[Head(batch[c])] # "sync"
    /\ session' = [session EXCEPT ![Head(batch[c])] = cur[c]]
    /\ size' = size + 1
    /\ reader' = [reader EXCEPT ![c] = "send"]
    /\ UNCHANGED <<wire, batch, cur, err, taskCh, pvars, rsp, arrived,
                   started, done, hvars>>

(* Faulty variant: an ordered request may go to the pool too. *)
ProduceTaskAlways(c) ==
    /\ reader[c] = "send"
    /\ taskCh' = Append(taskCh, Head(batch[c]))
    /\ NextPacket(c)
    /\ UNCHANGED <<wire, cur, session, err, size, pvars, rsp, arrived,
                   started, done, hvars>>

(***************************************************************************)
(* ProduceTask: taskCh is buffered, for ten million tasks.                 *)
(***************************************************************************)
ProduceTask(c) ==
    /\ reader[c] = "send"
    /\ Kind[Head(batch[c])] = "plain"
    /\ taskCh' = Append(taskCh, Head(batch[c]))
    /\ NextPacket(c)
    /\ UNCHANGED <<wire, cur, session, err, size, pvars, rsp, arrived,
                   started, done, hvars>>

(***************************************************************************)
(* ProduceTaskSeparate: separateCh has no buffer, so the reader waits till *)
(* the one goroutine that serves it is free.                               *)
(***************************************************************************)
ProduceTaskSeparate(c) ==
    /\ reader[c] = "send"
    /\ Kind[Head(batch[c])] = "ordered"
    /\ StartTask(Sep, Head(batch[c]))
    /\ NextPacket(c)
    /\ UNCHANGED <<wire, cur, session, err, size, taskCh, rsp, arrived, done,
                   hvars>>

TakeTask(w) ==
    /\ taskCh # <<>>
    /\ StartTask(w, Head(taskCh))
    /\ taskCh' = Tail(taskCh)
    /\ UNCHANGED <<rvars, session, err, size, rsp, done, hvars>>
-----------------------------------------------------------------------------
(***************************************************************************)
(* A response goes out if the request wants one, unless its connection was *)
(* closed meanwhile.                                                       *)
(***************************************************************************)
MessageSend(r, es) ==
    rsp' = [rsp EXCEPT ![r] =
              IF r \in Rsp /\ reader[From[r]] # "closed" THEN @ \cup es ELSE @]

(* Faulty variant: the Session is cleaned before each call. *)
RpcHandleCleans(g) ==
    /\ phase[g] = "process"
    /\ \/ err' = [err EXCEPT ![session[task[g]]] = NONE] /\ UNCHANGED failed
       \/ /\ err' = [err EXCEPT ![session[task[g]]] = task[g]]
          /\ failed' = failed \cup {task[g]}
    /\ phase' = [phase EXCEPT ![g] = "respond"]
    /\ UNCHANGED <<rvars, session, size, taskCh, task, rsp, started, done, refused>>

(***************************************************************************)
(* RpcG2SRpcCallHandler.Process.  The inner handler may call               *)
(* SetResponseErr on the Session; a panic of it is recovered.              *)
(***************************************************************************)
RpcHandle(g) ==
    /\ phase[g] = "process"
    /\ \/ UNCHANGED <<err, failed>>
       \/ /\ err' = [err EXCEPT ![session[task[g]]] = task[g]]
          /\ failed' = failed \cup {task[g]}
    /\ phase' = [phase EXCEPT ![g] = "respond"]
    /\ UNCHANGED <<rvars, session, size, taskCh, task, rsp, started, done, refused>>

(***************************************************************************)
(* An unknown rpc or arguments that do not decode: no handler runs, and    *)
(* the error is the request's own.                                         *)
(***************************************************************************)
Reject(g) ==
    /\ phase[g] = "process"
    /\ phase' = [phase EXCEPT ![g] = "end"]
    /\ MessageSend(task[g], {task[g]})
    /\ UNCHANGED <<rvars, session, err, size, taskCh, task, started, done,
                   hvars>>

(***************************************************************************)
(* GetResponseErr and the response; a one way request gets none.           *)
(***************************************************************************)
Respond(g) ==
    /\ phase[g] = "respond"
    /\ phase' = [phase EXCEPT ![g] = "end"]
    /\ MessageSend(task[g], {err[session[task[g]]]})
    /\ UNCHANGED <<rvars, session, err, size, taskCh, task, started, done,
                   hvars>>

(* Faulty variant: size is not decremented. *)
EndTaskUncounted(g) ==
    /\ phase[g] = "end"
    /\ phase' = [phase EXCEPT ![g] = "idle"]
    /\ task' = [task EXCEPT ![g] = NONE]
    /\ done' = done \cup {task[g]}
    /\ UNCHANGED <<rvars, session, err, size, taskCh, rsp, started, hvars>>

EndTask(g) ==
    /\ phase[g] = "end"
    /\ phase' = [phase EXCEPT ![g] = "idle"]
    /\ task' = [task EXCEPT ![g] = NONE]
    /\ size' = size - 1
    /\ done' = done \cup {task[g]}
    /\ UNCHANGED <<rvars, session, err, taskCh, rsp, started, hvars>>

-----------------------------------------------------------------------------
TypeOK == /\ wire \in [Conn -> Seq(Req)]
          /\ reader \in [Conn -> {"read", "decode", "send", "closed"}]
          /\ batch \in [Conn -> Seq(Req)]
          /\ cur \in [Conn -> Req \cup {NONE}]
          /\ session \in [Req -> Req \cup {NONE}]
          /\ err \in [Req -> Req \cup {NONE}]
          /\ size \in Int
          /\ taskCh \in Seq(Req)
          /\ phase \in [Goroutine -> {"idle", "process", "respond", "end"}]
          /\ task \in [Goroutine -> Req \cup {NONE}]
          /\ rsp \in [Req -> SUBSET (Req \cup {NONE})]
          /\ arrived \in [Conn -> Seq(Req)]
          /\ started \subseteq Req /\ done \subseteq Req /\ failed \subseteq Req /\ refused \subseteq Req

(***************************************************************************)
(* The requests that the pool has accepted and not finished: handed over   *)
(* by a reader, in taskCh, or being run.                                   *)
(***************************************************************************)
InPool == {Head(batch[c]) : c \in {d \in Conn : reader[d] = "send"}}
          \cup Range(taskCh)
          \cup {task[g] : g \in {h \in Goroutine : phase[h] # "idle"}}

(***************************************************************************)
(* TaskPool.size is exactly the number of accepted tasks: when             *)
(* StopTaskPool reads 0, no task waits, runs or is on its way in.          *)
(***************************************************************************)
SizeCounts == size = Cardinality(InPool)

(***************************************************************************)
(* Ordered requests of one connection start in the order they arrived, and *)
(* each only when the one before it has ended (or was refused).            *)
(***************************************************************************)
OrderedInOrder ==
    \A c \in Conn : \A i, j \in 1..Len(arrived[c]) :
        /\ i < j
        /\ Kind[arrived[c][i]] = "ordered"
        /\ Kind[arrived[c][j]] = "ordered"
        /\ arrived[c][j] \in started
        => arrived[c][i] \in done \cup refused

(***************************************************************************)
(* What arrives after a vertify or a login starts only when that one has   *)
(* been handled, or refused as a login without a vertify is.               *)
(***************************************************************************)
SyncFirst ==
    \A c \in Conn : \A i, j \in 1..Len(arrived[c]) :
        /\ i < j
        /\ Kind[arrived[c][i]] = "sync"
        /\ arrived[c][j] \in started
        => arrived[c][i] \in done \cup refused

-----------------------------------------------------------------------------
(***************************************************************************)
(* The inductive invariant behind these.  What a connection has yet to     *)
(* hand over is the end of what arrived on it; the rest is Sent, and was   *)
(* Handed over unless it was refused.                                      *)
(***************************************************************************)
nArrived(c) == Len(arrived[c])

nBatch(c) == Len(batch[c])

nWire(c) == Len(wire[c])

sentTo(c) == nArrived(c) - nBatch(c) - nWire(c)

Sent == {r \in Req : \E i \in 1..sentTo(From[r]) : arrived[From[r]][i] = r}

Handed == Sent \ refused

StreamInv(c) ==
    /\ sentTo(c) \in Nat
    /\ \A i \in 1..nArrived(c) : From[arrived[c][i]] = c
    /\ \A i, j \in 1..nArrived(c) : arrived[c][i] = arrived[c][j] => i = j
    /\ \A i \in 1..nBatch(c) : batch[c][i] = arrived[c][sentTo(c) + i]
    /\ \A i \in 1..nWire(c) : wire[c][i] = arrived[c][sentTo(c) + nBatch(c) + i]
    /\ reader[c] \in {"decode", "send"} <=> batch[c] # <<>>
    /\ reader[c] \in {"decode", "send"} => cur[c] # NONE
    /\ reader[c] = "send" => Kind[batch[c][1]] # "sync"

SessionInv ==
    \A r \in Req : session[r] # NONE <=>
        r \in Handed \/ (reader[From[r]] = "send" /\ batch[From[r]][1] = r)

Running == {g \in Goroutine : phase[g] # "idle"}

(***************************************************************************)
(* Each request that was handed over waits, runs or is done, in one place  *)
(* only.                                                                   *)
(***************************************************************************)
PoolInv ==
    /\ \A i, j \in 1..Len(taskCh) : taskCh[i] = taskCh[j] => i = j
    /\ Range(taskCh) \subseteq Handed \ (done \cup started)
    /\ \A r \in Range(taskCh) : Kind[r] = "plain"
    /\ \A g \in Running : /\ task[g] \in (Handed \cap started) \ done
                          /\ Kind[task[g]] = IF g = Sep THEN "ordered" ELSE "plain"
    /\ \A g, h \in Running : task[g] = task[h] => g = h
    /\ \A r \in Handed : r \in done \cup Range(taskCh) \cup {task[g] : g \in Running}
    /\ done \subseteq Handed
    /\ started \subseteq Handed

(***************************************************************************)
(* No ordered request was sent after the one that runs, unless refused.    *)
(***************************************************************************)
LastOrdered ==
    Sep \in Running =>
        LET c == From[task[Sep]] IN
        \A i, j \in 1..nArrived(c) :
            i < j /\ arrived[c][i] = task[Sep] /\ Kind[arrived[c][j]] = "ordered"
            => j > sentTo(c) \/ arrived[c][j] \in refused

RspInv == /\ \A r \in Req : rsp[r] # {} => r \in started
          /\ \A g \in Goroutine : phase[g] \in {"process", "respond"} => rsp[task[g]] = {}

(***************************************************************************)
(* The error of a handler stays in its Session: it may be replaced by that *)
(* of another handler, but is not taken away.                              *)
(***************************************************************************)
FailedInv ==
    \A r \in failed : /\ r \in started
                      /\ session[r] # NONE /\ err[session[r]] # NONE
                      /\ NONE \notin rsp[r]

DispatchInv == /\ \A c \in Conn : StreamInv(c)
               /\ refused \subseteq Sent
               /\ SessionInv
               /\ PoolInv
               /\ LastOrdered
               /\ RspInv
               /\ FailedInv
=============================================================================
