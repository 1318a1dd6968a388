# Specifications of the microservice framework

TLA+ models of the concurrent parts of this repository: the framework
(`ms_framework/`), the gate (`ms_gate/`), the push service (`push_service/`), the
client SDK (`clientsdk/`) and the test client (`client/`). Every module is written from the
source; `PROJECT.json` maps each definition to the lines it stands for.

## 1. The system

A cluster is made of services, gates and etcd; clients reach services through a
client gate, services reach each other through a service gate. Every process runs
the same framework:

| Part (file) | State | Operations | Talks to |
|---|---|---|---|
| callback manager (`msf_callback_mgr_new.go`) | `gCbMap`, the doubly linked timeout queue, its `size` | `AddCallBack`, `GetCallBack`, the manager goroutine's select: add, delete, tick | everything that waits for an answer |
| load balancer (`msf_load_balancer.go`) | `elements`, `weight`, `rrbIdx` | `AddElement`, `DelElement`, `LoadBalance` (two strategies) | remote manager, TCP server |
| task pool and dispatch (`msf_task_pool_new.go`, `msf_simple_rpc.go`, `msf_default_rpc_handler.go`) | `taskCh`, `separateCh`, `size`, the `Session` of a read | `MessageDecode`, `RpcDecode`, `ProduceTask(Separate)`, the workers, `MSG_G2S_RPC_CALL` | readers of connections, handlers |
| synchronous call (`msf_simple_rpc.go`) | `globalGID`, a channel per call | `RpcCallSync`, `RpcCall`, `MSG_G2C_RPC_RSP`, `timeoutCb` | callback manager, task pool, gate |
| etcd driver (`msf_etcd_driver.go`) | lease, key, `exit` | `ServiceRegist`, `LeaseWatch`, `Stop`, `ServiceWatch`, `ServiceDiscover` | etcd, remote manager |
| remote manager (`msf_remote_mgr.go`) | `remotes`, `lbs`, `orderedCache` | `OnRemoteDiscover`, `OnRemoteDisappear`, the reader of a connection, `ChoiceRemote` | etcd driver, load balancer |
| TCP server (`msf_tcp_server.go`) | `clients`, `TcpClient.state`, `lb`, `stop` | accept loop, `HandleRead`, `Close`, `Stop`, vertify | dispatch, load balancer |
| gate (`ms_gate/src/rpc_handler.go`) | `gClientAccess`, connections by client | routing of requests and responses, access report, login, logoff, push | remote manager, callback manager, redis |
| push service (`push_service/src/rpc_handler.go`) | records in mongo | `S2P_PUSH`, `PUSH_REPLY`, `PUSH_RESTORE` | gate, redis, mongo |
| client SDK (`clientsdk/gate_proxy.go`) | connection, login | connect, login, logoff, calls, push handler | gate, callback manager |
| test client (`client/client.go`) | a flow counter | `StartTest` | client SDK |
| flow counter (`msf_flow_velocity_counter.go`) | `totalCnt`, an unbuffered channel | `Start`, `Count`, `Stop` | handlers, test client |
| process (`msf_main.go`, `msf_db_driver.go`) | the parts that are up, `gDBResource` | `Start`, `Stop` and the calls they make | all parts |

What makes these parts hard to test: three kinds of goroutine meet on one map
and one queue (callbacks); channels are unbuffered and the manager's goroutine
runs user callbacks; a lock is given up between a lookup and the use of what it
found (load balancer, order cache, accept loop, discovery); etcd events are
handled by a goroutine each, so in any order; a connection state is written
without a common lock; tasks of one connection run in any order; calls of etcd,
redis and mongo fail half-way. The hazards in `PROJECT.json` list these places
by line, with the properties that watch them.

## 2. Modules

| Module | Models | Note |
|---|---|---|
| `TimeoutQueue` | the timeout queue as a sequence: `QueueAdd`, `QueueDel`, `TailSorted` | operators only |
| `CallbackSpec` | the promise to a caller: idle, waiting, then answered or timed out, never both, never early | implemented by `CallbackMgr` |
| `CallbackMgr` | map, manager and its callers, over the queue as a sequence | what the proofs reason about |
| `PriorityQueue` | the linked list, pointer by pointer, beside each step of `CallbackMgr` | extends `CallbackMgr` |
| `ClientTest` | test clients that call through the SDK, with their flow counters | extends `PriorityQueue`: the manager under its real callers |
| `LoadBalancer` | one step per critical section of `LoadBalance` | either strategy, chosen in `LbInit` |
| `Dispatch` | from a read to the response: readers, workers, the separate goroutine, the `Session` of a read | the actions of a running process |
| `Process` | `Start` and `Stop` around `Dispatch`, the state of a connection with `PreCheck` and vertify, every end of a reader, the flow counter, the database | extends `Dispatch`; a service, a service gate or a client gate, chosen in `PInit` |
| `RpcCall` | `RpcCallSync` on the pool, answers, timeouts, resends, failing sends | callback manager reduced to its rendezvous and to which node is the first |
| `RemoteMgr` | services, etcd keys and leases, watch, pull, connections | one goroutine (slot) per event |
| `TcpServer` | accept loop, readers, vertify, close in two deletes, `Stop` | kind of process chosen in `Init` |
| `ReadLoop` | one reader: buffer, length prefix, read deadline, heartbeats | bytes and a clock |
| `GateRoute` | routing of one client's requests over the instances of a service | order cache, access table, callbacks |
| `PushService` | login, logoff, safe and plain pushes over two stores | client, gate and push service together |
| `EtcdDriver` | registration, lease watch, stop, crash | etcd may fail after taking effect |

`MC*` modules give the constants of a run; `*Proofs` modules hold theorems.

How state and actions follow the code:

* **Granularity.** A critical section under a mutex is one step, as is what a
  goroutine does to state nobody else sees. A send on an unbuffered channel is a
  step of sender and receiver together; a goroutine that waits for it is in a
  phase of its own ("sending", "send", "give"). Whatever the code does after an
  unlock is a further step.
* **Queue order.** Behind `firstNode` the deadlines run from the latest to the earliest, at
  `lastNode`. `queueAdd` starts to compare behind the first node, so that one may be
  due before those behind it. `TailSorted` says what is left: all but the
  first are in order. The tick walks from the last node and stops at the first that is
  not due.
* **Time** is a bounded clock in `CallbackMgr` and the units since the last read,
  heartbeat and decoding in `ReadLoop`. In `RpcCall`, `GateRoute` and
  `PushService` a queued callback may be answered at any moment, and time out at any
  moment too, in `RpcCall` but for the first node, which has to wait for the others.
* **Identifiers.** A cbid stands for its callback and node, a number for a
  connection or login. `GenGid` keeps its overflow (`GidMod`), `rrbIdx` its 16 bits.
* **History variables** (`picks`, `orphan`, `wrapped`, `ran`, `mixed`,
  `owner`, `overtaken`, `arrived`, `started`, `failed`, `refused`, `pending`) record what a property compares with; no
  guard reads them but the bounds.
* **External** are etcd's leases, redis and mongo, peers on a connection and
  the clock; they are modelled from how the code uses them.

Simplifications to know of:

* in `RpcCall` the choice of a gate's connection and its lookup in `clients` are one
  step. In the code the connection may go between the two; `RpcCall` handles the miss
  (`msf_simple_rpc.go:309`) as it does a load balancer that offers nothing, which is
  modelled. `EntryWhileUsed` of `TcpServer` says when it can happen;
* in `Dispatch` each access to `Session.err` is atomic and handlers only set errors; the
  envelope of a request decodes, its arguments need not;
* in `Process` connections are known from the start and a number stands for one for
  good; how they are entered and removed is `TcpServer`;
* in `GateRoute` the gate is a client gate, so the access check is on;
* in `PushService` the gate's lookup of the connection and the client's handler are one
  step;
* in `TcpServer` every connection has an address of its own, and the second, deferred
  `Stop` of the accept goroutine, which returns at once, is left out.

Before some actions stands a definition marked *Faulty variant*: the action with a
plausible mistake (a guard dropped, a reset forgotten, an order swapped). They
belong to no specification; put in the place of the action, each one makes TLC
report the property that `PROJECT.json` names for it.

## 3. Runs

`tlc -workers 2 -config X.cfg M`, with the module `M` that `PROJECT.json` names for the
run. `Process` takes two minutes at most, the others less than one.

| Run | States | What it shows |
|---|---|---|
| `ClientTest` | 31,538 | A callback is answered or timed out once (`ResolvedOnce`); an entry always has a node or a sender that will bring one, a node always an entry or somebody who will remove it (`MapMatchesQueue`); `size` is too small by at most one per answered callback (`SizeDriftBounded`); the pointers hold the abstract queue in both directions, and the tick's cursor is its last node (`ListIsQueue`); a tick leaves no due node but possibly the first; `CallbackSpec` is implemented, so no timeout comes early; nobody counts after the counter was stopped (`NoLateCount`); every test ends and the queue drains (`TestEnds`). |
| `LoadBalancer` | 317,985 | The index is inside the copied list, a returned element was there at some time during the call, round robin is even while the set is stable (`Balanced`). |
| `Process` | 247,835 | Ordered requests of a connection run in order and one at a time, a vertify or login before what follows it; `size` counts what is in flight; until `Stop`, `PreCheck` refuses exactly what a client sends before a vertify with the right key (`RefusedIffUnverified`); a request is served, refused or lost with its connection unless the process is stopped; `Stop` returns, and what was read from accepted connections has run, or was refused, by then (`DrainedOnExit`); nobody is told of success by a handler that set an error in the `Session` it shares, or found the database released (`NoFalseSuccess`). |
| `RpcCall` | 156,835 | Whoever sends on a call's channel has its receiver, until the counter wraps, except the timeout of a call whose send failed (`SenderHasReceiver`); an empty result means a lost connection or a counter that wrapped; every call returns unless a send failed, once calls stop coming. |
| `RpcCallStuck` | violation | See section 6. |
| `RemoteMgr` | 62,655 | For an address that one service has used: load balancers equal the table, no missing load balancer is used, and a service that stays up is routed to in the end. Every entry has a reader. |
| `TcpServer` | 283,737 | A reader at work has its entry; the load balancer offers a connection without one only between the two deletes of its close (`EntryWhileUsed`); nothing is served after `Stop` returned, `Stop` returns unless a vertify overwrites the state it set. |
| `ReadLoop` | 50,431 | However reads cut the stream, the packets come out as they went in (`FramingExact`); a peer that answers is never given up, a dead one is. |
| `GateRoute` | 782,792 | At most one response per request, on whichever connection of the client's id is there when it comes; ordered requests routed one at a time keep to one instance while it is up. |
| `GateRouteSpread` | violation | See section 6. |
| `PushService` | 460,608 | Arrived means handled; a safe push that has not arrived is always on its way to a logged-in client (`NothingMissed`), and arrives if it stays logged in; both unless a call failed or a message of an earlier login took the entry in redis. |
| `EtcdDriver` | 23,850 | A lease that is kept holds the key; a running service is registered in the end; after `Stop` the key goes away. |

### Bounds

* `ClientTest`: 3 callbacks of 2 clients, adds in seconds 0 and 1, two different
  deadlines: an answer waits for the manager while the tick takes another callback and
  a third is added; insertion in front, behind and behind a hidden first node,
  deletion at both ends and in the middle, and of a node that is no longer linked. The
  clock stops at `MaxTime`, which stands for all later seconds. The theorems lift
  these bounds.
* `LoadBalancer`: 3 elements, 2 callers, 4 calls: a full round and more, copies
  longer and shorter than the set.
* `Process`: a service with two ordered requests and one that uses the database, of one
  connection and in one read or several, or a gate with a vertify, a login and a logoff of a
  client, in any order, and a route over a connection that it dialled. As a service gate
  it starts in state OK, as a client gate the client has to vertify (here with the right key; the theorem
  has wrong keys too). One worker beside the
  goroutine of `separateCh`, so that two tasks of a read run at once; readers may end and
  the signal come at any moment.
* `RpcCall`: 2 calls on 2 workers (both may wait, so that nobody is left to
  handle answers), one resend, one lost connection, rids modulo 4 so that the counter wraps.
* `RemoteMgr`: two services at one address, two concurrent handlers, three changes:
  start, stop and restart before the first event is handled. More addresses
  add no new interference: entries at different addresses share only the sets.
* `TcpServer`: 2 connections, 2 messages each, in one read or two: a vertify followed by a
  request, or a request by a vertify, while another connection is accepted and `Stop` runs.
* `GateRoute`: 4 requests, of which one unordered and one not allowed, 2 in flight,
  2 connections of the client, 3 losses or returns of an instance.
* `PushService`: one safe and one plain push, two connections, two logins, one failure: a
  push races a logoff, a reconnect and the restore of the second login.
* `ReadLoop`: bytes with two values, so that lengths need both bytes of the prefix, packets
  of 1 to 3 bytes that look like prefixes, a buffer that holds little more than one; idle
  times 2 (heartbeat) and 5 (dead) for 10 s and 20 s.
* `EtcdDriver`: 3 failed calls, 2 crashes: a registration fails at each of its calls.

Deadlock is not checked where the environment may stop: peers that send no more,
all calls made, bounds used up. Symmetry is used only in runs without liveness.

### Fairness

* Goroutines that can run do (weak fairness of readers, workers, the tick, the
  accept loop, handlers, test clients): the Go scheduler is preemptive.
* A `select` picks at random among ready cases, and senders that wait on a channel are
  served first come, first served: strong fairness of `CSelect`, `CSelectTick`,
  `PProduceTaskSeparate`, and of the manager in `RpcCall`.
* Timers come round: the clock, the read deadline, `LeaseWatch` and the periodic pull of
  `ServiceDiscover` (strong, since a bounded slot may be taken when they are due).
* etcd drops a lease that nobody renews.
* Of peers, clients, answers and failures nothing is assumed: they may come, or not, at any
  moment, within the bounds of a run. `ReadLoop` alone assumes something of a peer that is
  alive: that it answers a heartbeat in time (section 5).

## 4. Proofs

Checked by TLAPS (`tlapm M.tla`) for every value of the constants that meets the named
assumptions of the modules. The `USE` at the head of a proof module lists the provers
and allows them more time on a busy machine; no leaf needs more than a few seconds.
Components that are proved in one module share no variable: their specifications stay
apart (`EtcdSpec` and `LbSpec`, for example), and a theorem is about one of them.

* `PriorityQueueProofs`, `CallbackMgrProofs` - from `CbidAssumption` (finitely many calls),
  `WaitAssumption` and `TimeAssumption` (the clock outlasts every deadline): types,
  `ResolvedOnce`, `MapMatchesQueue`, `SizeDriftBounded`, `NeverEarly`,
  `TickLeavesOnlyFirst`, and `PromiseKept`: every behaviour is one of `CallbackSpec`.
  `PriorityQueueProofs` has the lemmas on `QueueAdd` and `QueueDel`: which nodes are in
  the list afterwards, none of them twice, `TailSorted` preserved. The index arithmetic is
  done for functions on `1..N` (`Inserted`, `InsertedInOrder`, `Removed`), where the
  provers are quick, and carried over to sequences by `SeqAsFunction`.
  None of the properties is inductive: that a callback is resolved once depends on who
  holds it. `CallbackInv(c)` ties the phases of the two callers of `c` to the map and the
  queue, and `TickInv` says what the tick knows about the last node between its steps.
  With them, whoever deletes the map entry is the only one to resolve the callback.
* The same two, linked list - from `NilAssumption`: `ListIsQueue`, for any number of nodes.
  `Linked` states what `Represents` says of a sequence by the index of each node. An insertion
  and a removal are the updates of the pointers that `queueAdd` and `queueDel`
  make (`Links`, `Unlinks`), and `InsertLinked` and `RemoveLinked` show that they keep
  `Linked` for the sequence with the node put in or taken out. `WalkStops` shows that
  the loop of `queueAdd` ends at the node before the position that `QueueAdd` computes:
  after `i` steps the cursor is `i` nodes behind the first, or at that node if it comes
  earlier, and the list is never longer than the walk (`Walk`, by induction with `UpTo`). A second
  `queueDel` of a node finds its pointers nil and is the identity on the list.
* `CallbackMgrProofs`, test clients - `ClientsUseManager`: a behaviour of the test clients
  is one of `CallbackMgr`, so that all its theorems hold of them; and `NoLateCount`, from
  `CountInv`: the counter is the number of callbacks that have run, so that it
  reaches the number of calls only when all of them have.
* `DispatchLemmas`, `DispatchProofs`, `ProcessProofs` - types, `SizeCounts`,
  `OrderedInOrder`, `SyncFirst`, `RefusedIffUnverified`, `DrainedOnExit` and
  `NoFalseSuccess`, for any number of connections, workers and requests. `DispatchInv`
  places each request: `StreamInv` says that wire, batch and what the reader is done with
  (`Sent`) are three successive pieces of what arrived on the connection, `PoolInv` that what was
  handed over, and not refused, is in one place only - queued, running or done -,
  `LastOrdered` that nothing ordered was handed over behind the ordered request that
  runs, `FailedInv` that an error stays in its `Session`. `ProcessInv` adds how far `Start` and
  `Stop` have come: accepted connections are closed once `Stop` has passed the
  server, the pool is empty once it has passed the pool. Its part `VerifyInv` ties the state of
  a connection to what was decoded on it: OK only after a vertify with the right key, and until `Stop`
  always after one (`StateInv`); what was decoded or refused, on the right side of that
  vertify (`CheckInv`). `DispatchLemmas` has the facts
  on sequences and cardinalities that each action needs, `DispatchProofs` one lemma per
  action of `Dispatch`, `ProcessProofs` the steps of the process and the theorems.
* `ServiceProofs`, load balancer - from `ElementAssumption` (fewer than 2^16 elements):
  types, `IndexInRange`, `Balanced` and `StaleOnlyIfDeleted`. `IdxInv` bounds `rrbIdx` by
  the number of elements, so the 16-bit increment cannot wrap. `RoundInv` says that the
  choices since the last change are `k` for some elements and `k + 1` for those between
  the start of the round and the index, in cyclic order; evenness follows. `StaleInv`
  follows the copy from the first critical section to the second: what is in it, and
  what was picked from it, is still an element or was deleted during the call.
* `ConnectionProofs`, etcd driver - from `EtcdAssumption`: `KeptHoldsKey`. `EtcdInv` adds
  that nothing is renewed between a new grant and `KeepAlive`, and that after the put the key is
  bound to the lease of the driver if that lease still lives; a put that reports an
  error may have taken effect, and is followed by a new grant.
* `RoutingProofs`, remote manager - from `RemoteAssumption`: types, `RoutedIsRead`,
  `LbMatchesRemotes`, `NeverPanics`. The invariant adds that every task, entry and
  key names a service that has run at its address (`NamesRan`), hence at an address of one service
  all of them name the same one and what `OnRemoteDisappear` removes from the table it
  also removes from the right load balancer.
* `RoutingProofs`, gate - from `RouteAssumption`: `AtMostOneResponse` and the action
  property `StickyWhileUp`, for any number of requests, instances and connections of the
  client. `ResponseInv`: a callback is registered only for a request that has had no
  response, and once. `ChosenInv`: a request that is to be sent has an instance to go
  to. `OrderInv` is about the requests that `ChoiceRemote` is routing. While
  no two ordered ones were routed at once (`AloneInv`), a request that is to be
  balanced has missed because nothing was routed before or the instance went away, and
  one that is to be sent holds what the cache holds (`RouteInv`); the cache is the last
  route as long as its instance is up.
* `RoutingProofs`, push service - from `PushAssumption`: types, `ArrivedMeansHandled`,
  `NothingMissed`. A reply exists only for what the client handled (`HandledInv`). For
  the second, `LoginInv` says where a login is while the client takes itself to be
  logged in and nothing has taken its entry: either the entry in redis is of this login and
  names this connection (`LoginRead`), or the login is still unread on the
  connection, with its restore right behind it (`LoginNext`). That is why a safe push whose
  lookup misses the client is found by the restore that follows. `NumberInv` is what this rests on:
  no message is under way of a login to come, nor a logoff of the present one, so that what
  removes or replaces the entry is of an earlier login, and the login counts as overtaken.
* `ServiceProofs`, TCP server - from `TcpAssumption`: types, `EntryWhileUsed`, `StopIsFinal`; the invariant
  orders the steps of the accept loop against the reader's and `Stop`'s: which
  phases allow an entry, that none is left once the loop has ended, and that the mutex is
  held from the one delete of a close to the other (`Locked`), so that `Stop` does not
  return in between.
* `ConnectionProofs`, reader - from `IdleAssumption`: `LivePeerKept`; `IdleInv` bounds the idle time by what reader and peer
  owe each other, a late first heartbeat after a long decoding included.
* `ConnectionProofs`, framing - from `SizeAssumption` (bytes of any width, packets of one
  byte to `MAX_PACKET_SIZE`, whose length fits into two bytes): the action property
  `FramingExact`, for packets of any content and reads of any size. Its
  inductive invariant `FrameInv` says that buffer and wire together are the encoding
  of the packets that were sent and not decoded. A packet that is sent adds its
  bytes at the end (`EncodedAppend`); what is left behind the first `n` packets is the
  encoding of the others (`EncodedRest`). The heart is `DecodePrefix`: of any first `L`
  bytes of an encoding `MessageDecode` returns the packets that are complete in them, and
  stops behind the last one. `TwoBytes` inverts the length prefix, `Complete` finds the last
  complete packet, `ReadFrame` says what the loop reads at the start of a packet, and the
  loop is followed from the last complete packet back to the first.
* `ServiceProofs`, synchronous call - from `RpcCallAssumption`: types, `SenderHasReceiver`
  and `EmptyOnlyIfDropped`, for any number of calls, workers, resends and lost connections. `RidInv` says that a rid belongs to one call and is referred to by
  nothing before `AddCallBack` enters it; that an entry which can be answered has a
  caller in front of its channel; and that whoever took the entry, the handler of an
  answer or the manager, is the only one to have taken it. After 2^32 ids one may belong to
  two calls, so `RidInv` and the property are about the time before (`~wrapped`).

`MessageDecode`, the encoding of a stream and the walk of `queueAdd` are recursive functions.
The induction theorems of the library are of no use to the provers here, so the proofs
go by the least counterexample: `UpTo` says that a set of naturals which has 0 and, with
`i - 1`, every `i` up to a bound, has all numbers up to it; its proof uses only that `<` is
well founded. That a recursive definition has the solution it describes is proved in the
same way, on ever larger domains (`FirstExists`, `FromExists`).

The lemmas on cardinalities in `CallbackMgrProofs` and `ServiceProofs` have what they use of
the theory of finite sets as a hypothesis (`FiniteSetFacts`). It is proved from the library at the
end of these modules, before the theorems that need it; no theorem assumes it.

Proved are all invariants and action properties of the runs that pass, and the refinement.
Only model-checked: all liveness properties (`TestEnds`, `ServedUnlessStopped`, `StopReturns`,
`EveryCallReturns`, `EventuallyRouted`, `StopTerminates`, `DeadPeerDropped`,
`SafePushArrives`, `EventuallyRegistered`, `StoppedIsGone`), which are beyond the
prover.

## 5. Properties that hold under a condition

Where the code keeps a promise only in part, the property names the part:

* `TickLeavesOnlyFirst`: a tick handles everything that is due except, possibly, the
  first node. That one is handled when it is the last one left; a later add goes behind it.
* `TestEnds`, `EveryCallReturns`: for finitely many calls. While calls keep coming the queue
  never shrinks to its first node, and the call of that node gets no timeout (section 6).
* `LivePeerKept`: the assumptions on the times (`IdleAssumption`) say what "alive" takes: an
  answer to a heartbeat within about 10 s, and a decoding that keeps the reader from
  its connection for no longer than 20 s less that delay (`Stall`). The code does not enforce
  it: a reader that waits at `separateCh` waits for an ordered handler of any connection,
  and one that calls `RpcCallSync` may take 33 s for each send.
* `StopReturns`: a gate whose pool still holds a logoff when the database is released
  panics in that task; and a vertify that is decoded after `Stop` has set the states takes that back. `DrainedOnExit` is about accepted connections: routes that
  come over dialled ones may be cut off at exit.
* `RpcCall`: `orphan` (a callback left by a failed send) and `wrapped` (`GenGid`
  reached 0, which means "no answer wanted").
* `RemoteMgr`: `Exclusive(a)`: one service only has used the address. When another
  service takes over an address whose entry is still there, its discovery finds
  the old entry, and the disappearance of either uses the other's load balancer. The model
  has these steps, the properties except them.
* `TcpServer`: `StopTerminates` excludes a vertify handler that sets the state to
  OK after `Stop` has set it to EXIT; that reader goes on and `Stop` waits for it.
* `StickyWhileUp`: excludes connections on which two ordered requests were routed at
  once (`mixed`).
* `NothingMissed`, `SafePushArrives`: except failed calls and a login that was overtaken. A
  logoff, which is a pool task, may run after the login that followed it and delete the
  new entry in redis. A login on an old connection may be read after the one on the new and put
  the old connection back. The record then waits for the next login (section 6).
* `NoFalseSuccess`: a `Session` is shared by all requests of one read, so a response may
  carry the error of another request of that read, and a request that succeeded be
  reported as failed. The property is about the reverse: a failure is not reported as
  a success.
* `RefusedIffUnverified`: until `Stop`. Afterwards `PreCheck` refuses what the last reads
  brought, since their connections are in state EXIT.

## 6. Where the code does not do what its documentation says

* `RpcCallStuck`, `CallersNeverBlock`. README.md:53 of the repository gives the
  purpose of the timeout queue: that the one who asks does not block. When
  `MessageSend` fails, `RpcCall` returns and leaves its callback registered
  (`msf_simple_rpc.go:325`). When that callback expires, `timeoutCb` sends on
  a channel from which nobody receives, in the manager's goroutine, and the manager stops; every
  later `AddCallBack` then waits for ever.
* `GateRouteSpread`, `SameInstance`. README.md:205 says the first route of a client's
  ordered requests is cached so that the later ones go to the same instance. Lookup
  and update are separate critical sections (`msf_remote_mgr.go:247`), so two requests
  that miss together may be sent to two instances.

Met on the way, and stated here without a run of its own:

* README.md:53 again: the first node of the timeout queue is never compared on insertion
  (`msf_callback_mgr_new.go:58`), so every later add goes behind it and, under steady traffic, no
  tick reaches it. A request whose callback it is, and whose answer is lost, stays blocked
  for as long as others keep coming. The models have this behaviour; liveness is stated for
  traffic that ends.
* README.md:197 says that a safe push is sure to arrive. With a late logoff or a late
  login (section 5) it does not, before the client logs in again. The models have
  both; `overtaken` excepts them.
* README.md:26 says that a packet starts with a length of 4 bytes; `MESSAGE_SIZE_LEN`, and
  `ReadLoop` with it, has 2.

## 7. Not modelled

* **msgpack and reflection**: a request is a value; framing is modelled in bytes.
* **`RpcCallAsync`**: registers no callback.
* **The drivers of redis and mongo**: only whether their clients exist.
* **Maps that are read without the lock of their writers** (`lbs`, `clients` in `RpcCall`,
  `gClientAccess`): each access is taken as atomic.
* **A failing etcd at start, the monitor of the task pool, configuration, log, profiling.**
* **`msf_callback_mgr.go`, `msf_task_pool.go`**: commented out in full.
* **Sample services**: users of the framework.
* **Reconnecting of the SDK**, which user code asks for, and its **read loop**: it hands what it
  reads to the same `MessageDecode`, without a read deadline and without sending
  heartbeats.
