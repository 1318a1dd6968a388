------------------------------ MODULE RemoteMgr -----------------------------
(***************************************************************************)
(* How a gate finds services: msf_etcd_driver.go (registration by the      *)
(* services; watch and periodic pull by the gate) and msf_remote_mgr.go    *)
(* (the table of connections, the load balancer of each service, one       *)
(* goroutine per etcd event, one reader per connection).                   *)
(*                                                                         *)
(* A key in etcd is a service and an address; the address alone is the     *)
(* connID.  A process that restarts at an address is a new incarnation.    *)
(***************************************************************************)
EXTENDS Naturals, FiniteSets

CONSTANTS Service,     \* REMOTE_IDs
          Addr,        \* ip:port, the CONN_IDs
          Runs,        \* which service may run at which address
          Slot,        \* bound: goroutines that handle events at one time
          MaxRetry,    \* 5: attempts of OnRemoteDiscover to connect
          MaxChanges,  \* bound: starts, stops and lease losses in all
          MaxFail,     \* bound: network failures
          NONE

ASSUME RemoteAssumption == /\ Runs \subseteq Service \X Addr
                           /\ MaxRetry \in Nat \ {0}
                           /\ MaxChanges \in Nat
                           /\ MaxFail \in Nat
                           /\ NONE \notin Service

(***************************************************************************)
(* A Remote: its number, service, address and the incarnation it reached.  *)
(***************************************************************************)
RemoteSet == [n : Nat, id : Service, addr : Addr, inc : Nat]

(***************************************************************************)
(* A goroutine: discover (check, dial, add) or disappear.                  *)
(***************************************************************************)
TaskSet == [pc : {"check", "dial", "add", "disappear"}, id : Service, addr : Addr,
            retryCnt : 0..MaxRetry, inc : Nat, pull : BOOLEAN]

IDLE == [pc |-> "idle"]

Discover(s, a, p) == [pc |-> "check", id |-> s, addr |-> a, retryCnt |-> MaxRetry,
                      inc |-> 0, pull |-> p]

Disappear(s, a) == [pc |-> "disappear", id |-> s, addr |-> a, retryCnt |-> 0,
                    inc |-> 0, pull |-> FALSE]

NoRemote == [n |-> 0]

VARIABLES proc, inc,      \* what runs at an address; how often something started there
          keys,           \* the keys in etcd
          ran,            \* the services that have run at an address so far
          task,           \* the goroutines started by watch and pull
          remotes, lbs,   \* RemoteMgr.remotes; the elements of RemoteMgr.lbs[s]
          made,           \* the services that have a LoadBalancer
          readers,        \* connections whose HandleRead runs
          broken,         \* numbers of connections the network has cut
          count,          \* connections so far
          changes, fails,
          crashed         \* a nil LoadBalancer was used

etcd == <<proc, inc, keys, ran>>

mgr == <<remotes, lbs, made, readers, count, crashed>>

vars == <<proc, inc, keys, ran, task, remotes, lbs, made, readers, broken, count,
          changes, fails, crashed>>

Init == /\ proc = [a \in Addr |-> NONE]
        /\ inc = [a \in Addr |-> 0]
        /\ keys = {}
        /\ ran = [a \in Addr |-> {}]
        /\ task = [g \in Slot |-> IDLE]
        /\ remotes = [a \in Addr |-> NoRemote]
        /\ lbs = [s \in Service |-> {}]
        /\ made = {}
        /\ readers = {}
        /\ broken = {}
        /\ count = 0
        /\ changes = 0
        /\ fails = 0
        /\ crashed = FALSE

Known(a) == remotes[a] # NoRemote

Change == /\ changes < MaxChanges
          /\ changes' = changes + 1

(***************************************************************************)
(* The watch starts a goroutine for an event.                              *)
(***************************************************************************)
Go(t) == \E g \in Slot : task[g] = IDLE /\ task' = [task EXCEPT ![g] = t]
-----------------------------------------------------------------------------
(***************************************************************************)
(* The services.  ServiceRegist is called at the start, and by LeaseWatch  *)
(* whenever the key is gone; the lease is lost when the process is, and    *)
(* may be when it is overloaded.                                           *)
(***************************************************************************)
StartService(s, a) ==
    /\ <<s, a>> \in Runs
    /\ proc[a] = NONE
    /\ Change
    /\ proc' = [proc EXCEPT ![a] = s]
    /\ inc' = [inc EXCEPT ![a] = @ + 1]
    /\ ran' = [ran EXCEPT ![a] = @ \cup {s}]
    /\ UNCHANGED <<keys, task, mgr, broken, fails>>

StopService(a) ==
    /\ proc[a] # NONE
    /\ Change
    /\ proc' = [proc EXCEPT ![a] = NONE]
    /\ UNCHANGED <<inc, keys, ran, task, mgr, broken, fails>>

ServiceRegist(a) ==
    /\ proc[a] # NONE
    /\ <<proc[a], a>> \notin keys
    /\ keys' = keys \cup {<<proc[a], a>>}
    /\ Go(Discover(proc[a], a, FALSE))
    /\ UNCHANGED <<proc, inc, ran, mgr, broken, changes, fails>>

LeaseExpires(s, a) ==
    /\ <<s, a>> \in keys
    /\ \/ proc[a] # s /\ UNCHANGED changes
       \/ proc[a] = s /\ Change
    /\ keys' = keys \ {<<s, a>>}
    /\ Go(Disappear(s, a))
    /\ UNCHANGED <<proc, inc, ran, mgr, broken, fails>>
-----------------------------------------------------------------------------
(***************************************************************************)
(* ServiceDiscover: every ten minutes a goroutine for every key.  Those of *)
(* the previous pull have ended by then.                                   *)
(***************************************************************************)
ServiceDiscover ==
    /\ ~crashed
    /\ \A g \in Slot : task[g] # IDLE => ~task[g].pull
    /\ \E f \in [keys -> {g \in Slot : task[g] = IDLE}] :
          /\ \A k, l \in keys : f[k] = f[l] => k = l
          /\ task' = [g \in Slot |->
                        IF \E k \in keys : f[k] = g
                        THEN LET k == CHOOSE k \in keys : f[k] = g
                             IN  Discover(k[1], k[2], TRUE)
                        ELSE task[g]]
    /\ UNCHANGED <<etcd, mgr, broken, changes, fails>>

(***************************************************************************)
(* OnRemoteDiscover: nothing to do for an address that is known; otherwise *)
(* connect, at most MaxRetry times.  Whatever listens there answers.       *)
(***************************************************************************)
Check(g) ==
    /\ task[g].pc = "check" /\ ~crashed
    /\ task' = [task EXCEPT ![g] = IF Known(@.addr) THEN IDLE
                                   ELSE [@ EXCEPT !.pc = "dial"]]
    /\ UNCHANGED <<etcd, mgr, broken, changes, fails>>

Retry(t) == IF t.retryCnt > 1 THEN [t EXCEPT !.retryCnt = t.retryCnt - 1] ELSE IDLE

Dial(g) ==
    /\ task[g].pc = "dial" /\ ~crashed
    /\ \/ /\ proc[task[g].addr] # NONE
          /\ task' = [task EXCEPT ![g].pc = "add", ![g].inc = inc[task[g].addr]]
          /\ UNCHANGED fails
       \/ /\ \/ proc[task[g].addr] = NONE /\ UNCHANGED fails
             \/ proc[task[g].addr] # NONE /\ fails < MaxFail /\ fails' = fails + 1
          /\ task' = [task EXCEPT ![g] = Retry(@)]
    /\ UNCHANGED <<etcd, mgr, broken, changes>>

(***************************************************************************)
(* The rest of ConnectRemote, under the lock.  The second early return     *)
(* keeps neither the connection nor an entry in remotes.                   *)
(***************************************************************************)
ConnectRemote(g) ==
    LET t == task[g]
        r == [n |-> count + 1, id |-> t.id, addr |-> t.addr, inc |-> t.inc]
    IN
    /\ t.pc = "add" /\ ~crashed
    /\ task' = [task EXCEPT ![g] = IDLE]
    /\ \/ /\ Known(t.addr)
          /\ UNCHANGED mgr
       \/ /\ ~Known(t.addr) /\ t.addr \in lbs[t.id]
          /\ UNCHANGED mgr
       \/ /\ ~Known(t.addr) /\ t.addr \notin lbs[t.id]
          /\ lbs' = [lbs EXCEPT ![t.id] = @ \cup {t.addr}]
          /\ made' = made \cup {t.id}
          /\ remotes' = [remotes EXCEPT ![t.addr] = r]
          /\ readers' = readers \cup {r}
          /\ count' = count + 1
          /\ UNCHANGED crashed
    /\ UNCHANGED <<etcd, broken, changes, fails>>

(* Faulty variant: the load balancer keeps the address. *)
OnRemoteDisappearKeepsLb(s, a) ==
    IF ~Known(a)
    THEN UNCHANGED <<remotes, lbs, crashed>>
    ELSE /\ remotes' = [remotes EXCEPT ![a] = NoRemote]
         /\ crashed' = (s \notin made)
         /\ UNCHANGED lbs

(* Faulty variant: the table keeps the address. *)
OnRemoteDisappearKeepsRemote(s, a) ==
    IF ~Known(a)
    THEN UNCHANGED <<remotes, lbs, crashed>>
    ELSE /\ lbs' = [lbs EXCEPT ![s] = @ \ {a}]
         /\ crashed' = (s \notin made)
         /\ UNCHANGED remotes

(* Faulty variant: the early return is missing. *)
OnRemoteDisappearUnasked(s, a) ==
    /\ remotes' = [remotes EXCEPT ![a] = NoRemote]
    /\ lbs' = [lbs EXCEPT ![s] = @ \ {a}]
    /\ crashed' = (s \notin made)

(***************************************************************************)
(* OnRemoteDisappear goes by the address: it removes whatever is known     *)
(* there, and the address from the load balancer of the given service.     *)
(***************************************************************************)
OnRemoteDisappear(s, a) ==
    IF ~Known(a)
    THEN UNCHANGED <<remotes, lbs, crashed>>
    ELSE /\ remotes' = [remotes EXCEPT ![a] = NoRemote]
         /\ lbs' = [lbs EXCEPT ![s] = @ \ {a}]
         /\ crashed' = (s \notin made)

DisappearTask(g) ==
    /\ task[g].pc = "disappear" /\ ~crashed
    /\ OnRemoteDisappear(task[g].id, task[g].addr)
    /\ task' = [task EXCEPT ![g] = IDLE]
    /\ UNCHANGED <<etcd, made, readers, count, broken, changes, fails>>
-----------------------------------------------------------------------------
(***************************************************************************)
(* The peer of r is gone, or the network between them.                     *)
(***************************************************************************)
Dead(r) == r.n \in broken \/ proc[r.addr] = NONE \/ inc[r.addr] # r.inc

Cut(r) ==
    /\ ~Dead(r)
    /\ fails < MaxFail
    /\ fails' = fails + 1
    /\ broken' = broken \cup {r.n}
    /\ UNCHANGED <<etcd, task, mgr, changes>>

(* Faulty variant: the deferred function is missing. *)
HandleReadEndsSilently(r) ==
    /\ Dead(r) /\ ~crashed
    /\ readers' = readers \ {r}
    /\ UNCHANGED <<etcd, task, remotes, lbs, made, count, broken, changes, fails, crashed>>

(***************************************************************************)
(* HandleRead ends, at once or after twenty seconds without a sign of      *)
(* life; its deferred function takes the address off the table.            *)
(***************************************************************************)
HandleReadEnds(r) ==
    /\ Dead(r) /\ ~crashed
    /\ readers' = readers \ {r}
    /\ OnRemoteDisappear(r.id, r.addr)
    /\ UNCHANGED <<etcd, task, made, count, broken, changes, fails>>

Step(g) == Check(g) \/ Dial(g) \/ ConnectRemote(g) \/ DisappearTask(g)

Next == \/ \E a \in Addr : \/ \E s \in Service : StartService(s, a) \/ LeaseExpires(s, a)
                           \/ StopService(a) \/ ServiceRegist(a)
        \/ ServiceDiscover
        \/ \E g \in Slot : Step(g)
        \/ \E r \in readers : Cut(r) \/ HandleReadEnds(r)

Spec == Init /\ [][Next]_vars

(***************************************************************************)
(* Goroutines run; a lease whose owner is gone expires; LeaseWatch and the *)
(* periodic pull come round; a reader finds out that its peer is gone.     *)
(***************************************************************************)
Fairness ==
    /\ WF_vars(\E g \in Slot : Step(g))
    /\ \A a \in Addr : /\ SF_vars(ServiceRegist(a))
                       /\ \A s \in Service : SF_vars(proc[a] # s /\ LeaseExpires(s, a))
    /\ SF_vars(ServiceDiscover)
    /\ WF_vars(\E r \in readers : HandleReadEnds(r))

FairSpec == Spec /\ Fairness
-----------------------------------------------------------------------------
TypeOK == /\ proc \in [Addr -> Service \cup {NONE}]
          /\ inc \in [Addr -> Nat]
          /\ keys \subseteq Service \X Addr
          /\ ran \in [Addr -> SUBSET Service]
          /\ task \in [Slot -> TaskSet \cup {IDLE}]
          /\ remotes \in [Addr -> RemoteSet \cup {NoRemote}]
          /\ lbs \in [Service -> SUBSET Addr]
          /\ made \subseteq Service
          /\ readers \subseteq RemoteSet
          /\ broken \subseteq Nat
          /\ count \in Nat /\ changes \in Nat /\ fails \in Nat
          /\ crashed \in BOOLEAN

(***************************************************************************)
(* No two services have run at address a.  The code identifies a           *)
(* connection by its address alone, and relies on this.                    *)
(***************************************************************************)
Exclusive(a) == \A s, t \in ran[a] : s = t

(***************************************************************************)
(* The load balancer of a service offers exactly the connections that the  *)
(* table holds for it, also when other addresses have been taken over by   *)
(* another service.  So GetRemote misses what LoadBalance offered only     *)
(* when the connection went between the two calls.                         *)
(***************************************************************************)
LbMatchesRemotes ==
    \A s \in Service, a \in Addr :
        Exclusive(a) => (a \in lbs[s] <=> Known(a) /\ remotes[a].id = s)

(***************************************************************************)
(* Every connection that requests may be routed to has its own reader      *)
(* running, which will notice when it dies and receives its responses.     *)
(***************************************************************************)
RoutedIsRead ==
    \A a \in Addr : Known(a) => remotes[a] \in readers /\ remotes[a].addr = a

(***************************************************************************)
(* OnRemoteDisappear never meets a service without a load balancer, unless *)
(* a service has taken over the address of another.                        *)
(***************************************************************************)
NeverPanics == crashed => \E a \in Addr : ~Exclusive(a)

(***************************************************************************)
(* Each piece of state of the gate names a service that has run at the     *)
(* address it names, and the services in the table have load balancers.    *)
(* With that, the three invariants above are inductive.                    *)
(***************************************************************************)
NamesRan ==
    /\ \A a \in Addr : proc[a] # NONE => proc[a] \in ran[a]
    /\ \A k \in keys : k[1] \in ran[k[2]]
    /\ \A g \in Slot : task[g] # IDLE => task[g].id \in ran[task[g].addr]
    /\ \A a \in Addr : Known(a) => remotes[a].id \in ran[a] \cap made
    /\ \A r \in readers : r.id \in ran[r.addr]

Inv == TypeOK /\ NamesRan /\ LbMatchesRemotes /\ RoutedIsRead /\ NeverPanics

(***************************************************************************)
(* A service that stays up ends up in the table of the gate, for good, on  *)
(* a connection that works, whatever order the goroutines ran in; if no    *)
(* service takes over the address of another.                              *)
(***************************************************************************)
Routed(s, a) == a \in lbs[s] /\ Known(a) /\ ~Dead(remotes[a]) /\ remotes[a].id = s

EventuallyRouted ==
    \A k \in Runs :
        <>[](proc[k[2]] = k[1] /\ \A a \in Addr : Exclusive(a)) => <>[]Routed(k[1], k[2])
=============================================================================
