---------------------------- MODULE RoutingProofs ---------------------------
(***************************************************************************)
(* Proofs about what a gate knows of the services and what it does for its *)
(* clients: RemoteMgr for any services, addresses, goroutines and          *)
(* failures, GateRoute for any number of requests, instances and           *)
(* reconnections, PushService for any messages, connections, logins and    *)
(* failures.                                                               *)
(***************************************************************************)
EXTENDS RemoteMgr, GateRoute, PushService, TLAPS

USE ZenonT(5), SMTT(60), SMTT(90)

(***************************************************************************)
(* The table of a gate is sound at every address that no two services have *)
(* used.                                                                   *)
(***************************************************************************)
USE RemoteAssumption

(***************************************************************************)
(* A goroutine's record, and a connection, are told from their absence by  *)
(* one field.                                                              *)
(***************************************************************************)
LEMMA TaskFields ==
    ASSUME NEW t \in TaskSet
    PROVE  /\ t # IDLE /\ t.pc # "idle" /\ t.id \in Service /\ t.addr \in Addr
           /\ t.inc \in Nat /\ t.retryCnt \in 0..MaxRetry
           /\ [t EXCEPT !.pc = "dial"] \in TaskSet
           /\ [t EXCEPT !.pc = "dial"].id = t.id
           /\ [t EXCEPT !.pc = "dial"].addr = t.addr
  BY SMTT(30) DEF TaskSet, IDLE

LEMMA RemoteFields ==
    ASSUME NEW r \in RemoteSet
    PROVE  r.id \in Service /\ r.addr \in Addr /\ r.inc \in Nat /\ r.n \in Nat
  BY DEF RemoteSet

LEMMA NewTasks ==
    ASSUME NEW s \in Service, NEW a \in Addr
    PROVE  /\ Discover(s, a, FALSE) \in TaskSet /\ Discover(s, a, TRUE) \in TaskSet
           /\ Discover(s, a, FALSE).id = s /\ Discover(s, a, FALSE).addr = a
           /\ Discover(s, a, TRUE).id = s /\ Discover(s, a, TRUE).addr = a
           /\ Disappear(s, a) \in TaskSet
           /\ Disappear(s, a).id = s /\ Disappear(s, a).addr = a
  BY DEF Discover, Disappear, TaskSet

(***************************************************************************)
(* A goroutine started for a service that has run keeps task in order.     *)
(***************************************************************************)
LEMMA GoKeeps ==
    ASSUME TypeOK, NamesRan, NEW t \in TaskSet, t.id \in ran[t.addr], Go(t)
    PROVE  /\ task' \in [Slot -> TaskSet \cup {IDLE}]
           /\ \A g \in Slot : task'[g] # IDLE => task'[g].id \in ran[task'[g].addr]
  BY SMTT(30) DEF Go, TypeOK, NamesRan

LEMMA InitInv == Init => Inv
  <1>. SUFFICES ASSUME Init PROVE Inv
    OBVIOUS
  <1>1. TypeOK
    BY ZenonT(60) DEF Init, TypeOK
  <1>2. \A a \in Addr : ~Known(a)
    BY DEF Init, Known
  <1>3. NamesRan
    BY <1>2 DEF Init, NamesRan
  <1>4. LbMatchesRemotes /\ RoutedIsRead /\ NeverPanics
    BY <1>2 DEF Init, LbMatchesRemotes, RoutedIsRead, NeverPanics
  <1>. QED
    BY <1>1, <1>3, <1>4 DEF Inv

(***************************************************************************)
(* Whatever leaves the gate's table alone, and keeps processes, keys and   *)
(* goroutines in order, keeps the invariant.                               *)
(***************************************************************************)
LEMMA TableUnchanged ==
    ASSUME Inv, UNCHANGED mgr,
           proc' \in [Addr -> Service \cup {NONE}], inc' \in [Addr -> Nat],
           keys' \subseteq Service \X Addr, task' \in [Slot -> TaskSet \cup {IDLE}],
           broken' \subseteq Nat, changes' \in Nat, fails' \in Nat,
           ran' \in [Addr -> SUBSET Service], \A a \in Addr : ran[a] \subseteq ran'[a],
           \A a \in Addr : proc'[a] # NONE => proc'[a] \in ran'[a],
           \A k \in keys' : k[1] \in ran'[k[2]],
           \A g \in Slot : task'[g] # IDLE => task'[g].id \in ran'[task'[g].addr]
    PROVE  Inv'
  <1>. USE DEF Inv, mgr
  <1>1. TypeOK'
    BY DEF TypeOK
  <1>2. \A r \in RemoteSet : r.addr \in Addr
    BY RemoteFields
  <1>3. NamesRan'
    BY <1>2 DEF TypeOK, NamesRan, Known
  <1>4. \A a \in Addr : Exclusive(a)' => Exclusive(a)
    BY DEF Exclusive
  <1>5. LbMatchesRemotes' /\ RoutedIsRead' /\ NeverPanics'
    BY <1>4 DEF LbMatchesRemotes, RoutedIsRead, NeverPanics, Known
  <1>. QED
    BY <1>1, <1>3, <1>5

LEMMA ServiceSteps ==
    ASSUME Inv, NEW a \in Addr, NEW s \in Service,
           \/ StartService(s, a) \/ StopService(a) \/ ServiceRegist(a) \/ LeaseExpires(s, a)
    PROVE  Inv'
  <1>. USE DEF Inv
  <1>k. \A k \in keys : k[2] \in Addr
    BY DEF TypeOK
  <1>t. \A t \in TaskSet : t.addr \in Addr
    BY TaskFields, ZenonT(60)
  <1>1. CASE StartService(s, a)
    <2>1. /\ ran' \in [Addr -> SUBSET Service] /\ \A b \in Addr : ran[b] \subseteq ran'[b]
          /\ s \in ran'[a]
      BY <1>1 DEF StartService, TypeOK
    <2>2. /\ proc' \in [Addr -> Service \cup {NONE}] /\ inc' \in [Addr -> Nat]
          /\ changes' \in Nat
      BY <1>1, SMTT(30) DEF StartService, Change, TypeOK
    <2>3. \A b \in Addr : proc'[b] # NONE => proc'[b] \in ran'[b]
      BY <1>1, <2>1 DEF StartService, TypeOK, NamesRan
    <2>4. /\ \A k \in keys' : k[1] \in ran'[k[2]]
          /\ \A g \in Slot : task'[g] # IDLE => task'[g].id \in ran'[task'[g].addr]
      BY <1>1, <1>k, <1>t, <2>1 DEF StartService, TypeOK, NamesRan
    <2>5. /\ UNCHANGED mgr /\ keys' \subseteq Service \X Addr
          /\ task' \in [Slot -> TaskSet \cup {IDLE}]
          /\ broken' \subseteq Nat /\ fails' \in Nat
      BY <1>1 DEF StartService, TypeOK
    <2>. QED
      BY <2>1, <2>2, <2>3, <2>4, <2>5, TableUnchanged
  <1>2. CASE StopService(a)
    <2>1. changes' \in Nat
      BY <1>2, SMTT(30) DEF StopService, Change, TypeOK
    <2>2. /\ proc' \in [Addr -> Service \cup {NONE}]
          /\ \A b \in Addr : proc'[b] # NONE => proc'[b] \in ran[b]
      BY <1>2 DEF StopService, TypeOK, NamesRan
    <2>3. UNCHANGED <<inc, keys, ran, task, mgr, broken, fails>>
      BY <1>2 DEF StopService
    <2>. QED
      BY <2>1, <2>2, <2>3, TableUnchanged DEF TypeOK, NamesRan
  <1>3. CASE ServiceRegist(a)
    <2>1. proc[a] \in Service /\ proc[a] \in ran[a] /\ UNCHANGED ran
      BY <1>3 DEF ServiceRegist, TypeOK, NamesRan
    <2>. PICK t : t = Discover(proc[a], a, FALSE)
      BY ZenonT(60)
    <2>2. t \in TaskSet /\ t.id = proc[a] /\ t.addr = a /\ Go(t)
      BY <1>3, <2>1, NewTasks, ZenonT(60) DEF ServiceRegist
    <2>3. /\ task' \in [Slot -> TaskSet \cup {IDLE}]
          /\ \A g \in Slot : task'[g] # IDLE => task'[g].id \in ran[task'[g].addr]
      BY <2>1, <2>2, GoKeeps, ZenonT(60)
    <2>4. keys' \subseteq Service \X Addr /\ \A k \in keys' : k[1] \in ran[k[2]]
      BY <1>3, <2>1, SMTT(30) DEF ServiceRegist, TypeOK, NamesRan
    <2>5. UNCHANGED <<proc, inc, ran, mgr, broken, changes, fails>>
      BY <1>3 DEF ServiceRegist
    <2>. QED
      BY <2>3, <2>4, <2>5, TableUnchanged DEF TypeOK, NamesRan
  <1>4. CASE LeaseExpires(s, a)
    <2>1. s \in ran[a] /\ UNCHANGED ran
      BY <1>4 DEF LeaseExpires, NamesRan
    <2>. PICK t : t = Disappear(s, a)
      OBVIOUS
    <2>2. t \in TaskSet /\ t.id = s /\ t.addr = a /\ Go(t)
      BY <1>4, NewTasks, ZenonT(60) DEF LeaseExpires
    <2>3. /\ task' \in [Slot -> TaskSet \cup {IDLE}]
          /\ \A g \in Slot : task'[g] # IDLE => task'[g].id \in ran[task'[g].addr]
      BY <2>1, <2>2, GoKeeps
    <2>4. changes' \in Nat
      BY <1>4, SMTT(30) DEF LeaseExpires, Change, TypeOK
    <2>5. UNCHANGED <<proc, inc, ran, mgr, broken, fails>> /\ keys' \subseteq keys
      BY <1>4 DEF LeaseExpires
    <2>. QED
      BY <2>3, <2>4, <2>5, TableUnchanged DEF TypeOK, NamesRan
  <1>. QED
    BY <1>1, <1>2, <1>3, <1>4

LEMMA PullStep ==
    ASSUME Inv, ServiceDiscover
    PROVE  Inv'
  <1>. USE DEF Inv
  <1>1. PICK f \in [keys -> {g \in Slot : task[g] = IDLE}] :
           task' = [g \in Slot |->
                      IF \E k \in keys : f[k] = g
                      THEN LET k == CHOOSE k \in keys : f[k] = g
                           IN  Discover(k[1], k[2], TRUE)
                      ELSE task[g]]
    BY ZenonT(60) DEF ServiceDiscover
  <1>2. ASSUME NEW g \in Slot
        PROVE  /\ task'[g] \in TaskSet \cup {IDLE}
               /\ task'[g] # IDLE => task'[g].id \in ran[task'[g].addr]
    <2>1. CASE \E k \in keys : f[k] = g
      <3>1. PICK k : k = CHOOSE x \in keys : f[x] = g
        OBVIOUS
      <3>2. k \in keys /\ task'[g] = Discover(k[1], k[2], TRUE)
        BY <1>1, <2>1, <3>1, ZenonT(60)
      <3>3. k[1] \in Service /\ k[2] \in Addr /\ k[1] \in ran[k[2]]
        BY <3>2 DEF TypeOK, NamesRan
      <3>. PICK t : t = Discover(k[1], k[2], TRUE)
        BY ZenonT(60)
      <3>4. t \in TaskSet /\ t.id = k[1] /\ t.addr = k[2]
        BY <3>3, SMTT(30) DEF Discover, TaskSet
      <3>. QED
        BY <3>2, <3>3, <3>4, ZenonT(60)
    <2>2. CASE ~ \E k \in keys : f[k] = g
      BY <1>1, <2>2 DEF TypeOK, NamesRan
    <2>. QED
      BY <2>1, <2>2
  <1>3. task' \in [Slot -> TaskSet \cup {IDLE}]
    BY <1>1, <1>2, ZenonT(60)
  <1>. QED
    BY <1>2, <1>3, TableUnchanged, ZenonT(60) DEF ServiceDiscover, etcd, TypeOK, NamesRan

LEMMA LookSteps ==
    ASSUME Inv, NEW g \in Slot, Check(g) \/ Dial(g)
    PROVE  Inv'
  <1>. USE DEF Inv
  <1>. PICK t : t = task[g]
    OBVIOUS
  <1>1. t.pc \in {"check", "dial"}
    BY DEF Check, Dial
  <1>2. t \in TaskSet /\ t.id \in ran[t.addr]
    BY <1>1, SMTT(30) DEF TypeOK, NamesRan, IDLE
  <1>3. PICK u \in TaskSet \cup {IDLE} :
           /\ task' = [task EXCEPT ![g] = u]
           /\ u # IDLE => u.id = t.id /\ u.addr = t.addr
    <2>1. CASE Check(g)
      <3>1. CASE Known(t.addr)
        BY <2>1, <3>1, ZenonT(60) DEF Check
      <3>2. CASE ~Known(t.addr)
        BY <2>1, <3>2, <1>2, TaskFields, ZenonT(60) DEF Check
      <3>. QED
        BY <3>1, <3>2
    <2>2. CASE Dial(g)
      <3>1. CASE task' = [task EXCEPT ![g].pc = "add", ![g].inc = inc[task[g].addr]]
        <4>. PICK u : u = [t EXCEPT !.pc = "add", !.inc = inc[t.addr]]
          OBVIOUS
        <4>1. t.addr \in Addr /\ inc[t.addr] \in Nat
          BY <1>2, TaskFields, ZenonT(60) DEF TypeOK
        <4>2. u \in TaskSet /\ u.id = t.id /\ u.addr = t.addr
          BY <1>2, <4>1, ZenonT(60) DEF TaskSet
        <4>3. task' = [task EXCEPT ![g] = u]
          BY <3>1, ZenonT(60) DEF TypeOK
        <4>. QED
          BY <4>2, <4>3, ZenonT(60)
      <3>2. CASE task' = [task EXCEPT ![g] = Retry(@)]
        <4>. PICK u : u = Retry(t)
          OBVIOUS
        <4>1. u \in TaskSet \cup {IDLE} /\ (u # IDLE => u.id = t.id /\ u.addr = t.addr)
          BY <1>2, SMTT(30) DEF Retry, TaskSet
        <4>. QED
          BY <3>2, <4>1, ZenonT(60)
      <3>. QED
        BY <2>2, <3>1, <3>2 DEF Dial
    <2>. QED
      BY <2>1, <2>2
  <1>4. /\ task' \in [Slot -> TaskSet \cup {IDLE}]
        /\ \A h \in Slot : task'[h] # IDLE => task'[h].id \in ran[task'[h].addr]
    BY <1>2, <1>3 DEF TypeOK, NamesRan
  <1>5. fails' \in Nat
    BY SMTT(30) DEF Check, Dial, TypeOK
  <1>. QED
    BY <1>4, <1>5, TableUnchanged DEF Check, Dial, etcd, TypeOK, NamesRan

(***************************************************************************)
(* A connection is added only where none is known, so the two tables grow  *)
(* together.                                                               *)
(***************************************************************************)
LEMMA AddStep ==
    ASSUME Inv, NEW g \in Slot, ConnectRemote(g)
    PROVE  Inv'
  <1>. USE DEF Inv
  <1>. PICK t : t = task[g]
    OBVIOUS
  <1>1. t \in TaskSet /\ t.id \in ran[t.addr]
    BY SMTT(30) DEF ConnectRemote, TypeOK, NamesRan, IDLE
  <1>2. t.id \in Service /\ t.addr \in Addr /\ t.inc \in Nat
    BY <1>1, TaskFields, ZenonT(60)
  <1>3. /\ task' \in [Slot -> TaskSet \cup {IDLE}]
        /\ \A h \in Slot : task'[h] # IDLE => task'[h].id \in ran[task'[h].addr]
    <2>1. task' = [task EXCEPT ![g] = IDLE]
      BY ZenonT(60) DEF ConnectRemote
    <2>. QED
      BY <2>1 DEF TypeOK, NamesRan
  <1>4. CASE UNCHANGED mgr
    BY <1>3, <1>4, TableUnchanged DEF ConnectRemote, etcd, TypeOK, NamesRan
  <1>5. CASE ~UNCHANGED mgr
    <2>. PICK r : r = [n |-> count + 1, id |-> t.id, addr |-> t.addr, inc |-> t.inc]
      BY ZenonT(60)
    <2>1. /\ ~Known(t.addr) /\ t.addr \notin lbs[t.id]
          /\ lbs' = [lbs EXCEPT ![t.id] = @ \cup {t.addr}]
          /\ made' = made \cup {t.id}
          /\ remotes' = [remotes EXCEPT ![t.addr] = r]
          /\ readers' = readers \cup {r}
          /\ count' = count + 1
          /\ UNCHANGED <<etcd, broken, changes, fails, crashed>>
      BY <1>5, ZenonT(60) DEF ConnectRemote, mgr
    <2>2. /\ r \in RemoteSet /\ r # NoRemote
          /\ r.id = t.id /\ r.addr = t.addr
      BY <1>2, SMTT(30) DEF TypeOK, RemoteSet, NoRemote
    <2>3. TypeOK'
      BY <1>2, <1>3, <2>1, <2>2, SMTT(30) DEF TypeOK, etcd
    <2>4. \A a \in Addr : remotes'[a] = IF a = t.addr THEN r ELSE remotes[a]
      BY <1>2, <2>1 DEF TypeOK
    <2>5. NamesRan'
      BY <1>1, <1>2, <1>3, <2>1, <2>2, <2>4, SMTT(30) DEF NamesRan, Known, etcd
    <2>6. RoutedIsRead' /\ NeverPanics'
      BY <2>1, <2>2, <2>4, SMTT(30) DEF RoutedIsRead, NeverPanics, Known, Exclusive, etcd
    <2>7. LbMatchesRemotes'
      <3>. SUFFICES ASSUME NEW s \in Service, NEW a \in Addr,
                           Exclusive(a)
                    PROVE  a \in lbs'[s] <=> remotes'[a] # NoRemote /\ remotes'[a].id = s
        BY <2>1, SMTT(30) DEF LbMatchesRemotes, Known, Exclusive, etcd
      <3>1. a \in lbs[s] <=> remotes[a] # NoRemote /\ remotes[a].id = s
        BY DEF LbMatchesRemotes, Known
      <3>2. lbs'[s] = IF s = t.id THEN lbs[s] \cup {t.addr} ELSE lbs[s]
        BY <2>1, ZenonT(60) DEF TypeOK
      <3>3. remotes[t.addr] = NoRemote
        BY <2>1 DEF Known
      <3>4. CASE a = t.addr
        BY <2>2, <2>4, <3>1, <3>2, <3>3, <3>4, SMTT(30)
      <3>5. CASE a # t.addr
        BY <2>4, <3>1, <3>2, <3>5
      <3>. QED
        BY <3>4, <3>5
    <2>. QED
      BY <2>3, <2>5, <2>6, <2>7
  <1>. QED
    BY <1>4, <1>5

(***************************************************************************)
(* OnRemoteDisappear for a service that has run at the address: if no      *)
(* other has, it is the service of whatever is known there, so both tables *)
(* lose the same entry and the load balancer is there.                     *)
(***************************************************************************)
LEMMA DisappearKeeps ==
    ASSUME Inv, NEW s \in Service, NEW a \in Addr, s \in ran[a], ~crashed, UNCHANGED ran,
           OnRemoteDisappear(s, a)
    PROVE  /\ remotes' \in [Addr -> RemoteSet \cup {NoRemote}]
           /\ lbs' \in [Service -> SUBSET Addr]
           /\ crashed' \in BOOLEAN
           /\ \A b \in Addr : remotes'[b] # NoRemote => remotes'[b] = remotes[b]
           /\ remotes'[a] = NoRemote
           /\ LbMatchesRemotes' /\ NeverPanics'
  <1>. USE DEF Inv
  <1>1. CASE ~Known(a)
    BY <1>1, SMTT(30) DEF OnRemoteDisappear, TypeOK, NeverPanics, LbMatchesRemotes, Known, Exclusive
  <1>2. CASE Known(a)
    <2>1. remotes[a].id \in ran[a] /\ remotes[a].id \in made
      BY <1>2 DEF NamesRan
    <2>2. /\ remotes' = [remotes EXCEPT ![a] = NoRemote]
          /\ lbs' = [lbs EXCEPT ![s] = @ \ {a}]
          /\ crashed' = (s \notin made)
      BY <1>2 DEF OnRemoteDisappear
    <2>3. \A b \in Addr : remotes'[b] = IF b = a THEN NoRemote ELSE remotes[b]
      BY <2>2 DEF TypeOK
    <2>4. LbMatchesRemotes'
      <3>. SUFFICES ASSUME NEW u \in Service, NEW b \in Addr, Exclusive(b)
                    PROVE  b \in lbs'[u] <=> remotes'[b] # NoRemote /\ remotes'[b].id = u
        BY SMTT(30) DEF LbMatchesRemotes, Known, Exclusive
      <3>1. b \in lbs[u] <=> remotes[b] # NoRemote /\ remotes[b].id = u
        BY DEF LbMatchesRemotes, Known
      <3>2. lbs'[u] = IF u = s THEN lbs[u] \ {a} ELSE lbs[u]
        BY <2>2, ZenonT(60) DEF TypeOK
      <3>3. b = a => remotes[a].id = s
        BY <2>1 DEF Exclusive
      <3>. QED
        BY <2>3, <3>1, <3>2, <3>3
    <2>5. NeverPanics'
      <3>. SUFFICES ASSUME s \notin made
                    PROVE  \E b \in Addr : ~Exclusive(b)'
        BY <2>2, ZenonT(60) DEF NeverPanics
      <3>1. s # remotes[a].id /\ s \in ran'[a] /\ remotes[a].id \in ran'[a]
        BY <2>1
      <3>. QED
        BY <3>1 DEF Exclusive
    <2>. QED
      BY <2>2, <2>3, <2>4, <2>5 DEF TypeOK
  <1>. QED
    BY <1>1, <1>2

LEMMA RemoveSteps ==
    ASSUME Inv,
           \/ \E g \in Slot : DisappearTask(g)
           \/ \E r \in readers : HandleReadEnds(r)
    PROVE  Inv'
  <1>. USE DEF Inv
  <1>1. ASSUME NEW g \in Slot, DisappearTask(g)
        PROVE  Inv'
    <2>. PICK t : t = task[g]
      OBVIOUS
    <2>1. t \in TaskSet /\ t.id \in ran[t.addr] /\ OnRemoteDisappear(t.id, t.addr)
      BY <1>1, SMTT(30) DEF DisappearTask, TypeOK, NamesRan, IDLE
    <2>2. t.id \in Service /\ t.addr \in Addr
      BY <2>1, TaskFields, ZenonT(60)
    <2>3. /\ remotes' \in [Addr -> RemoteSet \cup {NoRemote}]
          /\ lbs' \in [Service -> SUBSET Addr]
          /\ crashed' \in BOOLEAN
          /\ \A b \in Addr : remotes'[b] # NoRemote => remotes'[b] = remotes[b]
          /\ LbMatchesRemotes' /\ NeverPanics'
      BY <1>1, <2>1, <2>2, DisappearKeeps DEF DisappearTask, etcd
    <2>4. /\ task' \in [Slot -> TaskSet \cup {IDLE}]
          /\ \A h \in Slot : task'[h] # IDLE => task'[h].id \in ran[task'[h].addr]
      BY <1>1 DEF DisappearTask, TypeOK, NamesRan
    <2>5. UNCHANGED <<proc, inc, keys, ran, made, readers, count, broken, changes, fails>>
      BY <1>1 DEF DisappearTask, etcd
    <2>6. TypeOK'
      BY <2>3, <2>4, <2>5 DEF TypeOK
    <2>7. NamesRan' /\ RoutedIsRead'
      BY <2>3, <2>4, <2>5 DEF NamesRan, RoutedIsRead, Known
    <2>. QED
      BY <2>3, <2>6, <2>7
  <1>2. ASSUME NEW r \in readers, HandleReadEnds(r)
        PROVE  Inv'
    <2>1. r.id \in Service /\ r.addr \in Addr /\ r.id \in ran[r.addr]
      BY RemoteFields DEF TypeOK, NamesRan
    <2>2. /\ remotes' \in [Addr -> RemoteSet \cup {NoRemote}]
          /\ lbs' \in [Service -> SUBSET Addr]
          /\ crashed' \in BOOLEAN
          /\ \A b \in Addr : remotes'[b] # NoRemote => remotes'[b] = remotes[b]
          /\ remotes'[r.addr] = NoRemote
          /\ LbMatchesRemotes' /\ NeverPanics'
      BY <1>2, <2>1, DisappearKeeps DEF HandleReadEnds, etcd
    <2>3. /\ UNCHANGED <<proc, inc, keys, ran, task, made, count, broken, changes, fails>>
          /\ readers' = readers \ {r}
      BY <1>2 DEF HandleReadEnds, etcd
    <2>4. TypeOK'
      BY <2>2, <2>3 DEF TypeOK
    <2>5. NamesRan'
      BY <2>2, <2>3 DEF NamesRan, Known
    <2>6. RoutedIsRead'
      BY <2>2, <2>3 DEF RoutedIsRead, Known
    <2>. QED
      BY <2>2, <2>4, <2>5, <2>6
  <1>. QED
    BY <1>1, <1>2

LEMMA NextInv == Inv /\ [Next]_vars => Inv'
  <1>. SUFFICES ASSUME Inv, [Next]_vars
                PROVE  Inv'
    OBVIOUS
  <1>1. ASSUME NEW r \in readers, Cut(r)
        PROVE  Inv'
    <2>1. r.n \in Nat
      BY RemoteFields DEF Inv, TypeOK
    <2>2. broken \subseteq Nat /\ fails \in Nat /\ broken' = broken \cup {r.n}
          /\ fails' = fails + 1
      BY <1>1 DEF Cut, Inv, TypeOK
    <2>3. broken' \subseteq Nat
      BY <2>1, <2>2, ZenonT(60)
    <2>4. fails' \in Nat
      BY <2>2, SMTT(30)
    <2>. QED
      BY <1>1, <2>3, <2>4, TableUnchanged, ZenonT(60) DEF Cut, etcd, Inv, TypeOK, NamesRan
  <1>2. CASE UNCHANGED vars
    BY <1>2, TableUnchanged, ZenonT(60) DEF vars, mgr, Inv, TypeOK, NamesRan
  <1>3. ASSUME NEW g \in Slot, Step(g)
        PROVE  Inv'
    BY <1>3, LookSteps, AddStep, RemoveSteps DEF Step
  <1>4. ASSUME NEW a \in Addr,
               \/ \E s \in Service : StartService(s, a) \/ LeaseExpires(s, a)
               \/ StopService(a) \/ ServiceRegist(a)
        PROVE  Inv'
    <2>1. CASE \E s \in Service : StartService(s, a) \/ LeaseExpires(s, a)
      BY <2>1, ServiceSteps
    <2>2. CASE StopService(a) \/ ServiceRegist(a)
      <3>1. PICK s : s = proc[a]
        OBVIOUS
      <3>2. s \in Service
        BY <2>2, <3>1, ZenonT(60) DEF StopService, ServiceRegist, Inv, TypeOK
      <3>. QED
        BY <2>2, <3>2, ServiceSteps
    <2>. QED
      BY <1>4, <2>1, <2>2
  <1>. QED
    BY <1>1, <1>2, <1>3, <1>4, PullStep, RemoveSteps DEF Next
-----------------------------------------------------------------------------
(***************************************************************************)
(* The inductive invariant of a gate's table.                              *)
(***************************************************************************)
THEOREM InvHolds ==
    Spec => []Inv
  <1>1. Init => Inv
    BY InitInv
  <1>2. Inv /\ [Next]_vars => Inv'
    BY NextInv
  <1>. QED
    BY <1>1, <1>2, PTL DEF Spec

(***************************************************************************)
(* Type correctness of the gate's table, its goroutines and readers.       *)
(***************************************************************************)
THEOREM TypeCorrect ==
    Spec => []TypeOK
  <1>1. Inv => TypeOK
    BY DEF Inv
  <1>. QED
    BY <1>1, InvHolds, PTL

(***************************************************************************)
(* What the load balancers offer is exactly what the table holds, at every *)
(* address that was used by one service only.                              *)
(***************************************************************************)
THEOREM LbMatchesRemotesHolds ==
    Spec => []LbMatchesRemotes
  <1>1. Inv => LbMatchesRemotes
    BY DEF Inv
  <1>. QED
    BY <1>1, InvHolds, PTL

(***************************************************************************)
(* Every connection in the table has its reader.                           *)
(***************************************************************************)
THEOREM RoutedIsReadHolds ==
    Spec => []RoutedIsRead
  <1>1. Inv => RoutedIsRead
    BY DEF Inv
  <1>. QED
    BY <1>1, InvHolds, PTL

(***************************************************************************)
(* OnRemoteDisappear never uses a load balancer that was not made, unless  *)
(* some address was used by two services.                                  *)
(***************************************************************************)
THEOREM NeverPanicsHolds ==
    Spec => []NeverPanics
  <1>1. Inv => NeverPanics
    BY DEF Inv
  <1>. QED
    BY <1>1, InvHolds, PTL

HIDE RemoteAssumption
-----------------------------------------------------------------------------
(***************************************************************************)
(* The routes of requests, and their responses.                            *)
(***************************************************************************)
(* "new" to "add": the request has no callback yet. *)
Early == {"new", "permit", "cache", "forget", "balance", "find", "keep", "add"}

(***************************************************************************)
(* A request gets one response at most, and none while its callback waits; *)
(* before the callback is added it has got nothing.                        *)
(***************************************************************************)
ResponseInv ==
    \A q \in Req : /\ Len(got[q]) <= 1
                   /\ q \in pend => got[q] = <<>>
                   /\ pc[q] \in Early => q \notin pend /\ got[q] = <<>>

(* An ordered request that is being routed; one of the present connection. *)
Routing(q) == q \in Ordered /\ pc[q] \notin {"new", "end"}

Current(q) == Routing(q) /\ from[q] = live

(***************************************************************************)
(* Connections of the client are numbered from 1, and a request that was   *)
(* read came from one of them.                                             *)
(***************************************************************************)
ClientInv ==
    /\ live \in 0..incs
    /\ \A q \in Req : pc[q] # "new" => from[q] \in 1..incs

(***************************************************************************)
(* A handler past GetRemote, or with a route of the cache, has an instance *)
(* to send to, though it may be gone.                                      *)
(***************************************************************************)
ChosenInv == \A q \in Req : pc[q] \in {"keep", "add", "send"} => remote[q] \in Remote

(***************************************************************************)
(* The instance that the last ordered request went to is known only while  *)
(* the client is connected and the instance is up.                         *)
(***************************************************************************)
LastInv ==
    /\ live = 0 => last = Nowhere
    /\ last # Nowhere => last \in up

(***************************************************************************)
(* Unless two ordered requests were routed at once on this connection: an  *)
(* ordered request of this connection is the only one being routed, and    *)
(* the cache holds the instance of the one before it.                      *)
(***************************************************************************)
AloneInv ==
    /\ \A q, p \in Req : Current(q) /\ Routing(p) => p = q
    /\ last # Nowhere => cache = last /\ \A q \in Req : Routing(q) => Current(q)

(***************************************************************************)
(* Where an ordered request of this connection has to be: it asks the load *)
(* balancer only when there is no instance to stay with, and from then on  *)
(* the cache holds the instance it goes to.                                *)
(***************************************************************************)
RouteInv ==
    \A q \in Req : Current(q) =>
        /\ pc[q] \in {"forget", "balance", "find", "keep"} => last = Nowhere
        /\ pc[q] \in {"add", "send"} => cache = remote[q] /\ last \in {Nowhere, remote[q]}

OrderInv ==
    /\ \A q \in Req : pc[q] \in {"cache", "forget", "keep"} => q \in Ordered
    /\ LastInv
    /\ ~mixed => AloneInv /\ RouteInv

(***************************************************************************)
(* Types, and the numbering of the connections, are kept by every step.    *)
(***************************************************************************)
LEMMA RouteTypeInit == RouteInit => RouteTypeOK /\ ClientInv
<1> SUFFICES ASSUME RouteInit PROVE RouteTypeOK /\ ClientInv
  OBVIOUS
<1>1. /\ 0 \in Nat /\ 0 \in 0..MaxInc /\ 0 \in 0..MaxFlaps /\ 0 \in 0..0
      /\ <<>> \in Seq(Nat)
  BY RouteAssumption, SMTT(60)
<1>2. RouteTypeOK
  BY <1>1 DEF RouteInit, RouteTypeOK
<1>3. ClientInv
  BY <1>1 DEF RouteInit, ClientInv
<1> QED
  BY <1>2, <1>3

LEMMA RouteTypeStep ==
  ASSUME RouteTypeOK, ClientInv, ChosenInv, [RouteNext]_routeVars
  PROVE  RouteTypeOK' /\ ClientInv'
<1>0. ASSUME NEW q \in Req, NEW l \in Early \cup {"send", "end"}, Goto(q, l)
      PROVE  /\ pc' \in [Req -> Early \cup {"send", "end"}]
             /\ pc'[q] = l /\ \A p \in Req : p # q => pc'[p] = pc[p]
  BY <1>0 DEF Goto, RouteTypeOK, Early
<1>1. CASE Connect
  <2>1. /\ live' \in Nat /\ incs' \in 0..MaxInc
        /\ live' \in 0..incs' /\ 1..incs \subseteq 1..incs'
    BY <1>1, RouteAssumption, SMTT(60) DEF Connect, RouteTypeOK
  <2> QED
    BY <1>1, <2>1 DEF Connect, RouteTypeOK, ClientInv, cvars, hvars
<1>2. ASSUME NEW q \in Req, Request(q) PROVE RouteTypeOK' /\ ClientInv'
  <2>1. live \in 1..incs /\ live \in Nat
    BY <1>2, SMTT(60) DEF Request, ClientInv, RouteTypeOK
  <2>2. /\ from' \in [Req -> Nat] /\ from'[q] = live
        /\ \A p \in Req : p # q => from'[p] = from[p]
    BY <1>2, <2>1 DEF Request, RouteTypeOK
  <2>3. ClientInv'
    BY <1>0, <1>2, <2>1, <2>2 DEF Request, ClientInv, Early
  <2>4. mixed' \in BOOLEAN /\ pc' \in [Req -> Early \cup {"send", "end"}]
    BY <1>0, <1>2 DEF Request, RouteTypeOK, Early
  <2> QED
    BY <1>2, <2>2, <2>3, <2>4 DEF Request, RouteTypeOK, Early, cvars
<1>3. CASE ClientClose
  <2>1. 0 \in Nat /\ 0 \in 0..incs
    BY SMTT(60) DEF RouteTypeOK
  <2> QED
    BY <1>3, <2>1 DEF ClientClose, RouteTypeOK, ClientInv, hvars
<1>4. ASSUME NEW r \in Remote, RemoteUp(r) \/ RemoteDown(r) PROVE RouteTypeOK' /\ ClientInv'
  <2>1. flaps' \in 0..MaxFlaps
    BY <1>4, RouteAssumption, SMTT(60) DEF RemoteUp, RemoteDown, RouteTypeOK
  <2>2. /\ up' \subseteq Remote /\ svc' \subseteq Req \X Remote
        /\ last' \in Remote \cup {Nowhere}
    BY <1>4 DEF RemoteUp, RemoteDown, RouteTypeOK
  <2>3. UNCHANGED <<live, incs, access, cvars, hvars, pend, rsp, got, mixed>>
    BY <1>4 DEF RemoteUp, RemoteDown
  <2> QED
    BY <2>1, <2>2, <2>3 DEF RouteTypeOK, ClientInv, cvars, hvars
<1>5. CASE AccessReport
  BY <1>5 DEF AccessReport, RouteTypeOK, ClientInv, cvars, hvars
<1>6. ASSUME NEW q \in Req, ErrorRsp(q) PROVE got' \in [Req -> Seq(Nat)]
  <2>1. Append(got[q], live) \in Seq(Nat)
    BY SMTT(60) DEF RouteTypeOK
  <2> QED
    BY <1>6, <2>1 DEF ErrorRsp, RouteTypeOK
<1>7. ASSUME NEW q \in Req, NEW l \in Early \cup {"send", "end"}, Goto(q, l),
             pc[q] # "new", UNCHANGED <<live, incs, access, up, flaps, from, rsp, mixed>>
      PROVE  /\ ClientInv'
             /\ /\ cmap' \in Nat /\ cache' \in Remote \cup {Nowhere} /\ maps' \in Nat
                /\ remote' \in [Req -> Remote \cup {Nowhere}]
                /\ seen' \in [Req -> Nat]
                /\ pend' \subseteq NeedRsp
                /\ svc' \subseteq Req \X Remote
                /\ got' \in [Req -> Seq(Nat)]
                /\ last' \in Remote \cup {Nowhere}
                => RouteTypeOK'
  BY <1>0, <1>7 DEF RouteTypeOK, ClientInv, Early
<1>8. ASSUME NEW q \in Req, Permit(q) PROVE RouteTypeOK' /\ ClientInv'
  <2>1. got' \in [Req -> Seq(Nat)]
    BY <1>6, <1>8 DEF Permit, RouteTypeOK
  <2>2. PICK l \in Early \cup {"send", "end"} : Goto(q, l)
    BY <1>8 DEF Permit, Early
  <2> QED
    BY <1>7, <1>8, <2>1, <2>2 DEF Permit, RouteTypeOK, cvars
<1>9. ASSUME NEW q \in Req, LookInCache(q) PROVE RouteTypeOK' /\ ClientInv'
  <2>1. PICK l \in Early \cup {"send", "end"} : Goto(q, l)
    BY <1>9 DEF LookInCache, Early
  <2>2. remote' \in [Req -> Remote \cup {Nowhere}]
    BY <1>9 DEF LookInCache, RouteTypeOK
  <2>3. seen' \in [Req -> Nat]
    BY <1>9 DEF LookInCache, RouteTypeOK
  <2> QED
    BY <1>7, <1>9, <2>1, <2>2, <2>3 DEF LookInCache, RouteTypeOK, cvars
<1>10. ASSUME NEW q \in Req, Forget(q) PROVE RouteTypeOK' /\ ClientInv'
  BY <1>7, <1>10 DEF Forget, RouteTypeOK, Early
<1>11. ASSUME NEW q \in Req, LoadBalance(q) PROVE RouteTypeOK' /\ ClientInv'
  <2>1. remote' \in [Req -> Remote \cup {Nowhere}]
    BY <1>11 DEF LoadBalance, RouteTypeOK
  <2> QED
    BY <1>7, <1>11, <2>1 DEF LoadBalance, RouteTypeOK, Early, cvars
<1>12. ASSUME NEW q \in Req, GetRemote(q) PROVE RouteTypeOK' /\ ClientInv'
  <2>1. got' \in [Req -> Seq(Nat)]
    BY <1>6, <1>12 DEF GetRemote, RouteTypeOK
  <2>2. PICK l \in Early \cup {"send", "end"} : Goto(q, l)
    BY <1>12 DEF GetRemote, Early
  <2> QED
    BY <1>7, <1>12, <2>1, <2>2 DEF GetRemote, RouteTypeOK, cvars
<1>13. ASSUME NEW q \in Req, UpdateRemoteOrderCache(q) PROVE RouteTypeOK' /\ ClientInv'
  <2>1. cmap' \in Nat /\ maps' \in Nat
    BY <1>13, SMTT(60) DEF UpdateRemoteOrderCache, RouteTypeOK
  <2> QED
    BY <1>7, <1>13, <2>1 DEF UpdateRemoteOrderCache, RouteTypeOK, Early
<1>14. ASSUME NEW q \in Req, AddCallBack(q) PROVE RouteTypeOK' /\ ClientInv'
  BY <1>7, <1>14 DEF AddCallBack, RouteTypeOK, Early, cvars
<1>15. ASSUME NEW q \in Req, MessageSend(q) PROVE RouteTypeOK' /\ ClientInv'
  <2>1. remote[q] \in Remote
    BY <1>15 DEF MessageSend, ChosenInv
  <2>2. svc' \subseteq Req \X Remote /\ last' \in Remote \cup {Nowhere}
    BY <1>15, <2>1, SMTT(30) DEF MessageSend, RouteTypeOK
  <2> QED
    BY <1>7, <1>15, <2>2 DEF MessageSend, RouteTypeOK, Early, cvars
<1>16. ASSUME NEW q \in Req, NEW r \in Remote, Answer(q, r) PROVE RouteTypeOK' /\ ClientInv'
  BY <1>16 DEF Answer, RouteTypeOK, ClientInv, cvars, hvars
<1>17. ASSUME NEW q \in Req, Expire(q) PROVE RouteTypeOK' /\ ClientInv'
  BY <1>17 DEF Expire, RouteTypeOK, ClientInv, cvars, hvars
<1>18. ASSUME NEW q \in Req, S2GRpcRsp(q) PROVE RouteTypeOK' /\ ClientInv'
  <2>1. Append(got[q], live) \in Seq(Nat)
    BY SMTT(60) DEF RouteTypeOK
  <2>2. got' \in [Req -> Seq(Nat)]
    BY <1>18, <2>1 DEF S2GRpcRsp, RouteTypeOK
  <2> QED
    BY <1>18, <2>2 DEF S2GRpcRsp, RouteTypeOK, ClientInv, cvars, hvars
<1>19. CASE UNCHANGED routeVars
  BY <1>19 DEF routeVars, RouteTypeOK, ClientInv
<1> QED
  BY <1>1, <1>2, <1>3, <1>4, <1>5, <1>8, <1>9, <1>10, <1>11, <1>12, <1>13, <1>14,
     <1>15, <1>16, <1>17, <1>18, <1>19 DEF RouteNext, Process, ChoiceRemote

(***************************************************************************)
(* An instance is chosen among those that are up.                          *)
(***************************************************************************)
LEMMA ChosenStep ==
  ASSUME RouteTypeOK, ChosenInv, [RouteNext]_routeVars
  PROVE  ChosenInv'
<1>0. pc \in [Req -> Early \cup {"send", "end"}] /\ remote \in [Req -> Remote \cup {Nowhere}]
  BY DEF RouteTypeOK, Early
<1>1. ASSUME NEW q \in Req, NEW l, Goto(q, l),
             l \in {"keep", "add", "send"} => remote'[q] \in Remote,
             \A p \in Req : p # q => remote'[p] = remote[p]
      PROVE  ChosenInv'
  BY <1>0, <1>1 DEF Goto, ChosenInv
<1>2. ASSUME UNCHANGED <<pc, remote>> PROVE ChosenInv'
  BY <1>2 DEF ChosenInv
<1>3. ASSUME NEW q \in Req, Request(q) \/ Permit(q) \/ Forget(q) PROVE ChosenInv'
  BY <1>1, <1>3 DEF Request, Permit, Forget
<1>4. ASSUME NEW q \in Req, LookInCache(q) PROVE ChosenInv'
  <2>1. CASE cache \in up
    BY <1>0, <1>1, <1>4, <2>1 DEF LookInCache, RouteTypeOK
  <2>2. CASE cache \notin up
    BY <1>1, <1>4, <2>2 DEF LookInCache
  <2> QED
    BY <2>1, <2>2
<1>5. ASSUME NEW q \in Req, LoadBalance(q) PROVE ChosenInv'
  <2>1. \A p \in Req : p # q => remote'[p] = remote[p]
    BY <1>0, <1>5 DEF LoadBalance
  <2> QED
    BY <1>1, <1>5, <2>1 DEF LoadBalance
<1>6. ASSUME NEW q \in Req, GetRemote(q) PROVE ChosenInv'
  BY <1>1, <1>6 DEF GetRemote, RouteTypeOK
<1>7. ASSUME NEW q \in Req, UpdateRemoteOrderCache(q) \/ AddCallBack(q) \/ MessageSend(q)
      PROVE  ChosenInv'
  <2>1. pc[q] \in {"keep", "add", "send"} /\ UNCHANGED remote
    BY <1>7 DEF UpdateRemoteOrderCache, AddCallBack, MessageSend
  <2>2. remote[q] \in Remote
    BY <2>1 DEF ChosenInv
  <2> QED
    BY <1>1, <1>7, <2>1, <2>2 DEF UpdateRemoteOrderCache, AddCallBack, MessageSend
<1>8. CASE \/ Connect \/ ClientClose \/ AccessReport
           \/ \E r \in Remote : RemoteUp(r) \/ RemoteDown(r)
           \/ \E q \in Req : Expire(q) \/ S2GRpcRsp(q) \/ \E r \in Remote : Answer(q, r)
           \/ UNCHANGED routeVars
  BY <1>2, <1>8 DEF Connect, ClientClose, AccessReport, RemoteUp, RemoteDown, Expire,
                    S2GRpcRsp, Answer, routeVars, hvars
<1> QED
  BY <1>3, <1>4, <1>5, <1>6, <1>7, <1>8 DEF RouteNext, Process, ChoiceRemote

(***************************************************************************)
(* A step either leaves a request's handler, callback and responses alone, *)
(* or is a step of that request.                                           *)
(***************************************************************************)
LEMMA ResponseStep ==
  ASSUME RouteTypeOK, ResponseInv, [RouteNext]_routeVars
  PROVE  ResponseInv'
<1>0. /\ pc \in [Req -> Early \cup {"send", "end"}] /\ got \in [Req -> Seq(Nat)]
      /\ live \in Nat
  BY DEF RouteTypeOK, Early
<1>1. ASSUME UNCHANGED <<pc, got>>, pend' \subseteq pend PROVE ResponseInv'
  BY <1>1 DEF ResponseInv
<1>2. ASSUME NEW q \in Req, pc'[q] \notin Early \/ pc[q] \in Early,
             \A p \in Req : p # q => pc'[p] = pc[p],
             UNCHANGED <<got, pend>>
      PROVE  ResponseInv'
  BY <1>2 DEF ResponseInv
<1>3. ASSUME NEW q \in Req, NEW l, Goto(q, l)
      PROVE  pc'[q] = l /\ \A p \in Req : p # q => pc'[p] = pc[p]
  BY <1>0, <1>3 DEF Goto
<1>4. ASSUME NEW q \in Req, pc[q] \in Early, ErrorRsp(q), Goto(q, "end"), UNCHANGED pend
      PROVE  ResponseInv'
  <2>1. Len(Append(<<>>, live)) <= 1 /\ Len(<<>>) <= 1
    BY <1>0, SMTT(60)
  <2>2. got[q] = <<>> /\ q \notin pend
    BY <1>4 DEF ResponseInv
  <2>3. got'[q] \in {<<>>, Append(<<>>, live)} /\ \A p \in Req : p # q => got'[p] = got[p]
    BY <1>0, <1>4, <2>2 DEF ErrorRsp
  <2>4. Len(got'[q]) <= 1
    BY <2>1, <2>3
  <2>5. pc'[q] \notin Early
    BY <1>3, <1>4 DEF Early
  <2> QED
    BY <1>3, <1>4, <2>2, <2>3, <2>4, <2>5 DEF ResponseInv
<1>5. ASSUME NEW q \in Req, Request(q) PROVE ResponseInv'
  BY <1>2, <1>3, <1>5 DEF Request, Early
<1>6. ASSUME NEW q \in Req, Permit(q) PROVE ResponseInv'
  <2>1. CASE access /\ q \in Allowed
    BY <1>2, <1>3, <1>6, <2>1 DEF Permit, Early
  <2>2. CASE ~(access /\ q \in Allowed)
    BY <1>4, <1>6, <2>2 DEF Permit, Early
  <2> QED
    BY <2>1, <2>2
<1>7. ASSUME NEW q \in Req, LookInCache(q) \/ Forget(q) PROVE ResponseInv'
  BY <1>2, <1>3, <1>7 DEF LookInCache, Forget, Early
<1>8. ASSUME NEW q \in Req, LoadBalance(q) \/ UpdateRemoteOrderCache(q) PROVE ResponseInv'
  BY <1>2, <1>3, <1>8 DEF LoadBalance, UpdateRemoteOrderCache, Early
<1>9. ASSUME NEW q \in Req, GetRemote(q) PROVE ResponseInv'
  <2>1. CASE remote[q] \in up
    BY <1>2, <1>3, <1>9, <2>1 DEF GetRemote, Early
  <2>2. CASE remote[q] \notin up
    BY <1>4, <1>9, <2>2 DEF GetRemote, Early
  <2> QED
    BY <2>1, <2>2
<1>10. ASSUME NEW q \in Req, AddCallBack(q) PROVE ResponseInv'
  <2>1. pc'[q] \notin Early /\ pc[q] \in Early
    BY <1>3, <1>10 DEF AddCallBack, Early
  <2> QED
    BY <1>3, <1>10, <2>1 DEF AddCallBack, ResponseInv
<1>11. ASSUME NEW q \in Req, MessageSend(q) PROVE ResponseInv'
  BY <1>2, <1>3, <1>11 DEF MessageSend, Early
<1>12. ASSUME NEW q \in Req, S2GRpcRsp(q) PROVE ResponseInv'
  <2>1. Len(Append(<<>>, live)) <= 1
    BY <1>0, SMTT(60)
  <2>2. /\ \A p \in Req : p # q => got'[p] = got[p]
        /\ q \notin pend => got'[q] = got[q]
        /\ q \in pend => got'[q] \in {got[q], Append(got[q], live)}
    BY <1>0, <1>12 DEF S2GRpcRsp
  <2>3. Len(got'[q]) <= 1
    BY <2>1, <2>2 DEF ResponseInv
  <2>4. pc' = pc /\ pend' = pend \ {q}
    BY <1>12 DEF S2GRpcRsp, hvars
  <2> QED
    BY <2>2, <2>3, <2>4 DEF ResponseInv
<1>13. CASE \/ Connect \/ ClientClose \/ AccessReport
            \/ \E r \in Remote : RemoteUp(r) \/ RemoteDown(r)
            \/ \E q \in Req : Expire(q) \/ \E r \in Remote : Answer(q, r)
            \/ UNCHANGED routeVars
  BY <1>1, <1>13 DEF Connect, ClientClose, AccessReport, RemoteUp, RemoteDown, Expire,
                     Answer, routeVars, hvars
<1> QED
  BY <1>5, <1>6, <1>7, <1>8, <1>9, <1>10, <1>11, <1>12, <1>13 DEF RouteNext, Process, ChoiceRemote

(***************************************************************************)
(* The cache is only ever moved by the ordered request that is alone,      *)
(* whatever other requests, instances and connections do meanwhile.  Step  *)
(* 9 is what the steps of a request's own handler have in common.          *)
(***************************************************************************)
LEMMA OrderStep ==
  ASSUME RouteTypeOK, ClientInv, OrderInv, [RouteNext]_routeVars
  PROVE  OrderInv'
<1>0. /\ pc \in [Req -> Early \cup {"send", "end"}]
      /\ remote \in [Req -> Remote \cup {Nowhere}] /\ from \in [Req -> Nat]
  BY DEF RouteTypeOK, Early
<1>1. ASSUME NEW q \in Req, NEW l, Goto(q, l)
      PROVE  pc'[q] = l /\ \A p \in Req : p # q => pc'[p] = pc[p]
  BY <1>0, <1>1 DEF Goto
<1>2. \A q \in Req : Routing(q) => from[q] # 0
  BY SMTT(60) DEF ClientInv, Routing
<1>3. CASE Connect
  <2>1. live' \notin 1..incs
    BY <1>3, SMTT(60) DEF Connect, RouteTypeOK
  <2>2. \A q \in Req : Current(q)' => FALSE
    BY <1>3, <2>1 DEF Connect, Current, Routing, ClientInv, hvars
  <2>3. last' = Nowhere
    BY <1>3 DEF Connect, OrderInv, LastInv
  <2> QED
    BY <1>3, <2>2, <2>3 DEF Connect, OrderInv, LastInv, AloneInv, RouteInv, hvars, cvars
<1>4. ASSUME NEW q \in Req, Request(q) PROVE OrderInv'
  <2>1. /\ pc[q] = "new" /\ pc'[q] = "permit" /\ from'[q] = live
        /\ \A p \in Req : p # q => pc'[p] = pc[p] /\ from'[p] = from[p]
        /\ UNCHANGED <<live, up, cache, remote, last>>
    BY <1>0, <1>1, <1>4 DEF Request, cvars
  <2>2. \A p \in Req : p # q => Current(p)' = Current(p) /\ Routing(p)' = Routing(p)
    BY <2>1 DEF Current, Routing
  <2>3. ~mixed' => ~mixed /\ (q \in Ordered => \A p \in Req : ~Routing(p))
    BY <1>4 DEF Request, Running, Routing
  <2>4. Routing(q)' => q \in Ordered /\ Current(q)'
    BY <2>1 DEF Routing, Current
  <2>5. ~mixed' => AloneInv'
    BY <2>1, <2>2, <2>3, <2>4 DEF OrderInv, AloneInv, Current
  <2>6. ~mixed' => RouteInv'
    BY <2>1, <2>2, <2>3 DEF OrderInv, RouteInv
  <2> QED
    BY <2>1, <2>5, <2>6 DEF OrderInv, LastInv
<1>5. CASE ClientClose
  <2>1. \A q \in Req : Current(q)' => FALSE
    BY <1>2, <1>5 DEF ClientClose, Current, Routing, hvars
  <2> QED
    BY <1>5, <2>1 DEF ClientClose, OrderInv, LastInv, AloneInv, RouteInv, hvars
<1>6. ASSUME UNCHANGED <<live, cache, pc, from, remote, mixed>>, last' \in {last, Nowhere},
             last' # Nowhere => last' \in up'
      PROVE  OrderInv'
  BY <1>6 DEF OrderInv, LastInv, AloneInv, RouteInv, Current, Routing
<1>7. ASSUME NEW r \in Remote, RemoteUp(r) \/ RemoteDown(r) PROVE OrderInv'
  BY <1>6, <1>7 DEF RemoteUp, RemoteDown, OrderInv, LastInv, cvars, hvars
<1>8. CASE \/ AccessReport \/ UNCHANGED routeVars
           \/ \E q \in Req : Expire(q) \/ S2GRpcRsp(q) \/ \E r \in Remote : Answer(q, r)
  BY <1>6, <1>8 DEF AccessReport, Expire, S2GRpcRsp, Answer, OrderInv, LastInv, routeVars,
                    cvars, hvars
<1>9. ASSUME NEW q \in Req, pc[q] \notin {"new", "end"}, pc'[q] # "new",
             \A p \in Req : p # q => pc'[p] = pc[p] /\ remote'[p] = remote[p],
             UNCHANGED <<live, up, from, mixed>>,
             pc'[q] \in {"cache", "forget", "keep"} => q \in Ordered,
             \/ cache' = cache /\ last' = last
             \/ Routing(q) /\ last' = last /\ (~mixed => last = Nowhere)
             \/ /\ Current(q) /\ pc'[q] = "end" /\ cache' = cache
                /\ last' \in up /\ (~mixed => last' = cache),
             ~mixed /\ Current(q) =>
                /\ pc'[q] \in {"forget", "balance", "find", "keep"} => last' = Nowhere
                /\ pc'[q] \in {"add", "send"} =>
                      cache' = remote'[q] /\ last' \in {Nowhere, remote'[q]}
      PROVE  OrderInv'
  <2>1. \A p \in Req : (Routing(p)' => Routing(p)) /\ (Current(p)' => Current(p))
    BY <1>9 DEF Routing, Current
  <2>2. ASSUME ~mixed PROVE AloneInv'
    BY <1>9, <2>1, <2>2 DEF OrderInv, AloneInv, Routing, Current
  <2>3. ASSUME ~mixed PROVE RouteInv'
    <3> SUFFICES ASSUME NEW p \in Req, Current(p)'
                 PROVE  /\ pc'[p] \in {"forget", "balance", "find", "keep"} =>
                              last' = Nowhere
                        /\ pc'[p] \in {"add", "send"} =>
                              cache' = remote'[p] /\ last' \in {Nowhere, remote'[p]}
      BY DEF RouteInv
    <3>1. CASE p = q
      BY <1>9, <2>1, <2>3, <3>1
    <3>2. CASE p # q
      <4>1. ~Routing(q)
        BY <2>1, <2>3, <3>2 DEF OrderInv, AloneInv
      <4> QED
        BY <1>9, <2>1, <2>3, <3>2, <4>1 DEF OrderInv, RouteInv, Current
    <3> QED
      BY <3>1, <3>2
  <2>4. LastInv'
    BY <1>2, <1>9 DEF OrderInv, LastInv, Current
  <2> QED
    BY <1>9, <2>2, <2>3, <2>4 DEF OrderInv
<1>10. ASSUME NEW q \in Req, Permit(q) PROVE OrderInv'
  <2>1. /\ pc[q] = "permit" /\ pc'[q] \in {"cache", "balance", "end"}
        /\ pc'[q] = "cache" => q \in Ordered
        /\ pc'[q] = "balance" => q \notin Ordered
        /\ \A p \in Req : p # q => pc'[p] = pc[p]
    BY <1>1, <1>10 DEF Permit
  <2> QED
    BY <1>9, <1>10, <2>1 DEF Permit, Current, Routing, cvars
<1>11. ASSUME NEW q \in Req, LookInCache(q) PROVE OrderInv'
  <2>1. pc[q] = "cache" /\ Routing(q)
    BY <1>11 DEF LookInCache, OrderInv, Routing
  <2>2. ~mixed /\ Current(q) /\ last # Nowhere => cache = last /\ last \in up
    BY DEF OrderInv, AloneInv, LastInv
  <2>3. /\ \/ cache = Nowhere /\ pc'[q] = "balance" /\ remote' = remote
           \/ cache \in up /\ pc'[q] = "add" /\ remote'[q] = cache
           \/ cache \notin up \cup {Nowhere} /\ pc'[q] = "forget" /\ remote' = remote
        /\ \A p \in Req : p # q => pc'[p] = pc[p] /\ remote'[p] = remote[p]
    <3>1. CASE cache = Nowhere /\ Goto(q, "balance") /\ remote' = remote
      BY <1>1, <3>1
    <3>2. CASE cache \in up /\ Goto(q, "add") /\ remote' = [remote EXCEPT ![q] = cache]
      BY <1>0, <1>1, <3>2
    <3>3. CASE cache \notin up \cup {Nowhere} /\ Goto(q, "forget") /\ remote' = remote
      BY <1>1, <3>3
    <3> QED
      BY <1>11, <3>1, <3>2, <3>3 DEF LookInCache
  <2>4. UNCHANGED <<live, up, from, mixed, cache, last>>
    BY <1>11 DEF LookInCache, cvars
  <2>5. ~mixed /\ Current(q) =>
           /\ pc'[q] \in {"forget", "balance", "find", "keep"} => last' = Nowhere
           /\ pc'[q] \in {"add", "send"} =>
                 cache' = remote'[q] /\ last' \in {Nowhere, remote'[q]}
    BY <2>2, <2>3, <2>4
  <2> QED
    BY <1>9, <2>1, <2>3, <2>4, <2>5 DEF Routing
<1>12. ASSUME NEW q \in Req, pc[q] \in {"forget", "keep"}, ~mixed
       PROVE  Routing(q) /\ last = Nowhere
  BY <1>12 DEF OrderInv, AloneInv, RouteInv, Routing
<1>13. ASSUME NEW q \in Req, Forget(q) PROVE OrderInv'
  <2>1. pc[q] = "forget" /\ Routing(q) /\ pc'[q] = "balance"
    BY <1>1, <1>13 DEF Forget, OrderInv, Routing
  <2>2. ~mixed => last = Nowhere
    BY <1>12, <2>1
  <2> QED
    BY <1>1, <1>9, <1>13, <2>1, <2>2 DEF Forget
<1>14. ASSUME NEW q \in Req, LoadBalance(q) PROVE OrderInv'
  <2>1. pc[q] = "balance" /\ pc'[q] = "find"
    BY <1>1, <1>14 DEF LoadBalance
  <2>2. \A p \in Req : p # q => remote'[p] = remote[p]
    BY <1>0, <1>14 DEF LoadBalance
  <2>3. ~mixed /\ Current(q) => last = Nowhere
    BY <2>1 DEF OrderInv, RouteInv
  <2> QED
    BY <1>1, <1>9, <1>14, <2>1, <2>2, <2>3 DEF LoadBalance, cvars
<1>15. ASSUME NEW q \in Req, GetRemote(q) PROVE OrderInv'
  <2>1. /\ pc[q] = "find" /\ pc'[q] \in {"keep", "add", "end"}
        /\ pc'[q] = "keep" => q \in Ordered
        /\ pc'[q] = "add" => q \notin Ordered
        /\ \A p \in Req : p # q => pc'[p] = pc[p]
    BY <1>1, <1>15 DEF GetRemote
  <2>2. ~mixed /\ Current(q) => last = Nowhere
    BY <2>1 DEF OrderInv, RouteInv
  <2> QED
    BY <1>9, <1>15, <2>1, <2>2 DEF GetRemote, Current, Routing, cvars
<1>16. ASSUME NEW q \in Req, UpdateRemoteOrderCache(q) PROVE OrderInv'
  <2>1. pc[q] = "keep" /\ Routing(q) /\ pc'[q] = "add"
    BY <1>1, <1>16 DEF UpdateRemoteOrderCache, OrderInv, Routing
  <2>2. ~mixed => last = Nowhere
    BY <1>12, <2>1
  <2> QED
    BY <1>1, <1>9, <1>16, <2>1, <2>2 DEF UpdateRemoteOrderCache
<1>17. ASSUME NEW q \in Req, AddCallBack(q) PROVE OrderInv'
  <2>1. pc[q] = "add" /\ pc'[q] = "send"
    BY <1>1, <1>17 DEF AddCallBack
  <2>2. ~mixed /\ Current(q) => cache = remote[q] /\ last \in {Nowhere, remote[q]}
    BY <2>1 DEF OrderInv, RouteInv
  <2> QED
    BY <1>1, <1>9, <1>17, <2>1, <2>2 DEF AddCallBack, cvars
<1>18. ASSUME NEW q \in Req, MessageSend(q) PROVE OrderInv'
  <2>1. pc[q] = "send" /\ pc'[q] = "end"
    BY <1>1, <1>18 DEF MessageSend
  <2>2. ~mixed /\ Current(q) => cache = remote[q]
    BY <2>1 DEF OrderInv, RouteInv
  <2>3. \/ last' = last
        \/ Current(q) /\ last' = remote[q] /\ remote[q] \in up
    BY <1>18, <2>1 DEF MessageSend, Current, Routing
  <2> QED
    BY <1>1, <1>9, <1>18, <2>1, <2>2, <2>3 DEF MessageSend, cvars
<1> QED
  BY <1>3, <1>4, <1>5, <1>7, <1>8, <1>10, <1>11, <1>13, <1>14, <1>15, <1>16, <1>17,
     <1>18 DEF RouteNext, Process, ChoiceRemote

(***************************************************************************)
(* The inductive invariant.                                                *)
(***************************************************************************)
GateInv == RouteTypeOK /\ ClientInv /\ ChosenInv /\ ResponseInv /\ OrderInv

LEMMA GateInvInit == RouteInit => GateInv
<1> SUFFICES ASSUME RouteInit PROVE GateInv
  OBVIOUS
<1>1. ResponseInv
  <2>1. Len(<<>>) <= 1
    BY SMTT(60)
  <2> QED
    BY <2>1 DEF RouteInit, ResponseInv
<1>2. OrderInv
  BY DEF RouteInit, OrderInv, LastInv, AloneInv, RouteInv, Current, Routing
<1>3. ChosenInv
  BY DEF RouteInit, ChosenInv
<1> QED
  BY <1>1, <1>2, <1>3, RouteTypeInit DEF GateInv

LEMMA GateInvStep == GateInv /\ [RouteNext]_routeVars => GateInv'
BY RouteTypeStep, ChosenStep, ResponseStep, OrderStep DEF GateInv

(***************************************************************************)
(* Every reachable state of a gate satisfies the invariant, for any number *)
(* of requests, instances, reconnections and flaps.                        *)
(***************************************************************************)
THEOREM GateInvariant == RouteSpec => []GateInv
BY GateInvInit, GateInvStep, PTL DEF RouteSpec

(***************************************************************************)
(* The client never gets two responses to a request: the handler's error   *)
(* response, the expiry of the callback and a late response of the service *)
(* exclude each other.                                                     *)
(***************************************************************************)
THEOREM OneResponseAtMost == RouteSpec => []AtMostOneResponse
<1>1. GateInv => AtMostOneResponse
  BY DEF GateInv, ResponseInv, AtMostOneResponse
<1> QED
  BY <1>1, GateInvariant, PTL

(***************************************************************************)
(* An ordered request about to be sent goes where the one before it went,  *)
(* if that is known.                                                       *)
(***************************************************************************)
LEMMA StickyStep ==
  ASSUME GateInv, NEW q \in Ordered,
         pc[q] = "send", live = from[q], ~mixed
  PROVE  last \in {Nowhere, remote[q]}
<1>1. q \in Req /\ Current(q)
  BY RouteAssumption DEF Current, Routing
<1> QED
  BY <1>1 DEF GateInv, OrderInv, RouteInv

(***************************************************************************)
(* Ordered requests of a connection go to one instance as long as it is    *)
(* up, provided that they were not routed two at a time.                   *)
(***************************************************************************)
THEOREM OrderedRequestsStick == RouteSpec => StickyWhileUp
<1>1. GateInv => [\A q \in Ordered :
                     pc[q] = "send" /\ pc'[q] = "end" /\ live = from[q] /\ ~mixed =>
                        last \in {Nowhere, remote[q]} \/ remote[q] \notin up]_routeVars
  BY StickyStep
<1> QED
  BY <1>1, GateInvariant, PTL DEF StickyWhileUp
-----------------------------------------------------------------------------
(***************************************************************************)
(* Pushes to a client.                                                     *)
(***************************************************************************)
(***************************************************************************)
(* A client that takes itself to be logged in has a connection and a       *)
(* login.                                                                  *)
(***************************************************************************)
SessionInv == in => conn # 0 /\ logins # 0

InSeq(x, s) == \E i \in 1..Len(s) : s[i] = x

(***************************************************************************)
(* The reply to a push exists only when the client has handled the push;   *)
(* the record is marked as arrived by a reply.                             *)
(***************************************************************************)
HandledInv ==
    /\ \A m \in Msg : mongo[m] = "arrived" => m \in handled
    /\ \A m \in Safe : <<"reply", m>> \in pool => m \in handled
    /\ \A m \in Safe, k \in 1..MaxConn : InSeq(<<"reply", m>>, uplink[k]) => m \in handled

(***************************************************************************)
(* A session that NothingMissed speaks about.                              *)
(***************************************************************************)
LoggedIn == in /\ faults = 0 /\ logins \notin overtaken

(***************************************************************************)
(* Logins are numbered: there is no message of a login to come, the login  *)
(* that the client is in was not logged off, and it is on the client's     *)
(* connection only.                                                        *)
(***************************************************************************)
Unsent(i) == /\ <<"logoff", i>> \notin pool
             /\ \A k \in 1..MaxConn : ~InSeq(<<"logoff", i>>, uplink[k])

NumberInv ==
    /\ \A i \in 1..MaxLogin : i > logins =>
          Unsent(i) /\ \A k \in 1..MaxConn : ~InSeq(<<"login", i>>, uplink[k])
    /\ in => /\ Unsent(logins)
             /\ \A k \in 1..MaxConn : k # conn => ~InSeq(<<"login", logins>>, uplink[k])

(***************************************************************************)
(* Either redis has the entry of this login, or the login is still to be   *)
(* read, with the restore right after it.                                  *)
(***************************************************************************)
Adjacent(s, a, b) == \E n \in 1..(Len(s) - 1) : s[n] = a /\ s[n + 1] = b

LoginRead == redis = conn /\ owner = logins

LoginNext == Adjacent(uplink[conn], <<"login", logins>>, <<"restore", logins>>)

LoginInv == LoggedIn => LoginRead \/ LoginNext

(***************************************************************************)
(* The disjunction of NothingMissed for one message.                       *)
(***************************************************************************)
OnItsWay(m) ==
    \/ \E l \in 0..MaxLogin : <<m, l>> \in lookups \/ <<conn, m, l>> \in down
    \/ <<"reply", m>> \in pool \/ InSeq(<<"reply", m>>, uplink[conn])
    \/ <<"restore", logins>> \in pool \/ InSeq(<<"restore", logins>>, uplink[conn])

MissedInv == LoggedIn => \A m \in Safe : mongo[m] = "unarrive" => OnItsWay(m)

(***************************************************************************)
(* The inductive invariant.                                                *)
(***************************************************************************)
PushInv == /\ PushTypeOK
           /\ SessionInv /\ NumberInv
           /\ HandledInv /\ LoginInv /\ MissedInv

(***************************************************************************)
(* Membership in a sequence, through concatenation, Head and Tail.         *)
(***************************************************************************)
LEMMA InSeqConcat ==
    ASSUME NEW S, NEW s \in Seq(S), NEW t \in Seq(S), NEW x
    PROVE  InSeq(x, s \o t) <=> InSeq(x, s) \/ InSeq(x, t)
<1>1. /\ Len(s) \in Nat /\ Len(t) \in Nat
      /\ Len(s \o t) = Len(s) + Len(t)
      /\ \A i \in 1..Len(s) : (s \o t)[i] = s[i]
      /\ \A i \in 1..Len(t) : (s \o t)[Len(s) + i] = t[i]
  BY SMTT(60)
<1>2. ASSUME InSeq(x, s \o t)
      PROVE  InSeq(x, s) \/ InSeq(x, t)
  <2>1. PICK i \in 1..(Len(s) + Len(t)) : (s \o t)[i] = x
    BY <1>1, <1>2 DEF InSeq
  <2>2. CASE i \in 1..Len(s)
    BY <1>1, <2>1, <2>2 DEF InSeq
  <2>3. CASE i - Len(s) \in 1..Len(t)
    <3>1. i = Len(s) + (i - Len(s))
      BY <1>1, <2>1, SMTT(60)
    <3> QED
      BY <1>1, <2>1, <2>3, <3>1 DEF InSeq
  <2> QED
    BY <1>1, <2>2, <2>3, SMTT(60)
<1>3. ASSUME InSeq(x, s)
      PROVE  InSeq(x, s \o t)
  BY <1>1, <1>3, SMTT(60) DEF InSeq
<1>4. ASSUME InSeq(x, t)
      PROVE  InSeq(x, s \o t)
  <2>1. PICK i \in 1..Len(t) : t[i] = x
    BY <1>4 DEF InSeq
  <2>2. Len(s) + i \in 1..Len(s \o t)
    BY <1>1, SMTT(60)
  <2> QED
    BY <1>1, <2>1, <2>2 DEF InSeq
<1> QED
  BY <1>2, <1>3, <1>4

LEMMA InSeqTail ==
    ASSUME NEW S, NEW s \in Seq(S), s # <<>>, NEW x
    PROVE  /\ Head(s) \in S /\ Tail(s) \in Seq(S)
           /\ InSeq(x, s) <=> x = Head(s) \/ InSeq(x, Tail(s))
<1>1. /\ Head(s) \in S /\ Tail(s) \in Seq(S)
      /\ Len(s) \in Nat /\ Len(s) # 0 /\ Len(Tail(s)) = Len(s) - 1
      /\ Head(s) = s[1]
      /\ \A i \in 1..Len(Tail(s)) : Tail(s)[i] = s[i + 1]
  BY SMTT(60)
<1>2. ASSUME NEW i \in 1..Len(s), s[i] = x
      PROVE  x = Head(s) \/ InSeq(x, Tail(s))
  <2>1. CASE i = 1
    BY <1>1, <1>2, <2>1
  <2>2. CASE i # 1
    <3>1. i - 1 \in 1..Len(Tail(s)) /\ (i - 1) + 1 = i
      BY <1>1, <2>2, SMTT(60)
    <3> QED
      BY <1>1, <1>2, <3>1 DEF InSeq
  <2> QED
    BY <2>1, <2>2
<1>3. ASSUME NEW i \in 1..Len(Tail(s)), Tail(s)[i] = x
      PROVE  InSeq(x, s)
  <2>1. i + 1 \in 1..Len(s)
    BY <1>1, SMTT(60)
  <2> QED
    BY <1>1, <1>3, <2>1 DEF InSeq
<1>4. InSeq(Head(s), s)
  BY <1>1, SMTT(60) DEF InSeq
<1> QED
  BY <1>1, <1>2, <1>3, <1>4 DEF InSeq

LEMMA InSeqOne ==
    ASSUME NEW S, NEW a \in S
    PROVE  <<a>> \in Seq(S) /\ \A x : InSeq(x, <<a>>) <=> x = a
BY SMTT(60) DEF InSeq

LEMMA InSeqTwo ==
    ASSUME NEW S, NEW a \in S, NEW b \in S
    PROVE  <<a, b>> \in Seq(S) /\ \A x : InSeq(x, <<a, b>>) <=> x = a \/ x = b
BY SMTT(60) DEF InSeq

LEMMA InSeqEmpty == \A x : ~InSeq(x, <<>>)
BY SMTT(60) DEF InSeq

(***************************************************************************)
(* Two neighbours stay neighbours at the end and at the head of a queue.   *)
(***************************************************************************)
LEMMA AdjacentConcat ==
    ASSUME NEW S, NEW s \in Seq(S), NEW t \in Seq(S), NEW a, NEW b, Adjacent(s, a, b)
    PROVE  Adjacent(s \o t, a, b)
<1>1. PICK n \in 1..(Len(s) - 1) : s[n] = a /\ s[n + 1] = b
  BY DEF Adjacent
<1>2. /\ n \in 1..(Len(s \o t) - 1)
      /\ (s \o t)[n] = s[n] /\ (s \o t)[n + 1] = s[n + 1]
  BY <1>1, SMTT(60)
<1> QED
  BY <1>1, <1>2 DEF Adjacent

LEMMA AdjacentEnd ==
    ASSUME NEW S, NEW s \in Seq(S), NEW a \in S, NEW b \in S
    PROVE  Adjacent(s \o <<a, b>>, a, b)
<1>1. /\ Len(s) + 1 \in 1..(Len(s \o <<a, b>>) - 1)
      /\ (s \o <<a, b>>)[Len(s) + 1] = a /\ (s \o <<a, b>>)[(Len(s) + 1) + 1] = b
  BY SMTT(60)
<1> QED
  BY <1>1 DEF Adjacent

LEMMA AdjacentTail ==
    ASSUME NEW S, NEW s \in Seq(S), s # <<>>, NEW a, NEW b, Adjacent(s, a, b)
    PROVE  Head(s) = a \/ Adjacent(Tail(s), a, b)
<1>1. PICK n \in 1..(Len(s) - 1) : s[n] = a /\ s[n + 1] = b
  BY DEF Adjacent
<1>2. CASE n = 1
  BY <1>1, <1>2, SMTT(60)
<1>3. CASE n # 1
  <2>1. /\ n - 1 \in 1..(Len(Tail(s)) - 1)
        /\ Tail(s)[n - 1] = s[n] /\ Tail(s)[(n - 1) + 1] = s[n + 1]
    BY <1>1, <1>3, SMTT(60)
  <2> QED
    BY <1>1, <2>1 DEF Adjacent
<1> QED
  BY <1>2, <1>3

LEMMA AdjacentIn ==
    ASSUME NEW S, NEW s \in Seq(S), NEW a, NEW b, Adjacent(s, a, b)
    PROVE  InSeq(b, s)
<1>1. PICK n \in 1..(Len(s) - 1) : s[n] = a /\ s[n + 1] = b
  BY DEF Adjacent
<1>2. n + 1 \in 1..Len(s)
  BY <1>1, SMTT(60)
<1> QED
  BY <1>1, <1>2 DEF InSeq

(***************************************************************************)
(* The messages that a client sends.                                       *)
(***************************************************************************)
LEMMA MessageKinds ==
    /\ \A i \in 1..MaxLogin : /\ <<"login", i>> \in Message
                              /\ <<"restore", i>> \in Message
                              /\ <<"logoff", i>> \in Message
    /\ \A m \in Safe : <<"reply", m>> \in Message
    /\ \A x \in Message : x[1] = "login" => \E i \in 1..MaxLogin : x = <<"login", i>>
BY SMTT(60) DEF Message

(***************************************************************************)
(* What the client sends is at the end of its connection's queue, and the  *)
(* other queues are left alone.                                            *)
(***************************************************************************)
LEMMA SendsStep ==
    ASSUME PushTypeOK, NEW k \in 1..MaxConn, NEW ms \in Seq(Message), Sends(k, ms)
    PROVE  /\ uplink' \in [1..MaxConn -> Seq(Message)]
           /\ uplink[k] \in Seq(Message)
           /\ uplink'[k] = uplink[k] \o ms
           /\ \A x : InSeq(x, uplink'[k]) <=> InSeq(x, uplink[k]) \/ InSeq(x, ms)
           /\ \A j \in 1..MaxConn : j # k => uplink'[j] = uplink[j]
<1>1. uplink \in [1..MaxConn -> Seq(Message)]
  BY DEF PushTypeOK
<1>2. uplink[k] \o ms \in Seq(Message)
  BY <1>1, SMTT(60)
<1>3. uplink'[k] = uplink[k] \o ms /\ uplink[k] \in Seq(Message)
  BY <1>1 DEF Sends
<1>4. \A x : InSeq(x, uplink'[k]) <=> InSeq(x, uplink[k]) \/ InSeq(x, ms)
  BY <1>3, InSeqConcat, SMTT(30)
<1> QED
  BY <1>1, <1>2, <1>3, <1>4 DEF Sends

LEMMA LoginSends ==
    ASSUME PushTypeOK, Login
    PROVE  /\ conn \in 1..MaxConn
           /\ uplink' \in [1..MaxConn -> Seq(Message)]
           /\ uplink'[conn]
                = uplink[conn] \o <<<<"login", logins + 1>>, <<"restore", logins + 1>>>>
           /\ \A x : InSeq(x, uplink'[conn])
                        <=> \/ InSeq(x, uplink[conn])
                            \/ x = <<"login", logins + 1>>
                            \/ x = <<"restore", logins + 1>>
           /\ \A j \in 1..MaxConn : j # conn => uplink'[j] = uplink[j]
<1>1. conn \in 1..MaxConn /\ logins + 1 \in 1..MaxLogin
  BY PushAssumption, SMTT(60) DEF PushTypeOK, Login
<1> DEFINE a == <<"login", logins + 1>>
           b == <<"restore", logins + 1>>
<1>2. a \in Message /\ b \in Message
  BY <1>1, MessageKinds
<1>3. Sends(conn, <<a, b>>)
  BY DEF Login
<1> HIDE DEF a, b
<1>4. <<a, b>> \in Seq(Message) /\ \A x : InSeq(x, <<a, b>>) <=> x = a \/ x = b
  BY <1>2, InSeqTwo
<1>5. /\ uplink' \in [1..MaxConn -> Seq(Message)]
      /\ uplink'[conn] = uplink[conn] \o <<a, b>>
      /\ \A x : InSeq(x, uplink'[conn]) <=> InSeq(x, uplink[conn]) \/ InSeq(x, <<a, b>>)
      /\ \A j \in 1..MaxConn : j # conn => uplink'[j] = uplink[j]
  BY <1>1, <1>3, <1>4, SendsStep
<1>6. \A x : InSeq(x, uplink'[conn]) <=> InSeq(x, uplink[conn]) \/ x = a \/ x = b
  BY <1>4, <1>5
<1> QED
  BY <1>1, <1>5, <1>6 DEF a, b

LEMMA OneSends ==
    ASSUME PushTypeOK, NEW k \in 1..MaxConn, NEW a \in Message, Sends(k, <<a>>)
    PROVE  /\ uplink' \in [1..MaxConn -> Seq(Message)]
           /\ <<a>> \in Seq(Message)
           /\ uplink'[k] = uplink[k] \o <<a>>
           /\ \A x : InSeq(x, uplink'[k]) <=> InSeq(x, uplink[k]) \/ x = a
           /\ \A j \in 1..MaxConn : j # k => uplink'[j] = uplink[j]
<1>1. <<a>> \in Seq(Message) /\ \A x : InSeq(x, <<a>>) <=> x = a
  BY InSeqOne
<1>2. /\ uplink' \in [1..MaxConn -> Seq(Message)]
      /\ uplink'[k] = uplink[k] \o <<a>>
      /\ \A x : InSeq(x, uplink'[k]) <=> InSeq(x, uplink[k]) \/ InSeq(x, <<a>>)
      /\ \A j \in 1..MaxConn : j # k => uplink'[j] = uplink[j]
  BY <1>1, SendsStep
<1>3. \A x : InSeq(x, uplink'[k]) <=> InSeq(x, uplink[k]) \/ x = a
  BY <1>1, <1>2
<1> QED
  BY <1>1, <1>2, <1>3

LEMMA ReadStep ==
    ASSUME PushTypeOK, NEW k \in 1..MaxConn, GateRead(k)
    PROVE  /\ uplink' \in [1..MaxConn -> Seq(Message)]
           /\ Head(uplink[k]) \in Message
           /\ uplink'[k] = Tail(uplink[k])
           /\ \A x : InSeq(x, uplink[k]) <=> x = Head(uplink[k]) \/ InSeq(x, uplink'[k])
           /\ \A j \in 1..MaxConn : j # k => uplink'[j] = uplink[j]
<1>1. /\ uplink \in [1..MaxConn -> Seq(Message)]
      /\ uplink[k] # <<>>
      /\ uplink' = [uplink EXCEPT ![k] = Tail(@)]
  BY DEF PushTypeOK, GateRead
<1>2. uplink[k] \in Seq(Message) /\ uplink'[k] = Tail(uplink[k])
  BY <1>1
<1>3. /\ Head(uplink[k]) \in Message /\ Tail(uplink[k]) \in Seq(Message)
      /\ \A x : InSeq(x, uplink[k]) <=> x = Head(uplink[k]) \/ InSeq(x, uplink'[k])
  BY <1>1, <1>2, InSeqTail
<1> QED
  BY <1>1, <1>2, <1>3

(***************************************************************************)
(* Types are kept; a failure leaves a trace in the count of failures.      *)
(***************************************************************************)
LEMMA PushTypeInit == PushInit => PushTypeOK
<1> SUFFICES ASSUME PushInit PROVE PushTypeOK
  OBVIOUS
<1>1. /\ 0 \in 0..MaxConn /\ 0 \in 0..MaxLogin /\ 0 \in 0..MaxFault
  BY PushAssumption, SMTT(60)
<1>2. <<>> \in Seq(Message)
  BY SMTT(60)
<1> QED
  BY <1>1, <1>2 DEF PushInit, PushTypeOK

LEMMA FaultStep == PushTypeOK /\ Fault => faults' \in 0..MaxFault /\ faults' # 0
BY PushAssumption, SMTT(60) DEF PushTypeOK, Fault

(* Only a login and a logoff that is older than redis's entry overtakes. *)
LEMMA OvertakeStep ==
    ASSUME PushTypeOK, NEW i \in 1..MaxLogin, Overtakes(i)
    PROVE  /\ overtaken' \subseteq 1..MaxLogin
           /\ overtaken \subseteq overtaken'
           /\ owner > i => owner \in overtaken'
<1>1. owner > i => owner \in 1..MaxLogin
  BY PushAssumption, SMTT(60) DEF PushTypeOK
<1> QED
  BY <1>1 DEF PushTypeOK, Overtakes

LEMMA PushTypeStep ==
    ASSUME PushTypeOK, SessionInv, [PushNext]_pushVars
    PROVE  PushTypeOK'
<1>0. /\ 0 \in 0..MaxConn
      /\ 0 \in 0..MaxLogin
      /\ \A k \in 1..MaxConn : k \in 0..MaxConn
      /\ \A i \in 1..MaxLogin : i \in 0..MaxLogin
      /\ conn # 0 => conn \in 1..MaxConn
      /\ conns < MaxConn => conns + 1 \in 0..MaxConn
      /\ logins # 0 => logins \in 1..MaxLogin
      /\ logins < MaxLogin => logins + 1 \in 1..MaxLogin
  BY PushAssumption, SMTT(60) DEF PushTypeOK
<1>1. CASE ClientConnect
  BY <1>0, <1>1 DEF PushTypeOK, ClientConnect, redisVars
<1>2. CASE Login
  <2>1. uplink' \in [1..MaxConn -> Seq(Message)]
    BY <1>2, LoginSends
  <2> QED
    BY <1>0, <1>2, <2>1 DEF PushTypeOK, Login, redisVars
<1>3. CASE Logoff
  <2>1. <<"logoff", logins>> \in Message
    BY <1>0, <1>3, MessageKinds DEF Logoff, SessionInv
  <2>2. uplink' \in [1..MaxConn -> Seq(Message)]
    BY <1>0, <1>3, <2>1, OneSends DEF Logoff, SessionInv
  <2> QED
    BY <1>0, <1>3, <2>2 DEF PushTypeOK, Logoff, redisVars
<1>4. CASE Disconnect
  BY <1>0, <1>4 DEF PushTypeOK, Disconnect, redisVars
<1>5. ASSUME NEW k \in 1..MaxConn, Lose(k)
      PROVE  PushTypeOK'
  <2>1. <<>> \in Seq(Message)
    BY SMTT(60)
  <2> QED
    BY <1>5, <2>1 DEF PushTypeOK, Lose, clientVars, redisVars
<1>6. ASSUME NEW k \in 1..MaxConn, NEW m \in Msg, NEW l \in 0..MaxLogin,
             Push2Client(k, m, l)
      PROVE  PushTypeOK'
  <2>1. uplink' \in [1..MaxConn -> Seq(Message)]
    BY <1>6, OneSends, MessageKinds DEF Push2Client, PushTypeOK
  <2>2. handled' \subseteq Msg /\ faults' \in 0..MaxFault
    BY <1>6, FaultStep DEF Push2Client, PushTypeOK
  <2> QED
    BY <1>6, <2>1, <2>2 DEF PushTypeOK, Push2Client, clientVars, redisVars
<1>7. ASSUME NEW k \in 1..MaxConn, GateRead(k)
      PROVE  PushTypeOK'
  <2>1. Head(uplink[k]) \in Message /\ uplink' \in [1..MaxConn -> Seq(Message)]
    BY <1>7, ReadStep
  <2>2. CASE Head(uplink[k])[1] = "login"
    <3>1. PICK i \in 1..MaxLogin : Head(uplink[k]) = <<"login", i>>
      BY <2>1, <2>2, MessageKinds
    <3>2. CASE redis' = k /\ owner' = i /\ Overtakes(i) /\ UNCHANGED faults
      BY <1>0, <1>7, <2>1, <2>2, <3>2, OvertakeStep DEF PushTypeOK, GateRead, clientVars
    <3>3. CASE Fault /\ UNCHANGED redisVars
      BY <1>7, <2>1, <2>2, <3>3, FaultStep DEF PushTypeOK, GateRead, clientVars, redisVars
    <3> QED
      BY <1>7, <2>2, <3>1, <3>2, <3>3 DEF GateRead
  <2>3. CASE Head(uplink[k])[1] # "login"
    BY <1>7, <2>1, <2>3 DEF PushTypeOK, GateRead, clientVars, redisVars
  <2> QED
    BY <2>2, <2>3
<1>8. ASSUME NEW i \in 1..MaxLogin, GateLogoff(i)
      PROVE  PushTypeOK'
  <2>1. CASE redis' = 0 /\ owner' = 0 /\ Overtakes(i) /\ UNCHANGED faults
    BY <1>0, <1>8, <2>1, OvertakeStep DEF PushTypeOK, GateLogoff, clientVars
  <2>2. CASE Fault /\ UNCHANGED redisVars
    BY <1>8, <2>2, FaultStep DEF PushTypeOK, GateLogoff, clientVars, redisVars
  <2> QED
    BY <1>8, <2>1, <2>2 DEF GateLogoff
<1>9. ASSUME NEW m \in Msg, S2PPush(m)
      PROVE  PushTypeOK'
  <2>1. /\ mongo' \in [Msg -> {"none", "unarrive", "arrived"}]
        /\ lookups' \subseteq Msg \X (0..MaxLogin)
        /\ pushed' \subseteq Msg
        /\ faults' \in 0..MaxFault
    BY <1>0, <1>9, FaultStep, SMTT(30) DEF PushTypeOK, S2PPush
  <2> QED
    BY <1>9, <2>1 DEF PushTypeOK, S2PPush, clientVars, redisVars
<1>10. ASSUME NEW m \in Msg, NEW l \in 0..MaxLogin, PushToGate(m, l)
       PROVE  PushTypeOK'
  <2>1. redis # 0 => redis \in 1..MaxConn
    BY SMTT(60) DEF PushTypeOK
  <2>2. down' \subseteq (1..MaxConn) \X Msg \X (0..MaxLogin)
    BY <1>10, <2>1, SMTT(30) DEF PushTypeOK, PushToGate
  <2> QED
    BY <1>10, <2>2, FaultStep DEF PushTypeOK, PushToGate, clientVars, redisVars
<1>11. ASSUME NEW i \in 1..MaxLogin, PushRestore(i)
       PROVE  PushTypeOK'
  <2>1. lookups' \subseteq Msg \X (0..MaxLogin)
    BY <1>0, <1>11, PushAssumption, SMTT(30) DEF PushTypeOK, PushRestore
  <2> QED
    BY <1>11, <2>1, FaultStep DEF PushTypeOK, PushRestore, clientVars, redisVars
<1>12. ASSUME NEW m \in Msg, PushReply(m)
       PROVE  PushTypeOK'
  BY <1>12, FaultStep DEF PushTypeOK, PushReply, clientVars, redisVars
<1>13. CASE UNCHANGED pushVars
  BY <1>13 DEF PushTypeOK, pushVars
<1> QED
  BY <1>1, <1>2, <1>3, <1>4, <1>5, <1>6, <1>7, <1>8, <1>9, <1>10, <1>11, <1>12, <1>13
     DEF PushNext, Client, Handlers

(***************************************************************************)
(* No step leaves the client logged in without a connection.               *)
(***************************************************************************)
LEMMA SessionStep ==
    ASSUME PushTypeOK, SessionInv, [PushNext]_pushVars
    PROVE  SessionInv'
<1>1. logins + 1 # 0
  BY SMTT(60) DEF PushTypeOK
<1> QED
  BY <1>1
     DEF SessionInv, PushNext, Client, Handlers, ClientConnect, Login, Logoff,
         Disconnect, Lose, Push2Client, GateRead, GateLogoff, S2PPush, PushToGate,
         PushRestore, PushReply, clientVars, pushVars

(***************************************************************************)
(* Replies are made only by Push2Client, after the message is handled.     *)
(***************************************************************************)
LEMMA HandledStep ==
    ASSUME PushTypeOK, SessionInv, HandledInv, [PushNext]_pushVars
    PROVE  HandledInv'
<1>0. /\ conn # 0 => conn \in 1..MaxConn
      /\ logins # 0 => logins \in 1..MaxLogin
      /\ logins < MaxLogin => logins + 1 \in 1..MaxLogin
      /\ mongo \in [Msg -> {"none", "unarrive", "arrived"}]
      /\ Safe \subseteq Msg
  BY PushAssumption, SMTT(60) DEF PushTypeOK
<1>1. CASE ClientConnect \/ Disconnect \/ UNCHANGED pushVars
  BY <1>1 DEF HandledInv, ClientConnect, Disconnect, pushVars
<1>2. CASE Login
  <2>1. \A m \in Safe, k \in 1..MaxConn :
           InSeq(<<"reply", m>>, uplink'[k]) => InSeq(<<"reply", m>>, uplink[k])
    BY <1>2, LoginSends
  <2> QED
    BY <1>2, <2>1 DEF HandledInv, Login
<1>3. CASE Logoff
  <2>1. <<"logoff", logins>> \in Message /\ conn \in 1..MaxConn
    BY <1>0, <1>3, MessageKinds DEF Logoff, SessionInv
  <2>2. \A m \in Safe, k \in 1..MaxConn :
           InSeq(<<"reply", m>>, uplink'[k]) => InSeq(<<"reply", m>>, uplink[k])
    BY <1>3, <2>1, OneSends DEF Logoff
  <2> QED
    BY <1>3, <2>2 DEF HandledInv, Logoff
<1>5. ASSUME NEW k \in 1..MaxConn, Lose(k)
      PROVE  HandledInv'
  <2>1. \A j \in 1..MaxConn : uplink'[j] = <<>> \/ uplink'[j] = uplink[j]
    BY <1>5 DEF PushTypeOK, Lose
  <2>2. \A x : ~InSeq(x, <<>>)
    BY InSeqEmpty
  <2> QED
    BY <1>5, <2>1, <2>2 DEF HandledInv, Lose
<1>6. ASSUME NEW k \in 1..MaxConn, NEW m \in Msg, NEW l \in 0..MaxLogin,
             Push2Client(k, m, l)
      PROVE  HandledInv'
  <2>1. CASE UNCHANGED uplink
    BY <1>6, <2>1 DEF HandledInv, Push2Client
  <2>2. CASE m \in Safe /\ m \in handled' /\ Sends(k, <<<<"reply", m>>>>)
    <3>1. <<"reply", m>> \in Message
      BY <2>2, MessageKinds
    <3>2. \A n \in Safe, j \in 1..MaxConn :
             InSeq(<<"reply", n>>, uplink'[j]) => InSeq(<<"reply", n>>, uplink[j]) \/ n = m
      BY <2>2, <3>1, OneSends
    <3> QED
      BY <1>6, <2>2, <3>2 DEF HandledInv, Push2Client
  <2> QED
    BY <1>6, <2>1, <2>2 DEF Push2Client
<1>7. ASSUME NEW k \in 1..MaxConn, GateRead(k)
      PROVE  HandledInv'
  <2>1. \A m \in Safe, j \in 1..MaxConn :
           InSeq(<<"reply", m>>, uplink'[j]) => InSeq(<<"reply", m>>, uplink[j])
    BY <1>7, ReadStep
  <2>2. \A m \in Safe : <<"reply", m>> = Head(uplink[k]) => m \in handled
    BY <1>7, ReadStep DEF HandledInv
  <2> QED
    BY <1>7, <2>1, <2>2 DEF HandledInv, GateRead
<1>8. ASSUME NEW i \in 1..MaxLogin, GateLogoff(i) \/ PushRestore(i)
      PROVE  HandledInv'
  BY <1>8 DEF HandledInv, GateLogoff, PushRestore
<1>9. ASSUME NEW m \in Msg, S2PPush(m)
      PROVE  HandledInv'
  BY <1>0, <1>9 DEF HandledInv, S2PPush
<1>10. ASSUME NEW m \in Msg, NEW l \in 0..MaxLogin, PushToGate(m, l)
       PROVE  HandledInv'
  BY <1>10 DEF HandledInv, PushToGate
<1>11. ASSUME NEW m \in Msg, PushReply(m)
       PROVE  HandledInv'
  <2>1. m \in handled
    <3>1. <<"reply", m>> \in Message
      BY <1>11 DEF PushReply, PushTypeOK
    <3>2. m \in Safe
      BY <3>1, SMTT(60) DEF Message
    <3> QED
      BY <1>11, <3>2 DEF HandledInv, PushReply
  <2> QED
    BY <1>0, <1>11, <2>1 DEF HandledInv, PushReply
<1> QED
  BY <1>1, <1>2, <1>3, <1>5, <1>6, <1>7, <1>8, <1>9, <1>10, <1>11
     DEF PushNext, Client, Handlers

(***************************************************************************)
(* Only the client sends logins and logoffs; everyone else moves messages  *)
(* from the queues to the pool, or drops them.                             *)
(***************************************************************************)
LEMMA OnlyMoved ==
    ASSUME PushTypeOK, [PushNext]_pushVars, ~Login, ~Logoff,
           NEW c \in {"login", "logoff"}, NEW i
    PROVE  /\ \A k \in 1..MaxConn :
                 InSeq(<<c, i>>, uplink'[k]) => InSeq(<<c, i>>, uplink[k])
           /\ <<c, i>> \in pool' =>
                 <<c, i>> \in pool \/ \E k \in 1..MaxConn : InSeq(<<c, i>>, uplink[k])
<1> DEFINE x == <<c, i>>
           Goal == /\ \A k \in 1..MaxConn : InSeq(x, uplink'[k]) => InSeq(x, uplink[k])
                   /\ x \in pool' => x \in pool \/ \E k \in 1..MaxConn : InSeq(x, uplink[k])
<1>0. \A m : x # <<"reply", m>>
  OBVIOUS
<1> HIDE DEF x
<1>1. ASSUME UNCHANGED uplink, pool' \subseteq pool PROVE Goal
  BY <1>1
<1>2. ASSUME NEW k \in 1..MaxConn, Lose(k) PROVE Goal
  <2>1. \A j \in 1..MaxConn : uplink'[j] = <<>> \/ uplink'[j] = uplink[j]
    BY <1>2 DEF PushTypeOK, Lose
  <2> QED
    BY <1>2, <2>1, InSeqEmpty DEF Lose
<1>3. ASSUME NEW k \in 1..MaxConn, NEW m \in Msg, NEW l \in 0..MaxLogin,
             Push2Client(k, m, l)
      PROVE  Goal
  <2>1. pool' = pool
    BY <1>3 DEF Push2Client
  <2>2. CASE m \in Safe /\ Sends(k, <<<<"reply", m>>>>)
    <3>1. <<"reply", m>> \in Message
      BY <2>2, MessageKinds
    <3>2. \A j \in 1..MaxConn : InSeq(x, uplink'[j]) => InSeq(x, uplink[j])
      BY <1>0, <2>2, <3>1, OneSends
    <3> QED
      BY <2>1, <3>2
  <2> QED
    BY <1>1, <1>3, <2>1, <2>2 DEF Push2Client
<1>4. ASSUME NEW k \in 1..MaxConn, GateRead(k) PROVE Goal
  <2>1. \A j \in 1..MaxConn : InSeq(x, uplink'[j]) => InSeq(x, uplink[j])
    BY <1>4, ReadStep
  <2>2. x = Head(uplink[k]) => InSeq(x, uplink[k])
    BY <1>4, ReadStep
  <2> QED
    BY <1>4, <2>1, <2>2 DEF GateRead
<1>5. ASSUME \/ ClientConnect \/ Disconnect \/ UNCHANGED pushVars
             \/ \E j \in 1..MaxLogin : GateLogoff(j) \/ PushRestore(j)
             \/ \E m \in Msg : PushReply(m) \/ S2PPush(m)
             \/ \E m \in Msg, l \in 0..MaxLogin : PushToGate(m, l)
      PROVE  Goal
  BY <1>1, <1>5 DEF ClientConnect, Disconnect, GateLogoff, PushRestore, PushReply, S2PPush,
                    PushToGate, pushVars
<1>6. Goal
  BY <1>2, <1>3, <1>4, <1>5 DEF PushNext, Client, Handlers
<1> QED
  BY <1>6 DEF x

LEMMA NumberStep ==
    ASSUME PushTypeOK, SessionInv, NumberInv, [PushNext]_pushVars
    PROVE  NumberInv'
<1>0. /\ conn # 0 => conn \in 1..MaxConn
      /\ logins # 0 => logins \in 1..MaxLogin
      /\ logins < MaxLogin => logins + 1 \in 1..MaxLogin
      /\ \A i \in 1..MaxLogin : i > logins + 1 => i > logins /\ i # logins + 1
      /\ \A i \in 1..MaxLogin : i > logins => i # logins
      /\ logins + 1 > logins
  BY PushAssumption, SMTT(60) DEF PushTypeOK
<1>1. CASE Login
  <2>1. /\ logins + 1 \in 1..MaxLogin /\ logins' = logins + 1
        /\ conn' = conn /\ pool' = pool
    BY <1>0, <1>1 DEF Login
  <2>2. ASSUME NEW i
        PROVE  /\ \A k \in 1..MaxConn :
                     InSeq(<<"logoff", i>>, uplink'[k]) => InSeq(<<"logoff", i>>, uplink[k])
               /\ \A k \in 1..MaxConn : k # conn \/ i # logins + 1 =>
                     (InSeq(<<"login", i>>, uplink'[k]) => InSeq(<<"login", i>>, uplink[k]))
    <3>1. /\ <<"logoff", i>> # <<"login", logins + 1>>
          /\ <<"logoff", i>> # <<"restore", logins + 1>>
          /\ <<"login", i>> # <<"restore", logins + 1>>
          /\ <<"login", i>> = <<"login", logins + 1>> => i = logins + 1
      OBVIOUS
    <3> QED
      BY <1>1, <3>1, LoginSends
  <2>3. ASSUME NEW i \in 1..MaxLogin, i > logins
        PROVE  /\ Unsent(i)'
               /\ \A k \in 1..MaxConn : k # conn \/ i # logins + 1 =>
                     ~InSeq(<<"login", i>>, uplink'[k])
    BY <2>1, <2>2, <2>3 DEF NumberInv, Unsent
  <2> QED
    BY <1>0, <2>1, <2>3 DEF NumberInv
<1>2. CASE Logoff
  <2>1. /\ conn \in 1..MaxConn /\ ~in' /\ logins' = logins /\ pool' = pool
        /\ <<"logoff", logins>> \in Message
    BY <1>0, <1>2, MessageKinds DEF Logoff, SessionInv
  <2>2. ASSUME NEW i, i # logins
        PROVE  /\ \A k \in 1..MaxConn :
                     InSeq(<<"logoff", i>>, uplink'[k]) => InSeq(<<"logoff", i>>, uplink[k])
               /\ \A k \in 1..MaxConn :
                     InSeq(<<"login", i>>, uplink'[k]) => InSeq(<<"login", i>>, uplink[k])
    <3>1. <<"logoff", i>> # <<"logoff", logins>> /\ <<"login", i>> # <<"logoff", logins>>
      BY <2>2
    <3> QED
      BY <1>2, <2>1, <3>1, OneSends DEF Logoff
  <2> QED
    BY <1>0, <2>1, <2>2 DEF NumberInv, Unsent
<1>3. CASE ~Login /\ ~Logoff
  <2>1. logins' = logins /\ (in' => in /\ conn' = conn)
    <3>1. CASE ClientConnect \/ Disconnect
      BY <3>1 DEF SessionInv, ClientConnect, Disconnect
    <3>2. CASE UNCHANGED clientVars
      BY <3>2 DEF clientVars
    <3> QED
      BY <1>3, <3>1, <3>2
         DEF PushNext, Client, Handlers, Lose, Push2Client, GateRead, GateLogoff, S2PPush,
             PushToGate, PushRestore, PushReply, clientVars, pushVars
  <2>2. ASSUME NEW i, Unsent(i) PROVE Unsent(i)'
    BY <1>3, <2>2, OnlyMoved DEF Unsent
  <2>3. ASSUME NEW i, NEW k \in 1..MaxConn, ~InSeq(<<"login", i>>, uplink[k])
        PROVE  ~InSeq(<<"login", i>>, uplink'[k])
    BY <1>3, <2>3, OnlyMoved
  <2> QED
    BY <2>1, <2>2, <2>3 DEF NumberInv
<1> QED
  BY <1>1, <1>2, <1>3

(***************************************************************************)
(* In a session that nothing failed in and whose entry was not taken, the  *)
(* client is as it was before the step, unless the step is the login that  *)
(* begins the session.                                                     *)
(***************************************************************************)
LEMMA LoggedInStep ==
    ASSUME PushTypeOK, SessionInv, [PushNext]_pushVars, LoggedIn'
    PROVE  Login \/ (LoggedIn /\ UNCHANGED clientVars /\ UNCHANGED faults)
<1>1. Fault => faults' # 0
  BY FaultStep
<1>2. overtaken \subseteq overtaken'
  BY DEF PushNext, Client, Handlers, ClientConnect, Login, Logoff, Disconnect, Lose,
         Push2Client, GateRead, GateLogoff, S2PPush, PushToGate, PushRestore, PushReply,
         redisVars, pushVars, Overtakes
<1> QED
  BY <1>1, <1>2
     DEF LoggedIn, SessionInv, PushNext, Client, Handlers, ClientConnect, Login,
         Logoff, Disconnect, Lose, Push2Client, GateRead, GateLogoff, S2PPush,
         PushToGate, PushRestore, PushReply, clientVars, pushVars

(***************************************************************************)
(* A login puts itself and the restore at the end of the queue.            *)
(***************************************************************************)
LEMMA AtLogin ==
    ASSUME PushTypeOK, Login
    PROVE  LoginNext' /\ \A m \in Safe : OnItsWay(m)'
<1> DEFINE a == <<"login", logins + 1>>
           b == <<"restore", logins + 1>>
<1>1. logins + 1 \in 1..MaxLogin /\ conn' = conn /\ logins' = logins + 1
  BY PushAssumption, SMTT(60) DEF Login, PushTypeOK
<1>2. a \in Message /\ b \in Message
  BY <1>1, MessageKinds
<1>3. /\ conn \in 1..MaxConn
      /\ uplink'[conn] = uplink[conn] \o <<a, b>>
      /\ InSeq(b, uplink'[conn])
  BY LoginSends
<1>4. a = <<"login", logins'>> /\ b = <<"restore", logins'>>
  BY <1>1
<1> HIDE DEF a, b
<1>5. uplink[conn] \in Seq(Message)
  BY <1>3 DEF PushTypeOK
<1>6. Adjacent(uplink'[conn], a, b)
  BY <1>2, <1>3, <1>5, AdjacentEnd
<1>7. LoginNext'
  BY <1>1, <1>4, <1>6 DEF LoginNext
<1> QED
  BY <1>1, <1>3, <1>4, <1>7 DEF OnItsWay

(***************************************************************************)
(* Each step of a session leaves every unarrived push on its way.          *)
(* PushToGate could drop one: if the gate has read the login, redis has    *)
(* the client's connection; if not, the restore is still to come.  An      *)
(* older login or logoff that is handled after this login overtakes it.    *)
(***************************************************************************)
LEMMA LoginStep ==
    ASSUME PushTypeOK, SessionInv, NumberInv, LoginInv, MissedInv,
           [PushNext]_pushVars, LoggedIn', ~Login
    PROVE  /\ (LoginRead \/ LoginNext)'
           /\ \A m \in Safe : mongo'[m] = "unarrive" => OnItsWay(m)'
<1>1. LoggedIn /\ conn' = conn /\ in /\ logins' = logins /\ faults' = faults
  BY LoggedInStep DEF clientVars, LoggedIn
<1>2. /\ LoginRead \/ LoginNext
      /\ \A m \in Safe : mongo[m] = "unarrive" => OnItsWay(m)
  BY <1>1 DEF LoginInv, MissedInv
<1>3. /\ conn # 0 /\ conn \in 1..MaxConn
      /\ uplink \in [1..MaxConn -> Seq(Message)]
      /\ \A i \in 1..MaxLogin : i \in 0..MaxLogin
      /\ 0 \in 0..MaxLogin
      /\ Safe \subseteq Msg
      /\ mongo \in [Msg -> {"none", "unarrive", "arrived"}]
      /\ \A i \in 1..MaxLogin : i = logins \/ i > logins \/ logins > i
  BY <1>1, PushAssumption, SMTT(60) DEF PushTypeOK, SessionInv
<1>4. ~Fault
  BY <1>1, FaultStep DEF LoggedIn
<1> DEFINE Goal == /\ (LoginRead \/ LoginNext)'
                   /\ \A m \in Safe : mongo'[m] = "unarrive" => OnItsWay(m)'
<1>5. ASSUME NEW i \in 1..MaxLogin, Overtakes(i), logins > i
      PROVE  ~LoginRead
  BY <1>1, <1>5, OvertakeStep DEF LoginRead, LoggedIn
<1>6. ASSUME \/ UNCHANGED pushVars
             \/ \E k \in 1..MaxConn : Lose(k)
      PROVE  Goal
  <2>1. uplink'[conn] = uplink[conn] /\ UNCHANGED <<pool, redis, owner, mongo, lookups, down>>
    BY <1>3, <1>6 DEF Lose, pushVars, redisVars
  <2> QED
    BY <1>1, <1>2, <2>1 DEF LoginRead, LoginNext, OnItsWay
<1>7. ASSUME NEW k \in 1..MaxConn, NEW m \in Msg, NEW l \in 0..MaxLogin,
             Push2Client(k, m, l)
      PROVE  Goal
  <2>1. /\ UNCHANGED <<pool, redis, owner, mongo, lookups>>
        /\ \A x : x # <<k, m, l>> /\ x \in down => x \in down'
    BY <1>7 DEF Push2Client, redisVars
  <2>2. CASE UNCHANGED uplink /\ (k = conn => m \notin Safe)
    <3>1. \A n \in Safe : \A j : <<conn, n, j>> # <<k, m, l>>
      BY <2>2
    <3> QED
      BY <1>1, <1>2, <2>1, <2>2, <3>1 DEF LoginRead, LoginNext, OnItsWay
  <2>3. CASE k = conn /\ m \in Safe /\ Sends(k, <<<<"reply", m>>>>)
    <3> DEFINE a == <<"reply", m>>
    <3>1. a \in Message
      BY <2>3, MessageKinds
    <3>2. \A n \in Safe : \A j : n # m => <<conn, n, j>> # <<k, m, l>>
      OBVIOUS
    <3> DEFINE t == <<a>>
    <3> HIDE DEF a, t
    <3>3. /\ t \in Seq(Message)
          /\ uplink'[conn] = uplink[conn] \o t
          /\ \A x : InSeq(x, uplink'[conn]) <=> InSeq(x, uplink[conn]) \/ x = a
      BY <2>3, <3>1, OneSends DEF a, t
    <3>4. uplink[conn] \in Seq(Message)
      BY <1>3
    <3>5. ASSUME LoginNext PROVE LoginNext'
      BY <1>1, <3>3, <3>4, <3>5, AdjacentConcat DEF LoginNext
    <3>6. ASSUME LoginRead PROVE LoginRead'
      BY <1>1, <2>1, <3>6 DEF LoginRead
    <3>7. ASSUME NEW n \in Safe, mongo'[n] = "unarrive"
          PROVE  OnItsWay(n)'
      <4>1. CASE n = m
        BY <1>1, <3>3, <4>1 DEF OnItsWay, a
      <4>2. CASE n # m
        BY <1>1, <1>2, <2>1, <3>2, <3>3, <3>7, <4>2 DEF OnItsWay
      <4> QED
        BY <4>1, <4>2
    <3> QED
      BY <1>2, <3>5, <3>6, <3>7
  <2> QED
    BY <1>4, <1>7, <2>2, <2>3 DEF Push2Client, HasClient
<1>8. ASSUME NEW k \in 1..MaxConn, GateRead(k)
      PROVE  Goal
  <2> DEFINE a == Head(uplink[k])
  <2>1. /\ a \in Message
        /\ uplink'[k] = Tail(uplink[k])
        /\ \A x : InSeq(x, uplink[k]) <=> x = a \/ InSeq(x, uplink'[k])
        /\ \A j \in 1..MaxConn : j # k => uplink'[j] = uplink[j]
    BY <1>8, ReadStep
  <2>2. /\ UNCHANGED <<mongo, lookups, down>>
        /\ a[1] = "login" => redis' = k /\ owner' = a[2] /\ Overtakes(a[2]) /\ pool' = pool
        /\ a[1] # "login" => redis' = redis /\ owner' = owner /\ pool' = pool \cup {a}
    BY <1>4, <1>8 DEF GateRead, redisVars
  <2>3. uplink[k] \in Seq(Message) /\ uplink[k] # <<>>
    BY <1>3, <1>8 DEF GateRead
  <2>4. LoginNext => (a = <<"login", logins>> /\ k = conn) \/ LoginNext'
    BY <1>1, <1>3, <2>1, <2>3, AdjacentTail DEF LoginNext
  <2> HIDE DEF a
  <2>5. ASSUME a[1] = "login" PROVE (LoginRead \/ LoginNext)'
    <3>1. PICK i \in 1..MaxLogin : a = <<"login", i>>
      BY <2>1, <2>5, MessageKinds
    <3>2. /\ InSeq(<<"login", i>>, uplink[k])
          /\ redis' = k /\ owner' = i /\ Overtakes(i) /\ pool' = pool
      BY <2>1, <2>2, <2>5, <3>1
    <3>3. CASE i = logins
      <4>1. k = conn
        BY <1>1, <3>2, <3>3 DEF NumberInv
      <4> QED
        BY <1>1, <3>2, <3>3, <4>1 DEF LoginRead
    <3>4. CASE logins > i
      <4>1. ~LoginRead /\ i # logins
        BY <1>5, <3>2, <3>4, SMTT(30)
      <4>2. a # <<"login", logins>>
        BY <3>1, <4>1
      <4> QED
        BY <1>2, <2>4, <4>1, <4>2
    <3>5. ~(i > logins)
      BY <3>2 DEF NumberInv
    <3> QED
      BY <1>3, <3>3, <3>4, <3>5
  <2>6. ASSUME a[1] # "login" PROVE (LoginRead \/ LoginNext)'
    <3>1. a # <<"login", logins>>
      BY <2>6
    <3> QED
      BY <1>1, <1>2, <2>2, <2>4, <2>6, <3>1 DEF LoginRead
  <2>7. (LoginRead \/ LoginNext)'
    BY <2>5, <2>6
  <2>8. \A n : <<"reply", n>>[1] # "login" /\ <<"restore", n>>[1] # "login"
    OBVIOUS
  <2>9. ASSUME NEW x, x[1] # "login", x \in pool \/ InSeq(x, uplink[conn])
        PROVE  x \in pool' \/ InSeq(x, uplink'[conn])
    BY <1>3, <2>1, <2>2, <2>9
  <2>10. ASSUME NEW n \in Safe, mongo'[n] = "unarrive"
         PROVE  OnItsWay(n)'
    BY <1>1, <1>2, <2>2, <2>8, <2>9, <2>10 DEF OnItsWay
  <2> QED
    BY <2>7, <2>10
<1>9. ASSUME NEW i \in 1..MaxLogin, GateLogoff(i)
      PROVE  Goal
  <2>1. /\ UNCHANGED <<uplink, mongo, lookups, down>>
        /\ \A x : x # <<"logoff", i>> /\ x \in pool => x \in pool'
        /\ Overtakes(i)
    BY <1>4, <1>9 DEF GateLogoff
  <2>2. i # logins /\ ~(i > logins)
    BY <1>1, <1>9 DEF GateLogoff, NumberInv, Unsent
  <2>3. LoginNext
    BY <1>2, <1>3, <1>5, <2>1, <2>2
  <2>4. \A n : <<"reply", n>> # <<"logoff", i>> /\ <<"restore", n>> # <<"logoff", i>>
    OBVIOUS
  <2> QED
    BY <1>1, <1>2, <2>1, <2>3, <2>4 DEF LoginNext, OnItsWay
<1>10. ASSUME NEW m \in Msg, S2PPush(m)
       PROVE  Goal
  <2>1. /\ UNCHANGED <<uplink, pool, redis, owner, down>>
        /\ lookups' = lookups \cup {<<m, 0>>}
        /\ mongo' = [mongo EXCEPT ![m] = "unarrive"] \/ mongo' = mongo
    BY <1>4, <1>10 DEF S2PPush, redisVars
  <2>2. \A n \in Safe : mongo'[n] = "unarrive" =>
                           mongo[n] = "unarrive" \/ <<n, 0>> \in lookups'
    BY <1>3, <2>1
  <2> QED
    BY <1>1, <1>2, <1>3, <2>1, <2>2 DEF LoginRead, LoginNext, OnItsWay
<1>11. ASSUME NEW m \in Msg, NEW l \in 0..MaxLogin, PushToGate(m, l)
       PROVE  Goal
  <2>1. /\ UNCHANGED <<uplink, pool, redis, owner, mongo>>
        /\ \A x : x # <<m, l>> /\ x \in lookups => x \in lookups'
        /\ down \subseteq down'
        /\ redis # 0 => <<redis, m, l>> \in down'
    BY <1>4, <1>11 DEF PushToGate, redisVars
  <2>2. (LoginRead \/ LoginNext)'
    BY <1>1, <1>2, <2>1 DEF LoginRead, LoginNext
  <2>3. LoginRead => <<conn, m, l>> \in down'
    BY <1>3, <2>1 DEF LoginRead
  <2>4. LoginNext => InSeq(<<"restore", logins>>, uplink[conn])
    BY <1>3, AdjacentIn DEF LoginNext
  <2>5. ASSUME NEW n \in Safe, mongo'[n] = "unarrive"
        PROVE  OnItsWay(n)'
    <3>1. \A j \in 0..MaxLogin : <<n, j>> = <<m, l>> => n = m
      OBVIOUS
    <3>2. CASE \E j \in 0..MaxLogin : <<n, j>> \in lookups /\ <<n, j>> \notin lookups'
      BY <1>1, <1>2, <2>1, <2>3, <2>4, <3>1, <3>2 DEF OnItsWay
    <3> QED
      BY <1>1, <1>2, <2>1, <2>5, <3>2 DEF OnItsWay
  <2> QED
    BY <2>2, <2>5
<1>12. ASSUME NEW i \in 1..MaxLogin, PushRestore(i)
       PROVE  Goal
  <2>1. /\ UNCHANGED <<uplink, redis, owner, mongo, down>>
        /\ pool' \subseteq pool
        /\ \A x : x # <<"restore", i>> /\ x \in pool => x \in pool'
        /\ \A n \in Safe : mongo[n] = "unarrive" => <<n, i>> \in lookups'
    BY <1>4, <1>12 DEF PushRestore, redisVars
  <2> QED
    BY <1>1, <1>2, <1>3, <2>1 DEF LoginRead, LoginNext, OnItsWay
<1>13. ASSUME NEW m \in Msg, PushReply(m)
       PROVE  Goal
  <2>1. /\ UNCHANGED <<uplink, redis, owner, lookups, down>>
        /\ pool' \subseteq pool
        /\ \A x : x # <<"reply", m>> /\ x \in pool => x \in pool'
        /\ mongo' = [mongo EXCEPT ![m] = "arrived"]
    BY <1>4, <1>13 DEF PushReply, redisVars
  <2>2. \A n \in Safe : mongo'[n] = "unarrive" => n # m /\ mongo[n] = "unarrive"
    BY <1>3, <2>1
  <2>3. \A n : /\ n # m => <<"reply", n>> # <<"reply", m>>
               /\ <<"restore", n>> # <<"reply", m>>
    OBVIOUS
  <2> QED
    BY <1>1, <1>2, <2>1, <2>2, <2>3 DEF LoginRead, LoginNext, OnItsWay
<1>14. ~(ClientConnect \/ Logoff \/ Disconnect)
  BY <1>1, <1>3 DEF ClientConnect, Logoff, Disconnect, LoggedIn
<1> HIDE DEF Goal
<1>15. Goal
  BY <1>6, <1>7, <1>8, <1>9, <1>10, <1>11, <1>12, <1>13, <1>14
     DEF PushNext, Client, Handlers
<1> QED
  BY <1>15 DEF Goal

(***************************************************************************)
(* The invariant holds at first and is kept.                               *)
(***************************************************************************)
LEMMA PushInvInit == PushInit => PushInv
<1> SUFFICES ASSUME PushInit PROVE PushInv
  OBVIOUS
<1>1. PushTypeOK /\ ~in
  BY PushTypeInit DEF PushInit
<1>2. HandledInv /\ NumberInv
  BY InSeqEmpty DEF PushInit, HandledInv, NumberInv, Unsent
<1> QED
  BY <1>1, <1>2 DEF PushInv, SessionInv, LoginInv, MissedInv, LoggedIn

LEMMA PushInvStep == PushInv /\ [PushNext]_pushVars => PushInv'
<1> SUFFICES ASSUME PushInv, [PushNext]_pushVars PROVE PushInv'
  OBVIOUS
<1>1. PushTypeOK' /\ SessionInv' /\ NumberInv' /\ HandledInv'
  BY PushTypeStep, SessionStep, NumberStep, HandledStep DEF PushInv
<1>2. ASSUME LoggedIn'
      PROVE  /\ (LoginRead \/ LoginNext)'
             /\ \A m \in Safe : mongo'[m] = "unarrive" => OnItsWay(m)'
  <2>1. CASE Login
    BY <1>2, <2>1, AtLogin DEF PushInv
  <2>2. CASE ~Login
    BY <1>2, <2>2, LoginStep DEF PushInv
  <2> QED
    BY <2>1, <2>2
<1> QED
  BY <1>1, <1>2 DEF PushInv, LoginInv, MissedInv

(***************************************************************************)
(* Every reachable state satisfies the invariant, for any messages,        *)
(* connections, logins and failures.                                       *)
(***************************************************************************)
THEOREM PushInvariant == PushSpec => []PushInv
BY PushInvInit, PushInvStep, PTL DEF PushSpec

(***************************************************************************)
(* Every variable keeps its type.                                          *)
(***************************************************************************)
THEOREM PushTypeCorrect == PushSpec => []PushTypeOK
<1>1. PushInv => PushTypeOK
  BY DEF PushInv
<1> QED
  BY <1>1, PushInvariant, PTL

(***************************************************************************)
(* A record of mongo is marked as arrived only when the client has handled *)
(* its message.                                                            *)
(***************************************************************************)
THEOREM ArrivedAfterHandled == PushSpec => []ArrivedMeansHandled
<1>1. PushInv => ArrivedMeansHandled
  BY DEF PushInv, HandledInv, ArrivedMeansHandled
<1> QED
  BY <1>1, PushInvariant, PTL

(***************************************************************************)
(* No safe push falls between the lookup in redis and the restore from     *)
(* mongo, whatever is left of earlier logins and however many there were:  *)
(* only a failure, or an earlier login or logoff that is handled after the *)
(* present one, can lose a push to a client that is logged in.             *)
(***************************************************************************)
THEOREM NoPushFallsBetween == PushSpec => []NothingMissed
<1>1. PushInv => NothingMissed
  BY DEF PushInv, MissedInv, LoggedIn, OnItsWay, NothingMissed, Sent, InSeq
<1> QED
  BY <1>1, PushInvariant, PTL
=============================================================================
