------------------------------ MODULE TcpServer -----------------------------
(***************************************************************************)
(* ms_framework/msf_tcp_server.go: the goroutine that accepts connections, *)
(* a reader goroutine per connection (HandleRead with the PreCheck of      *)
(* RpcDecode and the vertify handler of the gate), and Stop.               *)
(*                                                                         *)
(* A critical section under the mutex is one step, but for the one that    *)
(* takes an entry away: RpcCall and AddElement, which do not take the      *)
(* mutex, can come between its two halves.  TcpClient.state is written by  *)
(* Stop, by the reader and by vertify without a common lock.               *)
(***************************************************************************)
EXTENDS Naturals, Sequences, FiniteSets

CONSTANTS Conn,        \* connections, each from an address of its own
          MaxMsg,      \* bound: messages a peer sends
          NONE

ASSUME TcpAssumption == /\ MaxMsg \in Nat
                        /\ NONE \notin Conn

VARIABLES identity,     \* GetServerIdentity()
          dialled,      \* connections the peers have opened so far
          closed,       \* those that the peer has closed, or that are dead
          inbox, sent,  \* what the peer has sent and is not read; how much it sent
          accept, cur,  \* the accept goroutine: where it is, its connection
          clients,      \* the connections that have an entry in TcpServer.clients
          state,        \* TcpClient.state
          lb,           \* the elements of TcpServer.lb
          reader, msg,  \* a reader: where it is, what it has read and not decoded
          stop, stopper, \* TcpServer.stop; the caller of Stop
          crashed       \* a nil *TcpClient was used

peers == <<identity, dialled, closed, inbox, sent>>

acc == <<accept, cur>>

read == <<reader, msg>>

vars == <<identity, dialled, closed, inbox, sent, accept, cur, clients, state,
          lb, reader, msg, stop, stopper, crashed>>

Identity == {"client gate", "service gate", "service"}

ClientGate == identity = "client gate"

Reports == identity = "service"

(* TcpServer.mutex is held between two steps. *)
Locked == \E k \in Conn : reader[k] = "unlist"

Init == /\ identity \in Identity
        /\ dialled = {}
        /\ closed = {}
        /\ inbox = [k \in Conn |-> <<>>]
        /\ sent = [k \in Conn |-> 0]
        /\ accept = "accept"
        /\ cur = NONE
        /\ clients = {}
        /\ state = [k \in Conn |-> "init"]
        /\ lb = {}
        /\ reader = [k \in Conn |-> "none"]
        /\ msg = [k \in Conn |-> <<>>]
        /\ stop = FALSE
        /\ stopper = "none"
        /\ crashed = FALSE

(***************************************************************************)
(* Peers dial, send and go away.  Only a gate knows the vertify message.   *)
(***************************************************************************)
Dial(k) ==
    /\ k \notin dialled /\ ~stop
    /\ dialled' = dialled \cup {k}
    /\ UNCHANGED <<identity, closed, inbox, sent, acc, clients, state, lb, read, stop,
                   stopper, crashed>>

Send(k) ==
    /\ k \in dialled \ closed
    /\ sent[k] < MaxMsg
    /\ sent' = [sent EXCEPT ![k] = @ + 1]
    /\ \E m \in {"rpc"} \cup (IF ClientGate THEN {"vertify"} ELSE {}) :
          inbox' = [inbox EXCEPT ![k] = Append(@, m)]
    /\ UNCHANGED <<identity, dialled, closed, acc, clients, state, lb, read, stop,
                   stopper, crashed>>

Hangup(k) ==
    /\ k \in dialled \ closed
    /\ closed' = closed \cup {k}
    /\ UNCHANGED <<identity, dialled, inbox, sent, acc, clients, state, lb, read, stop,
                   stopper, crashed>>
-----------------------------------------------------------------------------
(***************************************************************************)
(* Start: accept a connection, enter it unless Stop came first, add it to  *)
(* the load balancer, start its reader.  Then the map is read again for    *)
(* the report and for the hook of the application.                         *)
(***************************************************************************)
Accept ==
    /\ accept = "accept" /\ ~crashed
    /\ \/ /\ ~stop
          /\ \E k \in dialled : /\ reader[k] = "none" /\ k \notin clients
                                /\ cur' = k
          /\ accept' = "enter"
       \/ /\ stop
          /\ accept' = "exit"
          /\ UNCHANGED cur
    /\ UNCHANGED <<peers, clients, state, lb, read, stop, stopper, crashed>>

(* Faulty variant: stop is not looked at. *)
EnterUnchecked ==
    /\ accept = "enter" /\ ~crashed /\ ~Locked
    /\ clients' = clients \cup {cur}
    /\ state' = [state EXCEPT ![cur] = IF ClientGate THEN "init" ELSE "ok"]
    /\ accept' = "add"
    /\ UNCHANGED <<peers, cur, lb, read, stop, stopper, crashed>>

Enter ==
    /\ accept = "enter" /\ ~crashed /\ ~Locked
    /\ \/ /\ stop
          /\ accept' = "exit"
          /\ UNCHANGED <<clients, state>>
       \/ /\ ~stop
          /\ clients' = clients \cup {cur}
          /\ state' = [state EXCEPT ![cur] = IF ClientGate THEN "init" ELSE "ok"]
          /\ accept' = "add"
    /\ UNCHANGED <<peers, cur, lb, read, stop, stopper, crashed>>

AddToLb ==
    /\ accept = "add" /\ ~crashed
    /\ lb' = lb \cup {cur}
    /\ accept' = "go"
    /\ UNCHANGED <<peers, cur, clients, state, read, stop, stopper, crashed>>

GoHandleRead ==
    /\ accept = "go" /\ ~crashed
    /\ reader' = [reader EXCEPT ![cur] = "check"]
    /\ accept' = IF Reports THEN "report" ELSE "accept"
    /\ UNCHANGED <<peers, cur, clients, state, lb, msg, stop, stopper, crashed>>

Report ==
    /\ accept = "report" /\ ~crashed
    /\ crashed' = (cur \notin clients)
    /\ accept' = "accept"
    /\ UNCHANGED <<peers, cur, clients, state, lb, read, stop, stopper>>
-----------------------------------------------------------------------------
(* Faulty variant: the state is not looked at. *)
CheckStateNever(k) ==
    /\ reader[k] = "check" /\ ~crashed
    /\ reader' = [reader EXCEPT ![k] = "read"]
    /\ UNCHANGED <<peers, acc, clients, state, lb, msg, stop, stopper, crashed>>

(***************************************************************************)
(* HandleRead looks at the state, reads for at most 100 ms, and decodes    *)
(* all that it got even if the state has changed meanwhile.                *)
(***************************************************************************)
CheckState(k) ==
    /\ reader[k] = "check" /\ ~crashed
    /\ reader' = [reader EXCEPT ![k] = IF state[k] = "exit" THEN "close" ELSE "read"]
    /\ UNCHANGED <<peers, acc, clients, state, lb, msg, stop, stopper, crashed>>

Read(k) ==
    /\ reader[k] = "read" /\ ~crashed
    /\ \/ /\ \E n \in 1..Len(inbox[k]) :
                /\ msg' = [msg EXCEPT ![k] = SubSeq(inbox[k], 1, n)]
                /\ inbox' = [inbox EXCEPT ![k] = SubSeq(@, n + 1, Len(@))]
          /\ reader' = [reader EXCEPT ![k] = "decode"]
       \/ /\ inbox[k] = <<>>
          /\ reader' = [reader EXCEPT ![k] = IF k \in closed THEN "close" ELSE "check"]
          /\ UNCHANGED <<msg, inbox>>
    /\ UNCHANGED <<identity, dialled, closed, sent, acc, clients, state, lb, stop,
                   stopper, crashed>>

Decoded(k) == /\ msg' = [msg EXCEPT ![k] = Tail(@)]
              /\ reader' = [reader EXCEPT ![k] = IF Len(msg[k]) > 1 THEN "decode" ELSE "check"]

(***************************************************************************)
(* A vertify with the right key makes the client legal, whatever its state *)
(* was.                                                                    *)
(***************************************************************************)
Vertify(k) ==
    /\ reader[k] = "decode" /\ ~crashed /\ ~Locked
    /\ Head(msg[k]) = "vertify"
    /\ \E right \in BOOLEAN :
          state' = [state EXCEPT ![k] = IF right /\ k \in clients THEN "ok" ELSE @]
    /\ Decoded(k)
    /\ UNCHANGED <<peers, acc, clients, lb, stop, stopper, crashed>>

(***************************************************************************)
(* PreCheck: a request of a client that is not legal ends its connection;  *)
(* other requests go to the task pool.                                     *)
(***************************************************************************)
PreCheck(k) ==
    /\ reader[k] = "decode" /\ ~crashed /\ ~Locked
    /\ Head(msg[k]) = "rpc"
    /\ crashed' = (k \notin clients)
    /\ state' = [state EXCEPT ![k] = IF @ = "ok" THEN @ ELSE "exit"]
    /\ Decoded(k)
    /\ UNCHANGED <<peers, acc, clients, lb, stop, stopper>>

(* Faulty variant: the load balancer keeps the connection. *)
CloseKeepsLb(k) ==
    /\ reader[k] = "close" /\ ~crashed /\ ~Locked
    /\ clients' = clients \ {k}
    /\ reader' = [reader EXCEPT ![k] = "closed"]
    /\ UNCHANGED <<peers, acc, state, lb, msg, stop, stopper, crashed>>

(***************************************************************************)
(* onClientClose takes the mutex and deletes the entry, then the element   *)
(* of the load balancer.                                                   *)
(***************************************************************************)
Close(k) ==
    /\ reader[k] = "close" /\ ~crashed /\ ~Locked
    /\ clients' = clients \ {k}
    /\ reader' = [reader EXCEPT ![k] = "unlist"]
    /\ UNCHANGED <<peers, acc, state, lb, msg, stop, stopper, crashed>>

Unlist(k) ==
    /\ reader[k] = "unlist" /\ ~crashed
    /\ lb' = lb \ {k}
    /\ reader' = [reader EXCEPT ![k] = "closed"]
    /\ UNCHANGED <<peers, acc, clients, state, msg, stop, stopper, crashed>>
-----------------------------------------------------------------------------
(***************************************************************************)
(* Stop tells every reader to end and waits till all entries are gone.     *)
(***************************************************************************)
Stop ==
    /\ stopper = "none" /\ ~crashed /\ ~Locked
    /\ state' = [k \in Conn |-> IF k \in clients THEN "exit" ELSE state[k]]
    /\ stop' = TRUE
    /\ stopper' = "waiting"
    /\ UNCHANGED <<peers, acc, clients, lb, read, crashed>>

StopReturns ==
    /\ stopper = "waiting" /\ ~crashed /\ ~Locked
    /\ clients = {}
    /\ stopper' = "done"
    /\ UNCHANGED <<peers, acc, clients, state, lb, read, stop, crashed>>

AcceptStep == Accept \/ Enter \/ AddToLb \/ GoHandleRead \/ Report

HandleRead(k) == \/ CheckState(k) \/ Read(k) \/ Vertify(k) \/ PreCheck(k)
                 \/ Close(k) \/ Unlist(k)

Next == \/ \E k \in Conn : Dial(k) \/ Send(k) \/ Hangup(k) \/ HandleRead(k)
        \/ AcceptStep
        \/ Stop
        \/ StopReturns

Spec == Init /\ [][Next]_vars

(***************************************************************************)
(* The goroutines run.  Peers need not do anything: not send, not hang up. *)
(***************************************************************************)
Fairness == /\ WF_vars(AcceptStep)
            /\ \A k \in Conn : WF_vars(HandleRead(k))
            /\ WF_vars(StopReturns)

FairSpec == Spec /\ Fairness
-----------------------------------------------------------------------------
TypeOK == /\ identity \in Identity
          /\ dialled \subseteq Conn /\ closed \subseteq dialled
          /\ inbox \in [Conn -> Seq({"rpc", "vertify"})]
          /\ sent \in [Conn -> 0..MaxMsg]
          /\ accept \in {"accept", "enter", "add", "go", "report", "exit"}
          /\ cur \in Conn \cup {NONE}
          /\ clients \subseteq Conn /\ lb \subseteq Conn
          /\ state \in [Conn -> {"init", "ok", "exit"}]
          /\ reader \in [Conn -> {"none", "check", "read", "decode", "close", "unlist", "closed"}]
          /\ msg \in [Conn -> Seq({"rpc", "vertify"})]
          /\ \A k \in Conn : reader[k] = "decode" <=> msg[k] # <<>>
          /\ stop \in BOOLEAN
          /\ stopper \in {"none", "waiting", "done"}
          /\ crashed \in BOOLEAN

(***************************************************************************)
(* PreCheck does not dereference nil: whose reader is at work has its      *)
(* entry.  RpcCall asks the load balancer and then the map, with no lock:  *)
(* it can be offered a connection without an entry only while the reader   *)
(* of that one is between the two deletes of onClientClose, and takes that *)
(* for an error.                                                           *)
(***************************************************************************)
EntryWhileUsed ==
    /\ \A k \in Conn : reader[k] \in {"check", "read", "decode", "close"} => k \in clients
    /\ \A k \in lb \ clients : reader[k] = "unlist"

(***************************************************************************)
(* When Stop has returned, nothing is served any more and nothing will be: *)
(* no entry is left or added, no reader runs, no client is offered.        *)
(***************************************************************************)
StopIsFinal ==
    stopper = "done" => /\ clients = {} /\ lb = {}
                        /\ \A k \in Conn : reader[k] \in {"none", "closed"}

(***************************************************************************)
(* The inductive invariant: a connection that the accept goroutine is      *)
(* setting up has no reader yet, so nobody else can take its entry away;   *)
(* and Stop returns only when there is none left.                          *)
(***************************************************************************)
SettingUp ==
    /\ accept \in {"enter", "add", "go"} => cur \in Conn /\ reader[cur] = "none"
    /\ accept \in {"add", "go"} => cur \in clients
    /\ accept = "report" => cur \in Conn

Stopping == /\ stopper # "none" => stop
            /\ stopper = "done" => clients = {} /\ ~Locked

Inv == TypeOK /\ EntryWhileUsed /\ SettingUp /\ Stopping

(***************************************************************************)
(* "wait all client close": Stop returns, even if the peers stay connected *)
(* and keep silent, unless a client gate is sent a vertify while it waits: *)
(* that one would set the state back from exit to ok.  (A process that     *)
(* crashed has no Stop to return from.)                                    *)
(***************************************************************************)
StopTerminates ==
    [](stop => \A k \in Conn : /\ \A i \in 1..Len(msg[k]) : msg[k][i] # "vertify"
                               /\ \A i \in 1..Len(inbox[k]) : inbox[k][i] # "vertify") =>
        (stop ~> stopper = "done" \/ crashed)
=============================================================================
