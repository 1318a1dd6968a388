----------------------------- MODULE EtcdDriver -----------------------------
(***************************************************************************)
(* A service keeps its key in etcd: ServiceRegist, LeaseWatch and Stop of  *)
(* ms_framework/msf_etcd_driver.go.                                        *)
(*                                                                         *)
(* Start registers, then a goroutine looks for the key again and again and *)
(* registers anew when it is gone.  Stop runs beside that goroutine.  A    *)
(* call of etcd may fail, and may have taken effect nevertheless.  A lease *)
(* that nobody keeps alive expires, and its key with it; one that is kept  *)
(* alive may expire too, when the service is too slow to renew it.         *)
(***************************************************************************)
EXTENDS Naturals, FiniteSets

CONSTANTS MaxError,    \* bound: failed calls and leases renewed too late
          MaxCrash     \* bound: crashes of the service

ASSUME EtcdAssumption == MaxError \in Nat /\ MaxCrash \in Nat

VARIABLES watcher,     \* of Start and then of the goroutine of LeaseWatch
          started,     \* Start has returned
          spc,         \* of Stop
          lease,       \* e.lease, 0 for nil
          exit,        \* e.exit
          closed,      \* e.cli is closed
          leases, kept,   \* etcd: leases that exist; those the client renews
          key,         \* etcd: the lease of the service's key, 0 if there is no key
          errors, crashes

etcdVars == <<watcher, started, spc, lease, exit, closed, leases, kept, key, errors, crashes>>

EtcdInit == /\ watcher = "grant" /\ started = FALSE
            /\ spc = "run"
            /\ lease = 0 /\ exit = FALSE /\ closed = FALSE
            /\ leases = {} /\ kept = {} /\ key = 0
            /\ errors = 0 /\ crashes = 0

(* An etcd call returns an error: the client is closed, or something failed. *)
Error == \/ closed /\ UNCHANGED errors
         \/ ~closed /\ errors < MaxError /\ errors' = errors + 1

(* etcd never gives out the id of a lease that is still around. *)
NewLease == CHOOSE n \in 1..(Cardinality(leases) + 2) : n \notin leases \cup {lease}

(* The leases that somebody sees to: renewed, or being registered. *)
Tended == IF closed THEN {} ELSE kept \cup (IF watcher \in {"put", "keep"} THEN {lease} ELSE {})

Drop(l) == /\ leases' = leases \ {l}
           /\ kept' = kept \ {l}
           /\ key' = IF key = l THEN 0 ELSE key
-----------------------------------------------------------------------------
(***************************************************************************)
(* ServiceRegist: Grant, Put, KeepAlive.  An error ends it early, with     *)
(* e.lease set once the lease was granted.                                 *)
(***************************************************************************)
Grant ==
    /\ watcher = "grant"
    /\ \/ /\ ~closed
          /\ leases' = leases \cup {NewLease}
          /\ lease' = NewLease
          /\ watcher' = "put"
          /\ UNCHANGED <<started, errors>>
       \/ /\ Error
          /\ leases' \in {leases} \cup (IF closed THEN {} ELSE {leases \cup {NewLease}})
          /\ watcher' = "watch" /\ started' = TRUE
          /\ UNCHANGED lease
    /\ UNCHANGED <<spc, exit, closed, kept, key, crashes>>

Put ==
    /\ watcher = "put"
    /\ \/ /\ ~closed /\ lease \in leases
          /\ key' = lease
          /\ watcher' = "keep"
          /\ UNCHANGED <<started, errors>>
       \/ /\ ~closed /\ lease \notin leases      \* lease not found
          /\ watcher' = "watch" /\ started' = TRUE
          /\ UNCHANGED <<key, errors>>
       \/ /\ Error
          /\ key' \in {key} \cup (IF ~closed /\ lease \in leases THEN {lease} ELSE {})
          /\ watcher' = "watch" /\ started' = TRUE
    /\ UNCHANGED <<spc, lease, exit, closed, leases, kept, crashes>>

KeepAlive ==
    /\ watcher = "keep"
    /\ \/ /\ ~closed
          /\ kept' = kept \cup ({lease} \cap leases)
          /\ UNCHANGED errors
       \/ /\ Error
          /\ UNCHANGED kept
    /\ watcher' = "watch" /\ started' = TRUE
    /\ UNCHANGED <<spc, lease, exit, closed, leases, key, crashes>>

(* Faulty variant: an error is taken for a missing key. *)
LeaseWatchOnError ==
    /\ watcher = "watch"
    /\ ~exit /\ (Error \/ (key = 0 /\ UNCHANGED errors))
    /\ watcher' = "grant"
    /\ UNCHANGED <<started, spc, lease, exit, closed, leases, kept, key, crashes>>

(* Faulty variant: an error ends the loop. *)
LeaseWatchGivesUp ==
    /\ watcher = "watch"
    /\ \/ /\ exit /\ UNCHANGED errors
          /\ watcher' = "done"
       \/ /\ ~exit /\ Error
          /\ watcher' = "done"
       \/ /\ ~exit /\ ~closed /\ key = 0
          /\ watcher' = "grant"
          /\ UNCHANGED errors
    /\ UNCHANGED <<started, spc, lease, exit, closed, leases, kept, key, crashes>>

(***************************************************************************)
(* One round of LeaseWatch.  An error, or a key that is there, changes     *)
(* nothing.                                                                *)
(***************************************************************************)
LeaseWatch ==
    /\ watcher = "watch"
    /\ \/ /\ exit
          /\ watcher' = "done"
          /\ UNCHANGED errors
       \/ /\ ~exit /\ ~closed /\ key = 0
          /\ watcher' = "grant"
          /\ UNCHANGED errors
       \/ /\ ~exit
          /\ Error
          /\ UNCHANGED watcher
    /\ UNCHANGED <<started, spc, lease, exit, closed, leases, kept, key, crashes>>
-----------------------------------------------------------------------------
(***************************************************************************)
(* Stop revokes the lease it finds in e.lease, closes the client, and sets *)
(* e.exit.                                                                 *)
(***************************************************************************)
Stop ==
    /\ spc = "run" /\ started
    /\ spc' = IF lease # 0 THEN "revoke" ELSE "close"
    /\ UNCHANGED <<watcher, started, lease, exit, closed, leases, kept, key, errors, crashes>>

Revoke ==
    /\ spc = "revoke"
    /\ \/ Drop(lease) /\ UNCHANGED errors
       \/ Error /\ UNCHANGED <<leases, kept, key>>
    /\ spc' = "close"
    /\ UNCHANGED <<watcher, started, lease, exit, closed, crashes>>

(* Faulty variant: the client is not closed. *)
CloseNothing ==
    /\ spc = "close"
    /\ spc' = "exit"
    /\ UNCHANGED <<watcher, started, lease, exit, closed, leases, kept, key, errors, crashes>>

Close ==
    /\ spc = "close"
    /\ closed' = TRUE
    /\ kept' = {}
    /\ spc' = "exit"
    /\ UNCHANGED <<watcher, started, lease, exit, leases, key, errors, crashes>>

Exit ==
    /\ spc = "exit"
    /\ exit' = TRUE
    /\ spc' = "stopped"
    /\ UNCHANGED <<watcher, started, lease, closed, leases, kept, key, errors, crashes>>

(* The process dies and is started again: what etcd has stays. *)
Crash ==
    /\ crashes < MaxCrash /\ spc = "run"
    /\ crashes' = crashes + 1
    /\ watcher' = "grant" /\ started' = FALSE
    /\ lease' = 0
    /\ kept' = {}
    /\ UNCHANGED <<spc, exit, closed, leases, key, errors>>

Expires(l) ==
    /\ l \in leases
    /\ \/ l \notin Tended /\ UNCHANGED errors
       \/ l \in Tended /\ errors < MaxError /\ errors' = errors + 1
    /\ Drop(l)
    /\ UNCHANGED <<watcher, started, spc, lease, exit, closed, crashes>>

Regist == Grant \/ Put \/ KeepAlive \/ LeaseWatch

Stopping == Revoke \/ Close \/ Exit

EtcdNext == Regist \/ Stop \/ Stopping \/ Crash \/ \E l \in leases : Expires(l)

EtcdSpec == EtcdInit /\ [][EtcdNext]_etcdVars

(***************************************************************************)
(* The goroutines run, and etcd drops a lease that nobody renews.          *)
(***************************************************************************)
EtcdFairSpec == /\ EtcdSpec
                /\ WF_etcdVars(Regist) /\ WF_etcdVars(Stopping)
                /\ WF_etcdVars(\E l \in leases \ Tended : Expires(l) /\ UNCHANGED errors)
-----------------------------------------------------------------------------
EtcdTypeOK == /\ watcher \in {"grant", "put", "keep", "watch", "done"}
              /\ started \in BOOLEAN
              /\ spc \in {"run", "revoke", "close", "exit", "stopped"}
              /\ lease \in Nat /\ exit \in BOOLEAN /\ closed \in BOOLEAN
              /\ leases \subseteq Nat /\ kept \subseteq leases
              /\ key \in {0} \cup leases
              /\ errors \in 0..MaxError /\ crashes \in 0..MaxCrash

(***************************************************************************)
(* A lease that the service renews is the one its key hangs on: it never   *)
(* goes on renewing a lease without the key, nor two leases at once.       *)
(***************************************************************************)
KeptHoldsKey == \A l \in kept : key = l

(***************************************************************************)
(* README.md: a service whose lease has expired is registered again.  One  *)
(* that is not stopped has its key in the end, whatever failed before and  *)
(* wherever it crashed.                                                    *)
(***************************************************************************)
EventuallyRegistered == [](spc = "run") => <>[](key # 0)

(***************************************************************************)
(* A service that was stopped is gone from etcd in the end, although       *)
(* LeaseWatch may register it anew while it stops.                         *)
(***************************************************************************)
StoppedIsGone == spc = "stopped" ~> [](key = 0)
=============================================================================
