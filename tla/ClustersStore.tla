---------------------------- MODULE ClustersStore ----------------------------
(***************************************************************************)
(* The clusters subtree of the Consul key-value store                      *)
(* (internal/cluster/cluster_kvstore.go, internal/consul/lock.go and kv.go)*)
(*                                                                         *)
(* The agent of every node discovers its cluster on each tick.  On the     *)
(* designated coordinator Cluster.Store takes the lock of the subtree,     *)
(* deletes the tree of the cluster and puts its keys one by one; the web   *)
(* application and the runner wait for the lock to be free, without taking *)
(* it, and list the subtree.  The lock belongs to a Consul session, which  *)
(* can end while its owner is still writing: the channel that would tell   *)
(* it is dropped (lock.go:42).                                             *)
(*                                                                         *)
(* The tree of a cluster is abstracted to the version of the cluster that  *)
(* each of its keys was written from.                                      *)
(***************************************************************************)
EXTENDS Integers

CONSTANTS Nodes,       (* the hosts that run an agent                        *)
          Clusters,
          ClusterOf,   (* the cluster each node is part of                   *)
          Keys,        (* the keys PutMap writes for a cluster               *)
          Readers,     (* goroutines of the web application, or the runner   *)
          NoSession,   (* the lock is free                                   *)
          DeadSession, (* held by the session of a process that is gone      *)
          MaxVersion,  (* bound: the versions a cluster goes through         *)
          MaxStoreFaults    (* bound: errors, lost sessions and crashes           *)

ASSUME ClustersStoreAssumption ==
  /\ ClusterOf \in [Nodes -> Clusters]
  /\ \A c \in Clusters : \E n \in Nodes : ClusterOf[n] = c
  /\ Keys # {}
  /\ NoSession \notin Nodes /\ DeadSession \notin Nodes
  /\ NoSession # DeadSession
  /\ MaxVersion \in Nat \ {0}
  /\ MaxStoreFaults \in Nat

VARIABLES
  actual,  (* the version each cluster is at                                 *)
  dc,      (* its designated coordinator                                     *)
  store,   (* the version of each key, 0 when the key is absent              *)
  holder,  (* the session on the lock of the subtree                         *)
  pc,      (* where Store is, on each node                                   *)
  seen,    (* the version each node's discovery found                        *)
  left,    (* the keys its PutMap has still to put                           *)
  reader,  (* where Load is, in each reader                                  *)
  lost,    (* history: the session of the node's Store ended under it        *)
  raced,   (* history: the lock was taken after the reader waited for it     *)
  spoiled, (* history: the last Store that wrote to the cluster was cut      *)
           (* short, or wrote after it had lost its session                  *)
  storeFaults

storeVars == <<actual, dc, store, holder, pc, seen, left, reader, lost, raced,
          spoiled, storeFaults>>
history == <<lost, raced, spoiled>>

Versions == 0..MaxVersion
Empty == [k \in Keys |-> 0]
Members(c) == {n \in Nodes : ClusterOf[n] = c}
Writing == {"delete", "put"}

GoTo(n, l) == pc' = [pc EXCEPT ![n] = l]
StoreFault == storeFaults < MaxStoreFaults /\ storeFaults' = storeFaults + 1

-----------------------------------------------------------------------------

StoreInit ==
  /\ actual = [c \in Clusters |-> 1]
  /\ dc \in {f \in [Clusters -> Nodes] : \A c \in Clusters : f[c] \in Members(c)}
  /\ store = [c \in Clusters |-> Empty]
  /\ holder = NoSession
  /\ pc = [n \in Nodes |-> "idle"]
  /\ seen = [n \in Nodes |-> 1]
  /\ left = [n \in Nodes |-> {}]
  /\ reader = [r \in Readers |-> "idle"]
  /\ lost = [n \in Nodes |-> FALSE]
  /\ raced = [r \in Readers |-> FALSE]
  /\ spoiled = [c \in Clusters |-> FALSE]
  /\ storeFaults = 0

(* The cluster changes; its coordinator may change too.                    *)
Change(c) ==
  /\ actual[c] < MaxVersion
  /\ actual' = [actual EXCEPT ![c] = @ + 1]
  /\ \E n \in Members(c) : dc' = [dc EXCEPT ![c] = n]
  /\ UNCHANGED <<store, holder, pc, seen, left, reader, history, storeFaults>>

(* Cluster.Store, up to AcquireLockKey; on a node that is not the          *)
(* coordinator it returns at once.                                         *)
Discover(n) ==
  /\ pc[n] = "idle"
  /\ n = dc[ClusterOf[n]]
  /\ GoTo(n, "lock")
  /\ seen' = [seen EXCEPT ![n] = actual[ClusterOf[n]]]
  /\ UNCHANGED <<actual, dc, store, holder, left, reader, history, storeFaults>>

(* Operators named X_... are X with a plausible mistake in it, which the   *)
(* properties have to notice.                                              *)

(* WaitLock in the place of AcquireLockKey. *)
AcquireLockKey_WaitOnly(n) ==
  /\ pc[n] = "lock"
  /\ holder = NoSession
  /\ GoTo(n, "delete")
  /\ lost' = [lost EXCEPT ![n] = FALSE]
  /\ raced' = [r \in Readers |-> reader[r] = "list" \/ raced[r]]
  /\ UNCHANGED <<actual, dc, store, holder, seen, left, reader, spoiled, storeFaults>>

AcquireLockKey(n) ==
  /\ pc[n] = "lock"
  /\ holder = NoSession
  /\ holder' = n
  /\ GoTo(n, "delete")
  /\ lost' = [lost EXCEPT ![n] = FALSE]
  /\ raced' = [r \in Readers |-> reader[r] = "list" \/ raced[r]]
  /\ UNCHANGED <<actual, dc, store, seen, left, reader, spoiled, storeFaults>>

DeleteTree(n) ==
  /\ pc[n] = "delete"
  /\ store' = [store EXCEPT ![ClusterOf[n]] = Empty]
  /\ left' = [left EXCEPT ![n] = Keys]
  /\ spoiled' = [spoiled EXCEPT ![ClusterOf[n]] = lost[n]]
  /\ GoTo(n, "put")
  /\ UNCHANGED <<actual, dc, holder, seen, reader, lost, raced, storeFaults>>

(* PutMap ranges over a Go map: the keys come in any order.                *)
Put(n) ==
  /\ pc[n] = "put"
  /\ \E k \in left[n] :
       /\ store' = [store EXCEPT ![ClusterOf[n]][k] = seen[n]]
       /\ left' = [left EXCEPT ![n] = @ \ {k}]
  /\ spoiled' = [spoiled EXCEPT ![ClusterOf[n]] = @ \/ lost[n]]
  /\ IF left'[n] = {} THEN GoTo(n, "unlock") ELSE UNCHANGED pc
  /\ UNCHANGED <<actual, dc, holder, seen, reader, lost, raced, storeFaults>>

(* No Unlock. *)
Unlock_Missing(n) ==
  /\ pc[n] = "unlock"
  /\ GoTo(n, "idle")
  /\ UNCHANGED <<actual, dc, store, holder, seen, left, reader, history, storeFaults>>

(* The deferred Unlock; a session that does not hold the lock leaves it.   *)
Unlock(n) ==
  /\ pc[n] = "unlock"
  /\ holder' = IF holder = n THEN NoSession ELSE holder
  /\ GoTo(n, "idle")
  /\ UNCHANGED <<actual, dc, store, seen, left, reader, history, storeFaults>>

(* A request to Consul fails.  Without the lock Store just returns; from   *)
(* then on the first error ends it, and the deferred Unlock runs.          *)
LockError(n) ==
  /\ pc[n] = "lock"
  /\ StoreFault
  /\ GoTo(n, "idle")
  /\ UNCHANGED <<actual, dc, store, holder, seen, left, reader, history>>

StoreError(n) ==
  /\ pc[n] \in Writing
  /\ StoreFault
  /\ GoTo(n, "unlock")
  /\ left' = [left EXCEPT ![n] = {}]
  /\ spoiled' = [spoiled EXCEPT ![ClusterOf[n]] = @ \/ pc[n] = "put"]
  /\ UNCHANGED <<actual, dc, store, holder, seen, reader, lost, raced>>

(* The session of a live agent is invalidated; Store goes on.              *)
LoseSession(n) ==
  /\ holder = n
  /\ StoreFault
  /\ holder' = NoSession
  /\ lost' = [lost EXCEPT ![n] = TRUE]
  /\ UNCHANGED <<actual, dc, store, pc, seen, left, reader, raced, spoiled>>

(* The agent dies and systemd starts it again; its session lives on until  *)
(* nobody has renewed it for its TTL.                                      *)
AgentDies(n) ==
  /\ pc[n] # "idle"
  /\ StoreFault
  /\ GoTo(n, "idle")
  /\ holder' = IF holder = n THEN DeadSession ELSE holder
  /\ left' = [left EXCEPT ![n] = {}]
  /\ spoiled' = [spoiled EXCEPT ![ClusterOf[n]] = @ \/ pc[n] = "put"]
  /\ UNCHANGED <<actual, dc, store, seen, reader, lost, raced>>

SessionExpires ==
  /\ holder = DeadSession
  /\ holder' = NoSession
  /\ UNCHANGED <<actual, dc, store, pc, seen, left, reader, history, storeFaults>>

(* Load: WaitLock returns once it reads the lock free, and ListMap is one  *)
(* List call, which answers with the subtree as it is.                     *)
(* Load lists without waiting for the lock. *)
WaitLock_Missing(r) ==
  /\ reader[r] = "idle"
  /\ reader' = [reader EXCEPT ![r] = "list"]
  /\ raced' = [raced EXCEPT ![r] = FALSE]
  /\ UNCHANGED <<actual, dc, store, holder, pc, seen, left, lost, spoiled, storeFaults>>

WaitLock(r) ==
  /\ reader[r] = "idle"
  /\ holder = NoSession
  /\ reader' = [reader EXCEPT ![r] = "list"]
  /\ raced' = [raced EXCEPT ![r] = FALSE]
  /\ UNCHANGED <<actual, dc, store, holder, pc, seen, left, lost, spoiled, storeFaults>>

ListMap(r) ==
  /\ reader[r] = "list"
  /\ reader' = [reader EXCEPT ![r] = "idle"]
  /\ UNCHANGED <<actual, dc, store, holder, pc, seen, left, history, storeFaults>>

AgentStep(n) ==
  Discover(n) \/ AcquireLockKey(n) \/ DeleteTree(n) \/ Put(n) \/ Unlock(n)

StoreNext ==
  \/ \E c \in Clusters : Change(c)
  \/ \E n \in Nodes :
       AgentStep(n) \/ LockError(n) \/ StoreError(n) \/ LoseSession(n) \/ AgentDies(n)
  \/ SessionExpires
  \/ \E r \in Readers : WaitLock(r) \/ ListMap(r)

StoreSpec == StoreInit /\ [][StoreNext]_storeVars

(* The discovery ticker goes on, a Consul request returns, and a session   *)
(* nobody renews expires.                                                  *)
FairStoreSpec ==
  /\ StoreSpec
  /\ \A n \in Nodes :
       /\ WF_storeVars(Discover(n)) /\ WF_storeVars(AcquireLockKey(n))
       /\ WF_storeVars(DeleteTree(n)) /\ WF_storeVars(Put(n)) /\ WF_storeVars(Unlock(n))
  /\ WF_storeVars(SessionExpires)

-----------------------------------------------------------------------------
(* Properties.                                                             *)

StoreTypeOK ==
  /\ actual \in [Clusters -> 1..MaxVersion]
  /\ dc \in [Clusters -> Nodes]
  /\ store \in [Clusters -> [Keys -> Versions]]
  /\ holder \in Nodes \cup {NoSession, DeadSession}
  /\ pc \in [Nodes -> {"idle", "lock", "unlock"} \cup Writing]
  /\ seen \in [Nodes -> Versions]
  /\ left \in [Nodes -> SUBSET Keys]
  /\ reader \in [Readers -> {"idle", "list"}]
  /\ lost \in [Nodes -> BOOLEAN]
  /\ raced \in [Readers -> BOOLEAN]
  /\ spoiled \in [Clusters -> BOOLEAN]
  /\ storeFaults \in 0..MaxStoreFaults

Whole(c) == \A j, k \in Keys : store[c][j] = store[c][k]

(* The node is writing and has lost the session it locked with.            *)
Outrun(n) == pc[n] \in Writing /\ lost[n]

(* Two agents write to the subtree at the same time only when one of them  *)
(* has lost its session (cluster_kvstore.go:23-27).                        *)
WritersExclude ==
  \A m, n \in Nodes :
    m # n /\ pc[m] \in Writing /\ pc[n] \in Writing => Outrun(m) \/ Outrun(n)

(* Between two Stores, and before the first, a cluster's tree is of one    *)
(* version: keys of different discoveries never mix, nor is half a tree    *)
(* left, unless a Store was cut short or outran its lock                   *)
(* (cluster_kvstore.go:29-42).                                             *)
WholeBetweenStores ==
  \A c \in Clusters :
    (\A n \in Members(c) : pc[n] # "put") => Whole(c) \/ spoiled[c]

(* What waiting for the lock without taking it gives a reader              *)
(* (cluster_kvstore.go:50-55): the tree it lists is whole, provided nobody *)
(* took the lock after it waited, no writer outran its session, and no     *)
(* Store was cut short.                                                    *)
UndisturbedLoadIsWhole ==
  \A r \in Readers :
    reader[r] = "list" /\ ~raced[r] =>
      \A c \in Clusters :
        Whole(c) \/ spoiled[c] \/ \E n \in Members(c) : Outrun(n)

(* While a Store puts its keys, the tree is what it has put so far, of the *)
(* version it discovered, and nothing of an earlier one                    *)
(* (cluster_kvstore.go:30-42).                                             *)
HolderWritesItsDiscovery ==
  \A n \in Nodes :
    pc[n] = "put" /\ ~spoiled[ClusterOf[n]] /\ ~lost[n] =>
      \A k \in Keys :
        store[ClusterOf[n]][k] = IF k \in left[n] THEN 0 ELSE seen[n]

(* Whatever was lost on the way, a later tick of the coordinator stores    *)
(* the cluster as it is, and stores it whole.                              *)
StoreCatchesUp ==
  \A c \in Clusters : []<>(\A k \in Keys : store[c][k] = actual[c])

(* No lock outlives the Store that took it: a dead agent's session expires.*)
LockIsReleased == []<>(holder = NoSession)

=============================================================================
