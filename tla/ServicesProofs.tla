--------------------------- MODULE ServicesProofs ---------------------------
(***************************************************************************)
(* Three parts that work beside the requests, none of which needs another: *)
(* the installation's telemetry (module Telemetry), the lock of the        *)
(* clusters subtree (module ClustersStore) and the heartbeat of a host     *)
(* (module Heartbeat), for any number of processes, nodes, keys, readers   *)
(* and faults and for every interval and delay.                            *)
(***************************************************************************)
EXTENDS Heartbeat, Telemetry, ClustersStore, TLAPS

-----------------------------------------------------------------------------
(* Telemetry: how many identifiers an installation may have, and which of  *)
(* them web processes report under.                                        *)

ProcessPlaces == {"down", "first", "creating", "tick", "post", "wait", "hung"}
Reporting == {"tick", "post", "wait", "hung"}

ProcessStates == [pc : ProcessPlaces, id : Ids \cup {0}, seen : SUBSET Ids, report : SUBSET Hosts]

TelemetryTypes ==
  /\ ids \subseteq Ids /\ rows \subseteq Hosts
  /\ proc \in [Processes -> ProcessStates]

(* As long as nothing excuses it, at most one process is about to create   *)
(* an identifier, and only while there is none.                            *)
CreatesAlone ==
  ~excused => /\ \A i, j \in ids : i = j
              /\ \A p \in Processes : proc[p].pc = "creating" => ids = {}
              /\ \A p, q \in Processes : proc[p].pc = "creating" /\ proc[q].pc = "creating" => p = q

ReportsKnown ==
  /\ \A r \in received : r[1] \in ids
  /\ \A p \in Processes : proc[p].pc \in Reporting => proc[p].id \in ids
  /\ \A p \in Processes : proc[p].seen # {} => proc[p].id \in FirstRow(proc[p].seen)

TelemetryInv == TelemetryTypes /\ CreatesAlone /\ ReportsKnown

LEMMA TelemetryStarts == TelemetryInit => TelemetryInv
BY DEF TelemetryInit, TelemetryInv, TelemetryTypes, CreatesAlone, ReportsKnown, Down, ProcessStates, ProcessPlaces, Reporting

LEMMA TelemetrySteps == TelemetryInv /\ [TelemetryNext]_telemetryVars => TelemetryInv'
<1> SUFFICES ASSUME TelemetryInv, [TelemetryNext]_telemetryVars PROVE TelemetryInv'
  OBVIOUS
<1> USE DEF TelemetryInv, TelemetryTypes, CreatesAlone, ReportsKnown, ProcessStates, ProcessPlaces, Reporting, At, Goto
<1>1. ASSUME NEW p \in Processes, NewApp(p) PROVE TelemetryInv'
  BY <1>1 DEF NewApp
<1>2. ASSUME NEW p \in Processes, First(p) PROVE TelemetryInv'
  <2>1. CASE /\ ids # {} /\ excused' = excused
             /\ \E id \in FirstRow(ids) : proc' = [proc EXCEPT ![p] = [Down EXCEPT !.pc = "tick", !.id = id, !.seen = ids]]
    <3>1. PICK id \in FirstRow(ids) : proc' = [proc EXCEPT ![p] = [Down EXCEPT !.pc = "tick", !.id = id, !.seen = ids]]
      BY <2>1
    <3>2. id \in ids /\ ids' = ids /\ rows' = rows /\ received' = received
      BY <1>2, <3>1 DEF First, FirstRow
    <3>3. /\ proc'[p] = [pc |-> "tick", id |-> id, seen |-> ids, report |-> {}]
          /\ \A q \in Processes \ {p} : proc'[q] = proc[q]
      BY <3>1 DEF Down
    <3>4. TelemetryTypes'
      <4>1. proc'[p] \in ProcessStates
        BY <3>2, <3>3
      <4> HIDE DEF ProcessStates
      <4> QED BY <3>1, <3>2, <4>1
    <3>5. CreatesAlone'
      BY <2>1, <3>2, <3>3
    <3>6. ReportsKnown'
      BY <3>1, <3>2, <3>3
    <3> QED BY <3>4, <3>5, <3>6
  <2>2. CASE ids = {} /\ Goto(p, "creating") /\ excused' = (excused \/ Creating # {})
    BY <1>2, <2>2 DEF First, Creating
  <2>3. CASE Goto(p, "creating") /\ excused' = TRUE
    BY <1>2, <2>3 DEF First
  <2> QED BY <1>2, <2>1, <2>2, <2>3 DEF First
<1>3. ASSUME NEW p \in Processes, Create(p) PROVE TelemetryInv'
  <2>1. CASE /\ \E id \in Ids \ ids :
                  /\ ids' = ids \cup {id}
                  /\ proc' = [proc EXCEPT ![p] = [Down EXCEPT !.pc = "tick", !.id = id]]
    <3>1. PICK id \in Ids \ ids :
             /\ ids' = ids \cup {id}
             /\ proc' = [proc EXCEPT ![p] = [Down EXCEPT !.pc = "tick", !.id = id]]
      BY <2>1
    <3>2. proc[p].pc = "creating" /\ rows' = rows /\ received' = received /\ excused' = excused
      BY <1>3 DEF Create
    <3>3. /\ proc'[p] = [pc |-> "tick", id |-> id, seen |-> {}, report |-> {}]
          /\ \A q \in Processes \ {p} : proc'[q] = proc[q]
      BY <3>1 DEF Down
    <3>4. TelemetryTypes'
      <4>0. id \in Ids
        OBVIOUS
      <4>1. proc'[p] \in ProcessStates
        <5> HIDE DEF TelemetryInv
        <5> QED BY <3>3, <4>0
      <4> HIDE DEF ProcessStates
      <4> QED BY <3>1, <3>2, <4>1
    <3>5. CreatesAlone'
      BY <3>1, <3>2, <3>3
    <3>6. ReportsKnown'
      <4>1. \A r \in received' : r[1] \in ids'
        BY <3>1, <3>2
      <4>2. \A q \in Processes : proc'[q].pc \in Reporting => proc'[q].id \in ids'
        BY <3>1, <3>3
      <4>3. \A q \in Processes : proc'[q].seen # {} => proc'[q].id \in FirstRow(proc'[q].seen)
        BY <3>3
      <4> QED BY <4>1, <4>2, <4>3
    <3> QED BY <3>4, <3>5, <3>6
  <2>2. CASE proc' = [proc EXCEPT ![p] = Down] /\ ids' = ids
    BY <1>3, <2>2 DEF Create, Down
  <2> QED BY <1>3, <2>1, <2>2 DEF Create
<1>4. ASSUME NEW p \in Processes, Extract(p) PROVE TelemetryInv'
  BY <1>4 DEF Extract
<1>5. ASSUME NEW p \in Processes, Publish(p) PROVE TelemetryInv'
  BY <1>5 DEF Publish
<1>6. ASSUME NEW p \in Processes, NextDay(p) PROVE TelemetryInv'
  BY <1>6 DEF NextDay
<1>7. ASSUME NEW p \in Processes, Stop(p) PROVE TelemetryInv'
  BY <1>7 DEF Stop
<1>8. ASSUME NEW p \in Processes, Done(p) PROVE TelemetryInv'
  BY <1>8 DEF Done, Down
<1>9. ASSUME NEW p \in Processes, ProcessDies(p) PROVE TelemetryInv'
  BY <1>9 DEF ProcessDies, Down
<1>10. CASE Project
  BY <1>10 DEF Project
<1>11. CASE UNCHANGED telemetryVars
  BY <1>11 DEF telemetryVars
<1> QED BY <1>1, <1>2, <1>3, <1>4, <1>5, <1>6, <1>7, <1>8, <1>9, <1>10, <1>11 DEF TelemetryNext

LEMMA TelemetryInvariant == TelemetrySpec => []TelemetryInv
<1>1. TelemetryInit => TelemetryInv
  BY TelemetryStarts
<1>2. TelemetryInv /\ [TelemetryNext]_telemetryVars => TelemetryInv'
  BY TelemetrySteps
<1> QED BY <1>1, <1>2, PTL DEF TelemetrySpec

(* services/settings.go:23-37: two identifiers come from a failed lookup   *)
(* or from two processes that look before either creates.                  *)
THEOREM OneIdentifier == TelemetrySpec => []SecondIdentifierIsExplained
<1>1. TelemetryInv => SecondIdentifierIsExplained
  BY DEF TelemetryInv, CreatesAlone, SecondIdentifierIsExplained
<1> QED BY <1>1, TelemetryInvariant, PTL

(* What is reported is reported under an identifier of the table, and      *)
(* processes that found the same table agree on it.                        *)
THEOREM ReportsAgree == TelemetrySpec => []IdentifiersAgree
<1>1. TelemetryInv => IdentifiersAgree
  <2> SUFFICES ASSUME TelemetryInv, NEW p \in Processes, NEW q \in Processes,
                      proc[p].seen # {}, proc[p].seen = proc[q].seen
               PROVE  proc[p].id = proc[q].id
    BY DEF TelemetryInv, ReportsKnown, IdentifiersAgree
  <2>1. proc[p].id \in FirstRow(proc[p].seen) /\ proc[q].id \in FirstRow(proc[p].seen)
    BY DEF TelemetryInv, ReportsKnown
  <2>2. proc[p].seen \subseteq Nat
    BY IdsAssumption DEF TelemetryInv, TelemetryTypes, ProcessStates
  <2> QED BY <2>1, <2>2 DEF FirstRow
<1> QED BY <1>1, TelemetryInvariant, PTL

-----------------------------------------------------------------------------
(* ClustersStore: what the lock guarantees, however many sessions are lost.*)

(* Whoever is past AcquireLockKey holds the lock or has lost its session.  *)
HolderInv ==
  \A n \in Nodes : pc[n] \in Writing \cup {"unlock"} => holder = n \/ lost[n]

(* While a reader is between WaitLock and ListMap and nobody took the lock,*)
(* only agents without a session write.                                    *)
ReaderInv ==
  \A r \in Readers :
    reader[r] = "list" /\ ~raced[r] =>
      \A n \in Nodes : pc[n] \in Writing \cup {"unlock"} => lost[n]

ContentInv == HolderWritesItsDiscovery /\ WholeBetweenStores

-----------------------------------------------------------------------------

(* The state stays of its types. *)
THEOREM TreesTypeCorrect == StoreSpec => []StoreTypeOK
<1> USE ClustersStoreAssumption
<1>1. StoreInit => StoreTypeOK
  BY DEF StoreInit, StoreTypeOK, Versions, Empty, Members
<1>2. StoreTypeOK /\ [StoreNext]_storeVars => StoreTypeOK'
  <2> SUFFICES ASSUME StoreTypeOK, [StoreNext]_storeVars PROVE StoreTypeOK'
    OBVIOUS
  <2> USE DEF StoreTypeOK, Versions, Writing, GoTo, StoreFault, history
  <2>1. ASSUME NEW c \in Clusters, Change(c) PROVE StoreTypeOK'
    BY <2>1 DEF Change, Members
  <2>2. ASSUME NEW n \in Nodes, Discover(n) PROVE StoreTypeOK'
    BY <2>2 DEF Discover
  <2>3. ASSUME NEW n \in Nodes, AcquireLockKey(n) PROVE StoreTypeOK'
    BY <2>3 DEF AcquireLockKey
  <2>4. ASSUME NEW n \in Nodes, DeleteTree(n) PROVE StoreTypeOK'
    BY <2>4 DEF DeleteTree, Empty
  <2>5. ASSUME NEW n \in Nodes, Put(n) PROVE StoreTypeOK'
    BY <2>5 DEF Put
  <2>6. ASSUME NEW n \in Nodes, Unlock(n) PROVE StoreTypeOK'
    BY <2>6 DEF Unlock
  <2>7. ASSUME NEW n \in Nodes, LockError(n) PROVE StoreTypeOK'
    BY <2>7 DEF LockError
  <2>8. ASSUME NEW n \in Nodes, StoreError(n) PROVE StoreTypeOK'
    BY <2>8 DEF StoreError
  <2>9. ASSUME NEW n \in Nodes, LoseSession(n) PROVE StoreTypeOK'
    BY <2>9 DEF LoseSession
  <2>10. ASSUME NEW n \in Nodes, AgentDies(n) PROVE StoreTypeOK'
    BY <2>10 DEF AgentDies
  <2>11. ASSUME SessionExpires PROVE StoreTypeOK'
    BY <2>11 DEF SessionExpires
  <2>12. ASSUME NEW r \in Readers, WaitLock(r) PROVE StoreTypeOK'
    BY <2>12 DEF WaitLock
  <2>13. ASSUME NEW r \in Readers, ListMap(r) PROVE StoreTypeOK'
    BY <2>13 DEF ListMap
  <2>14. CASE UNCHANGED storeVars
    BY <2>14 DEF storeVars
  <2>15. QED
    BY <2>1, <2>2, <2>3, <2>4, <2>5, <2>6, <2>7, <2>8, <2>9, <2>10, <2>11,
       <2>12, <2>13, <2>14 DEF StoreNext, AgentStep
<1>3. QED
  BY <1>1, <1>2, PTL DEF StoreSpec

(* The lock, and with it what a reader may rely on, is an invariant of its *)
(* own.                                                                    *)
LEMMA LockInvariant == StoreSpec => [](HolderInv /\ ReaderInv)
<1> USE ClustersStoreAssumption
<1>1. StoreInit => HolderInv /\ ReaderInv
  BY DEF StoreInit, HolderInv, ReaderInv, Writing
<1>2. StoreTypeOK /\ HolderInv /\ ReaderInv /\ [StoreNext]_storeVars => HolderInv' /\ ReaderInv'
  <2> SUFFICES ASSUME StoreTypeOK, HolderInv, ReaderInv, [StoreNext]_storeVars
               PROVE  HolderInv' /\ ReaderInv'
    OBVIOUS
  <2> USE DEF StoreTypeOK, HolderInv, ReaderInv, Writing, GoTo, history
  <2>1. ASSUME NEW c \in Clusters, Change(c) PROVE HolderInv' /\ ReaderInv'
    BY <2>1 DEF Change
  <2>2. ASSUME NEW n \in Nodes, Discover(n) PROVE HolderInv' /\ ReaderInv'
    BY <2>2 DEF Discover
  <2>3. ASSUME NEW n \in Nodes, AcquireLockKey(n) PROVE HolderInv' /\ ReaderInv'
    <3>1. \A m \in Nodes : pc[m] \in Writing \cup {"unlock"} => lost[m]
      BY <2>3 DEF AcquireLockKey
    <3>2. HolderInv'
      BY <2>3, <3>1 DEF AcquireLockKey
    <3>3. ReaderInv'
      BY <2>3 DEF AcquireLockKey
    <3>4. QED
      BY <3>2, <3>3
  <2>4. ASSUME NEW n \in Nodes, DeleteTree(n) PROVE HolderInv' /\ ReaderInv'
    BY <2>4 DEF DeleteTree
  <2>5. ASSUME NEW n \in Nodes, Put(n) PROVE HolderInv' /\ ReaderInv'
    BY <2>5 DEF Put
  <2>6. ASSUME NEW n \in Nodes, Unlock(n) PROVE HolderInv' /\ ReaderInv'
    BY <2>6 DEF Unlock
  <2>7. ASSUME NEW n \in Nodes, LockError(n) PROVE HolderInv' /\ ReaderInv'
    BY <2>7 DEF LockError
  <2>8. ASSUME NEW n \in Nodes, StoreError(n) PROVE HolderInv' /\ ReaderInv'
    BY <2>8 DEF StoreError
  <2>9. ASSUME NEW n \in Nodes, LoseSession(n) PROVE HolderInv' /\ ReaderInv'
    BY <2>9 DEF LoseSession
  <2>10. ASSUME NEW n \in Nodes, AgentDies(n) PROVE HolderInv' /\ ReaderInv'
    BY <2>10 DEF AgentDies
  <2>11. ASSUME SessionExpires PROVE HolderInv' /\ ReaderInv'
    BY <2>11 DEF SessionExpires
  <2>12. ASSUME NEW r \in Readers, WaitLock(r) PROVE HolderInv' /\ ReaderInv'
    <3>1. \A m \in Nodes : pc[m] \in Writing \cup {"unlock"} => lost[m]
      BY <2>12 DEF WaitLock
    <3>2. QED
      BY <2>12, <3>1 DEF WaitLock
  <2>13. ASSUME NEW r \in Readers, ListMap(r) PROVE HolderInv' /\ ReaderInv'
    BY <2>13 DEF ListMap
  <2>14. CASE UNCHANGED storeVars
    BY <2>14 DEF storeVars
  <2>15. QED
    BY <2>1, <2>2, <2>3, <2>4, <2>5, <2>6, <2>7, <2>8, <2>9, <2>10, <2>11,
       <2>12, <2>13, <2>14 DEF StoreNext, AgentStep
<1>3. QED
  BY <1>1, <1>2, TreesTypeCorrect, PTL DEF StoreSpec

(* Two agents write at the same time only when one has lost its session:   *)
(* both past AcquireLockKey would both be the holder                       *)
(* (cluster_kvstore.go:23-27).                                             *)
THEOREM Exclusion == StoreSpec => []WritersExclude
<1>1. HolderInv => WritersExclude
  BY DEF HolderInv, WritersExclude, Outrun
<1>2. QED
  BY <1>1, LockInvariant, PTL

-----------------------------------------------------------------------------

(* A step that leaves a tree, and the Stores that put to it, leaves it whole *)
(* or spoiled if it was.                                                   *)
LEMMA TreeStays ==
  ASSUME NEW d \in Clusters, WholeBetweenStores,
         store'[d] = store[d], spoiled[d] => spoiled'[d],
         \A m \in Members(d) : pc[m] = "put" => pc'[m] = "put",
         \A m \in Members(d) : pc'[m] # "put", ~spoiled'[d]
  PROVE  \A i, j \in Keys : store'[d][i] = store'[d][j]
<1>1. \A m \in Members(d) : pc[m] # "put"
  OBVIOUS
<1>2. Whole(d)
  BY <1>1 DEF WholeBetweenStores
<1>3. QED
  BY <1>2 DEF Whole

(* While a Store puts its keys nothing else is in the tree, and between    *)
(* Stores the tree is of one version (cluster_kvstore.go:29-42): the one   *)
(* holder is the only one to write without spoiling the tree.              *)
THEOREM StoreIsWhole == StoreSpec => [](HolderWritesItsDiscovery /\ WholeBetweenStores)
<1> USE ClustersStoreAssumption
<1>1. StoreInit => ContentInv
  BY DEF StoreInit, ContentInv, HolderWritesItsDiscovery, WholeBetweenStores, Whole, Empty
<1>2. StoreTypeOK /\ HolderInv /\ ContentInv /\ [StoreNext]_storeVars => ContentInv'
  <2> SUFFICES ASSUME StoreTypeOK, HolderInv, ContentInv, [StoreNext]_storeVars PROVE ContentInv'
    OBVIOUS
  <2> USE DEF StoreTypeOK, GoTo, history
  (* Steps that touch neither the trees nor the Stores that put.           *)
  <2>1. ASSUME UNCHANGED <<store, left, spoiled>>,
               \A n \in Nodes : pc'[n] = "put" <=> pc[n] = "put",
               \A n \in Nodes : pc[n] = "put" => seen'[n] = seen[n],
               \A n \in Nodes : pc[n] = "put" /\ lost[n] => lost'[n]
        PROVE  ContentInv'
    <3>1. HolderWritesItsDiscovery'
      BY <2>1 DEF ContentInv, HolderWritesItsDiscovery
    <3>2. WholeBetweenStores'
      <4> SUFFICES ASSUME NEW d \in Clusters,
                       \A m \in Members(d) : pc'[m] # "put",
                       ~spoiled'[d]
                PROVE  \A i, j \in Keys : store'[d][i] = store'[d][j]
        BY DEF WholeBetweenStores, Whole
      <4>1. QED
        BY <2>1, TreeStays DEF ContentInv, Members
    <3>3. QED
      BY <3>1, <3>2 DEF ContentInv
  <2>2. ASSUME NEW c \in Clusters, Change(c) PROVE ContentInv'
    BY <2>1, <2>2 DEF Change
  <2>3. ASSUME NEW n \in Nodes, Discover(n) PROVE ContentInv'
    BY <2>1, <2>3 DEF Discover
  <2>4. ASSUME NEW n \in Nodes, AcquireLockKey(n) PROVE ContentInv'
    BY <2>1, <2>4 DEF AcquireLockKey
  <2>5. ASSUME NEW n \in Nodes, DeleteTree(n) PROVE ContentInv'
    <3>1. ~lost[n] => \A m \in Nodes \ {n} : pc[m] = "put" => lost[m]
      BY <2>5 DEF DeleteTree, HolderInv, Writing
    <3>2. HolderWritesItsDiscovery'
      BY <2>5, <3>1 DEF DeleteTree, ContentInv, HolderWritesItsDiscovery, Empty
    <3>3. WholeBetweenStores'
      <4> SUFFICES ASSUME NEW d \in Clusters,
                         \A m \in Members(d) : pc'[m] # "put",
                         ~spoiled'[d]
                  PROVE  \A i, j \in Keys : store'[d][i] = store'[d][j]
        BY DEF WholeBetweenStores, Whole
      <4>1. pc'[n] = "put" /\ d # ClusterOf[n]
        BY <2>5 DEF DeleteTree, Members
      <4>2. /\ store'[d] = store[d] /\ spoiled'[d] = spoiled[d]
            /\ \A m \in Members(d) : pc'[m] = pc[m]
        BY <2>5, <4>1 DEF DeleteTree, Members
      <4>3. QED
        BY <4>2, TreeStays DEF ContentInv
    <3>4. QED
      BY <3>2, <3>3 DEF ContentInv
  <2>6. ASSUME NEW n \in Nodes, Put(n) PROVE ContentInv'
    <3> DEFINE c == ClusterOf[n]
    <3>1. PICK k \in left[n] :
            /\ store' = [store EXCEPT ![c][k] = seen[n]]
            /\ left' = [left EXCEPT ![n] = @ \ {k}]
      BY <2>6 DEF Put
    <3>2. k \in Keys /\ c \in Clusters
      BY <3>1
    <3>3. CASE lost[n]
      <4>1. spoiled'[c]
        BY <2>6, <3>2, <3>3 DEF Put
      <4>2. HolderWritesItsDiscovery'
        BY <2>6, <3>1, <3>2, <3>3, <4>1 DEF Put, ContentInv, HolderWritesItsDiscovery
      <4>3. WholeBetweenStores'
        <5> SUFFICES ASSUME NEW d \in Clusters,
                         \A m \in Members(d) : pc'[m] # "put",
                         ~spoiled'[d]
                  PROVE  \A i, j \in Keys : store'[d][i] = store'[d][j]
          BY DEF WholeBetweenStores, Whole
        <5>1. d # c
          BY <4>1
        <5>2. /\ store'[d] = store[d] /\ spoiled'[d] = spoiled[d]
              /\ \A m \in Members(d) : pc'[m] = pc[m]
          BY <2>6, <3>1, <5>1 DEF Put, Members
        <5>3. QED
          BY <5>2, TreeStays DEF ContentInv
      <4>4. QED
        BY <4>2, <4>3 DEF ContentInv
    <3>4. CASE ~lost[n]
      <4>1. \A m \in Nodes \ {n} : pc[m] = "put" => lost[m]
        BY <2>6, <3>4 DEF Put, HolderInv, Writing
      <4>2. /\ pc[n] = "put" /\ UNCHANGED <<lost, seen>>
            /\ spoiled' = [spoiled EXCEPT ![c] = @ \/ lost[n]]
        BY <2>6 DEF Put
      <4>3. spoiled' = spoiled
        BY <3>2, <3>4, <4>2
      <4>4. ~spoiled[c] =>
              \A j \in Keys : store'[c][j] = IF j \in left'[n] THEN 0 ELSE seen[n]
        BY <3>1, <3>2, <3>4, <4>2 DEF ContentInv, HolderWritesItsDiscovery
      <4>5. \A m \in Nodes \ {n} : pc'[m] = pc[m] /\ left'[m] = left[m]
        BY <2>6, <3>1 DEF Put
      <4>6. HolderWritesItsDiscovery'
        BY <3>1, <3>2, <4>1, <4>2, <4>3, <4>4, <4>5
        DEF ContentInv, HolderWritesItsDiscovery
      <4>7. \A d \in Clusters \ {c} : store'[d] = store[d]
        BY <3>1
      <4>8. pc'[n] # "put" => left'[n] = {}
        BY <2>6 DEF Put
      <4>9. (\A m \in Members(c) : pc'[m] # "put") /\ ~spoiled[c]
              => \A i, j \in Keys : store'[c][i] = store'[c][j]
        BY <4>4, <4>8 DEF Members
      <4>10. WholeBetweenStores'
        <5> SUFFICES ASSUME NEW d \in Clusters,
                         \A m \in Members(d) : pc'[m] # "put",
                         ~spoiled'[d]
                  PROVE  \A i, j \in Keys : store'[d][i] = store'[d][j]
          BY DEF WholeBetweenStores, Whole
        <5>1. CASE d = c
          BY <4>3, <4>9, <5>1
        <5>2. CASE d # c
          <6>1. \A m \in Members(d) : pc'[m] = pc[m]
            BY <4>5, <5>2 DEF Members
          <6>2. QED
            BY <4>3, <4>7, <5>2, <6>1, TreeStays DEF ContentInv
        <5>3. QED
          BY <5>1, <5>2
      <4>11. QED
        BY <4>6, <4>10 DEF ContentInv
    <3>5. QED
      BY <3>3, <3>4
  <2>7. ASSUME NEW n \in Nodes, Unlock(n) PROVE ContentInv'
    BY <2>1, <2>7 DEF Unlock
  <2>8. ASSUME NEW n \in Nodes, LockError(n) PROVE ContentInv'
    BY <2>1, <2>8 DEF LockError
  (* An error or a crash spoils the tree when it interrupts PutMap.        *)
  <2>9. ASSUME NEW n \in Nodes, StoreError(n) \/ AgentDies(n) PROVE ContentInv'
    <3>1. /\ store' = store /\ seen' = seen /\ lost' = lost
          /\ left' = [left EXCEPT ![n] = {}]
          /\ pc'[n] # "put" /\ \A m \in Nodes \ {n} : pc'[m] = pc[m]
          /\ spoiled' = [spoiled EXCEPT ![ClusterOf[n]] = @ \/ pc[n] = "put"]
      BY <2>9 DEF StoreError, AgentDies
    <3>2. HolderWritesItsDiscovery'
      BY <3>1 DEF ContentInv, HolderWritesItsDiscovery
    <3>3. WholeBetweenStores'
      <4> SUFFICES ASSUME NEW d \in Clusters,
                         \A m \in Members(d) : pc'[m] # "put",
                         ~spoiled'[d]
                  PROVE  \A i, j \in Keys : store'[d][i] = store'[d][j]
        BY DEF WholeBetweenStores, Whole
      <4>1. n \in Members(d) => pc[n] # "put"
        BY <3>1 DEF Members
      <4>2. \A m \in Members(d) : pc[m] = "put" => pc'[m] = "put"
        BY <3>1, <4>1 DEF Members
      <4>3. spoiled[d] => spoiled'[d]
        BY <3>1
      <4>4. QED
        BY <3>1, <4>2, <4>3, TreeStays DEF ContentInv
    <3>4. QED
      BY <3>2, <3>3 DEF ContentInv
  <2>10. ASSUME NEW n \in Nodes, LoseSession(n) PROVE ContentInv'
    BY <2>1, <2>10 DEF LoseSession
  <2>11. ASSUME SessionExpires PROVE ContentInv'
    BY <2>1, <2>11 DEF SessionExpires
  <2>12. ASSUME NEW r \in Readers, WaitLock(r) PROVE ContentInv'
    BY <2>1, <2>12 DEF WaitLock
  <2>13. ASSUME NEW r \in Readers, ListMap(r) PROVE ContentInv'
    BY <2>1, <2>13 DEF ListMap
  <2>14. CASE UNCHANGED storeVars
    BY <2>1, <2>14 DEF storeVars
  <2>15. QED
    BY <2>2, <2>3, <2>4, <2>5, <2>6, <2>7, <2>8, <2>9, <2>10, <2>11,
       <2>12, <2>13, <2>14 DEF StoreNext, AgentStep
<1>3. QED
  BY <1>1, <1>2, TreesTypeCorrect, LockInvariant, PTL DEF StoreSpec, ContentInv

(* A reader that waited for the lock lists a whole tree as long as nobody  *)
(* took the lock meanwhile (cluster_kvstore.go:50-55).                     *)
THEOREM LoadIsWhole == StoreSpec => []UndisturbedLoadIsWhole
<1>1. ReaderInv /\ WholeBetweenStores => UndisturbedLoadIsWhole
  BY DEF ReaderInv, WholeBetweenStores, UndisturbedLoadIsWhole, Outrun, Writing, Members
<1>2. QED
  BY <1>1, LockInvariant, StoreIsWhole, PTL

-----------------------------------------------------------------------------
(* Heartbeat: what a heartbeat says, for any number of lost beats, hung    *)
(* POSTs and crashes.                                                      *)

own == post["own"]
orphan == post["orphan"]

TypeInv == TypeOK /\ \A p \in Posts : post[p].stamp <= post[p].age

(* The agent posts exactly while it is in tick(); what is left behind was  *)
(* on its way, or handled; without a process there is no ticker.           *)
LoopInv ==
  /\ (own.at = "none") <=> (loop # "tick")
  /\ orphan.at \in {"none", "sent", "stamped"}
  /\ loop = "down" => ticker = Off /\ ~buffered

(* The age of the row is at most what has passed since the beat that wrote *)
(* it was posted; the first beat may be Delay ahead of the ticker.         *)
GapInv ==
  Timely /\ ~missed =>
    /\ loop # "down" /\ row # Never
    /\ own.at # "hung"
    /\ own.at \in {"sent", "stamped"} => row <= Delay + Interval + own.age
    /\ own.at = "stored" => row <= own.age
    /\ loop = "select" =>
         /\ ticker # Off
         /\ row <= Delay + Interval - (IF buffered THEN 0 ELSE ticker)

(* What a dead process left behind is as old as its death.                 *)
DownInv ==
  loop = "down" =>
    /\ orphan.at # "none" => downFor <= orphan.age
    /\ row = Never \/ downFor <= row + Delay

(* Without a hung POST, one POST is on the server at a time: the next beat *)
(* is due an interval after the last one was posted.                       *)
OnePostInv ==
  Timely /\ ~hung =>
    /\ loop = "tick" =>
         /\ orphan.at = "none" /\ ~buffered /\ own.at # "hung"
         /\ ticker # Off => own.age + ticker >= Interval
    /\ loop = "select" =>
         /\ ticker # Off
         /\ buffered => ticker = Interval /\ orphan.at = "none"
         /\ orphan.at # "none" => orphan.age + ticker >= Interval
    /\ \A p \in Posts : post[p].at = "stamped" => row = Never \/ post[p].stamp <= row

Inv == TypeInv /\ LoopInv /\ GapInv /\ DownInv /\ OnePostInv

-----------------------------------------------------------------------------

USE HeartbeatAssumption DEF HeartbeatTreshold, Never, Off, NoPost, NewPost, Handled,
    Posts, MaxAge, Durations, agent, own, orphan, Fault

(* The types, with the age of a stamp, are an invariant of their own.      *)
LEMMA TypeStep == TypeInv /\ [Next]_vars => TypeInv'
<1> SUFFICES ASSUME TypeInv, [Next]_vars PROVE TypeInv'
  OBVIOUS
<1> USE DEF TypeInv, TypeOK
<1>1. CASE Start
  BY <1>1 DEF Start
<1>2. CASE Fire
  BY <1>2 DEF Fire
<1>3. CASE Tick
  <2>1. post' = [post EXCEPT !["own"] = NewPost]
    BY <1>3 DEF Tick
  <2>2. post' \in [Posts -> [at : {"none", "hung"} \cup Handled, age : 0..Delay, stamp : 0..Delay]]
    BY <2>1
  <2>3. \A p \in Posts : post'[p].stamp <= post'[p].age
    BY <2>1
  <2>4. QED
    BY <1>3, <2>2, <2>3 DEF Tick
<1>4. CASE Return
  BY <1>4 DEF Return, EndOfTick
<1>5. ASSUME NEW p \in Posts, Stamp(p) PROVE TypeInv'
  BY <1>5 DEF Stamp
<1>6. ASSUME NEW p \in Posts, Store(p) PROVE TypeInv'
  BY <1>6 DEF Store
<1>7. CASE Lose
  BY <1>7 DEF Lose, EndOfTick, LeaveBehind
<1>8. CASE Hang
  BY <1>8 DEF Hang
<1>9. CASE GiveUp
  BY <1>9 DEF GiveUp, EndOfTick
<1>10. CASE Crash
  <2>1. PICK q \in {NoPost, post["own"], post["orphan"]} :
          post' = [post EXCEPT !["own"] = NoPost, !["orphan"] = q]
    BY <1>10 DEF Crash, LeaveBehind
  <2>2. post' \in [Posts -> [at : {"none", "hung"} \cup Handled, age : 0..Delay, stamp : 0..Delay]]
    BY <2>1
  <2>3. \A p \in Posts : post'[p].stamp <= post'[p].age
    BY <2>1
  <2>4. QED
    <3>1. buffered' \in BOOLEAN /\ missed' \in BOOLEAN /\ hung' \in BOOLEAN
      BY <1>10 DEF Crash
    <3>2. /\ loop' \in {"tick", "select", "down"} /\ ticker' \in {Off} \cup 0..Interval
          /\ downFor' \in Durations /\ row' \in {Never} \cup Durations
          /\ faults' \in 0..MaxFaults
      BY <1>10 DEF Crash
    <3>3. QED
      BY <2>2, <2>3, <3>1, <3>2
<1>11. CASE Pass
  <2>1. \A p \in Posts :
          post'[p] = IF post[p].at \in Handled
                     THEN [post[p] EXCEPT !.age = @ + 1,
                                          !.stamp = IF post[p].at = "sent" THEN @ ELSE @ + 1]
                     ELSE post[p]
    BY <1>11 DEF Pass
  <2>2. ASSUME NEW p \in Posts
        PROVE  /\ post'[p] \in [at : {"none", "hung"} \cup Handled,
                                age : 0..Delay, stamp : 0..Delay]
               /\ post'[p].stamp <= post'[p].age
    <3>1. post[p].at \in Handled => post[p].age < Delay
      BY <1>11 DEF Pass
    <3>2. CASE post[p].at = "sent"
      <4>1. post'[p] = [post[p] EXCEPT !.age = @ + 1]
        BY <2>1, <3>2
      <4>2. QED
        BY <3>1, <3>2, <4>1
    <3>3. CASE post[p].at \in {"stamped", "stored"}
      <4>1. post'[p] = [post[p] EXCEPT !.age = @ + 1, !.stamp = @ + 1]
        BY <2>1, <3>3
      <4>2. post'[p] = [at |-> post[p].at, age |-> post[p].age + 1,
                        stamp |-> post[p].stamp + 1]
        BY <4>1
      <4>3. /\ post[p].age + 1 \in 0..Delay /\ post[p].stamp + 1 \in 0..Delay
            /\ post[p].stamp + 1 <= post[p].age + 1
        BY <3>1, <3>3
      <4>4. QED
        BY <3>3, <4>2, <4>3
    <3>4. CASE post[p].at \notin Handled
      BY <2>1, <3>4
    <3>5. QED
      BY <3>2, <3>3, <3>4
  <2>3. DOMAIN post' = Posts /\ post' = [p \in Posts |-> post'[p]]
    BY <1>11 DEF Pass
  <2>4. post' \in [Posts -> [at : {"none", "hung"} \cup Handled, age : 0..Delay, stamp : 0..Delay]]
    BY <2>2, <2>3
  <2>5. buffered' \in BOOLEAN /\ missed' \in BOOLEAN /\ hung' \in BOOLEAN
    BY <1>11 DEF Pass
  <2>6. /\ loop' \in {"tick", "select", "down"} /\ ticker' \in {Off} \cup 0..Interval
        /\ downFor' \in Durations /\ row' \in {Never} \cup Durations
        /\ faults' \in 0..MaxFaults
    BY <1>11 DEF Pass, Older
  <2>7. QED
    BY <2>2, <2>4, <2>5, <2>6
<1>12. CASE UNCHANGED vars
  BY <1>12 DEF vars
<1>13. QED
  BY <1>1, <1>2, <1>3, <1>4, <1>5, <1>6, <1>7, <1>8, <1>9, <1>10, <1>11, <1>12 DEF Next

LEMMA InitTyped == Init => TypeInv
<1> SUFFICES ASSUME Init PROVE TypeInv
  OBVIOUS
<1> USE DEF Init, TypeInv, TypeOK
<1>1. post \in [Posts -> [at : {"none", "hung"} \cup Handled, age : 0..Delay, stamp : 0..Delay]]
  OBVIOUS
<1>2. \A p \in Posts : post[p].stamp <= post[p].age
  OBVIOUS
<1>3. buffered \in BOOLEAN /\ missed \in BOOLEAN /\ hung \in BOOLEAN
  OBVIOUS
<1>4. /\ loop \in {"tick", "select", "down"} /\ ticker \in {Off} \cup 0..Interval
      /\ downFor \in Durations /\ row \in {Never} \cup Durations
      /\ faults \in 0..MaxFaults
  OBVIOUS
<1>5. QED
  BY <1>1, <1>2, <1>3, <1>4

(* The state stays of its types. *)
THEOREM TypeCorrect == Spec => []TypeOK
<1>2. TypeInv => TypeOK
  BY DEF TypeInv
<1>3. QED
  BY InitTyped, <1>2, TypeStep, PTL DEF Spec

LEMMA LoopStep == Inv /\ [Next]_vars => LoopInv'
<1> SUFFICES ASSUME Inv, [Next]_vars PROVE LoopInv'
  OBVIOUS
<1> USE DEF Inv, TypeInv, TypeOK, LoopInv
<1>1. CASE Start
  BY <1>1 DEF Start
<1>2. CASE Fire
  BY <1>2 DEF Fire
<1>3. CASE Tick
  BY <1>3 DEF Tick
<1>4. CASE Return
  BY <1>4 DEF Return, EndOfTick
<1>5. ASSUME NEW p \in Posts, Stamp(p) PROVE LoopInv'
  BY <1>5 DEF Stamp
<1>6. ASSUME NEW p \in Posts, Store(p) PROVE LoopInv'
  BY <1>6 DEF Store
<1>7. CASE Lose
  BY <1>7 DEF Lose, EndOfTick, LeaveBehind
<1>8. CASE Hang
  BY <1>8 DEF Hang
<1>9. CASE GiveUp
  BY <1>9 DEF GiveUp, EndOfTick
<1>10. CASE Crash
  BY <1>10 DEF Crash, LeaveBehind
<1>11. CASE Pass
  BY <1>11 DEF Pass, Older
<1>12. CASE UNCHANGED vars
  BY <1>12 DEF vars
<1>13. QED
  BY <1>1, <1>2, <1>3, <1>4, <1>5, <1>6, <1>7, <1>8, <1>9, <1>10, <1>11, <1>12 DEF Next

(* No step widens the gap between two beats.                               *)
LEMMA GapStep == Inv /\ [Next]_vars => GapInv'
<1> SUFFICES ASSUME Inv, [Next]_vars PROVE GapInv'
  OBVIOUS
<1> USE DEF Inv, TypeInv, TypeOK, LoopInv, GapInv, Timely
<1>1. CASE Start
  BY <1>1 DEF Start
<1>2. CASE Fire
  BY <1>2 DEF Fire
<1>3. CASE Tick
  BY <1>3 DEF Tick
<1>4. CASE Return
  BY <1>4 DEF Return, EndOfTick
<1>5. ASSUME NEW p \in Posts, Stamp(p) PROVE GapInv'
  BY <1>5 DEF Stamp
<1>6. ASSUME NEW p \in Posts, Store(p) PROVE GapInv'
  <2>1. row' = post[p].stamp /\ UNCHANGED agent /\ post[p].at = "stamped"
    BY <1>6 DEF Store
  <2>2. CASE p = "orphan"
    <3>1. missed'
      BY <1>6, <2>2 DEF Store
    <3>2. QED
      BY <3>1
  <2>3. CASE p = "own"
    <3>1. post' = [post EXCEPT !["own"] = [@ EXCEPT !.at = "stored"]]
      BY <1>6, <2>3 DEF Store
    <3>2. own'.at = "stored" /\ own'.age = own.age
      BY <3>1
    <3>3. row' <= own.age /\ row' # Never
      BY <2>1, <2>3
    <3>4. loop' = "tick"
      BY <2>1, <2>3
    <3>5. QED
      BY <3>2, <3>3, <3>4
  <2>4. QED
    BY <2>2, <2>3
<1>7. CASE Lose
  BY <1>7 DEF Lose, EndOfTick, LeaveBehind
<1>8. CASE Hang
  BY <1>8 DEF Hang
<1>9. CASE GiveUp
  BY <1>9 DEF GiveUp, EndOfTick
<1>10. CASE Crash
  BY <1>10 DEF Crash, LeaveBehind
<1>11. CASE Pass
  BY <1>11 DEF Pass, Older
<1>12. CASE UNCHANGED vars
  BY <1>12 DEF vars
<1>13. QED
  BY <1>1, <1>2, <1>3, <1>4, <1>5, <1>6, <1>7, <1>8, <1>9, <1>10, <1>11, <1>12 DEF Next

LEMMA DownStep == Inv /\ [Next]_vars => DownInv'
<1> SUFFICES ASSUME Inv, [Next]_vars PROVE DownInv'
  OBVIOUS
<1> USE DEF Inv, TypeInv, TypeOK, LoopInv, DownInv
<1>1. CASE Start
  BY <1>1 DEF Start
<1>2. CASE Fire
  BY <1>2 DEF Fire
<1>3. CASE Tick
  BY <1>3 DEF Tick
<1>4. CASE Return
  BY <1>4 DEF Return, EndOfTick
<1>5. ASSUME NEW p \in Posts, Stamp(p) PROVE DownInv'
  BY <1>5 DEF Stamp
<1>6. ASSUME NEW p \in Posts, Store(p) PROVE DownInv'
  BY <1>6 DEF Store
<1>7. CASE Lose
  BY <1>7 DEF Lose, EndOfTick, LeaveBehind
<1>8. CASE Hang
  BY <1>8 DEF Hang
<1>9. CASE GiveUp
  BY <1>9 DEF GiveUp, EndOfTick
<1>10. CASE Crash
  BY <1>10 DEF Crash, LeaveBehind
<1>11. CASE Pass
  BY <1>11 DEF Pass, Older
<1>12. CASE UNCHANGED vars
  BY <1>12 DEF vars
<1>13. QED
  BY <1>1, <1>2, <1>3, <1>4, <1>5, <1>6, <1>7, <1>8, <1>9, <1>10, <1>11, <1>12 DEF Next

LEMMA OnePostStep == Inv /\ [Next]_vars => OnePostInv'
<1> SUFFICES ASSUME Inv, [Next]_vars PROVE OnePostInv'
  OBVIOUS
<1> USE DEF Inv, TypeInv, TypeOK, LoopInv, DownInv, OnePostInv, Timely
<1>1. CASE Start
  <2>1. /\ post' = [post EXCEPT !["own"] = NewPost]
        /\ loop' = "tick" /\ UNCHANGED <<ticker, buffered, row, hung>>
        /\ loop = "down" /\ downFor >= RestartDelay
    BY <1>1 DEF Start
  <2>2. own'.at = "sent" /\ own'.age = 0 /\ orphan' = orphan
    BY <2>1
  <2>3. Timely => orphan.at = "none"
    BY <2>1
  <2>4. ticker = Off /\ ~buffered
    BY <2>1
  <2>5. QED
    BY <2>1, <2>2, <2>3, <2>4
<1>2. CASE Fire
  BY <1>2 DEF Fire
<1>3. CASE Tick
  BY <1>3 DEF Tick
<1>4. CASE Return
  BY <1>4 DEF Return, EndOfTick
<1>5. ASSUME NEW p \in Posts, Stamp(p) PROVE OnePostInv'
  BY <1>5 DEF Stamp
<1>6. ASSUME NEW p \in Posts, Store(p) PROVE OnePostInv'
  BY <1>6 DEF Store
<1>7. CASE Lose
  BY <1>7 DEF Lose, EndOfTick, LeaveBehind
<1>8. CASE Hang
  BY <1>8 DEF Hang
<1>9. CASE GiveUp
  BY <1>9 DEF GiveUp, EndOfTick
<1>10. CASE Crash
  BY <1>10 DEF Crash, LeaveBehind
<1>11. CASE Pass
  BY <1>11 DEF Pass, Older
<1>12. CASE UNCHANGED vars
  BY <1>12 DEF vars
<1>13. QED
  BY <1>1, <1>2, <1>3, <1>4, <1>5, <1>6, <1>7, <1>8, <1>9, <1>10, <1>11, <1>12 DEF Next

LEMMA Invariant == Spec => []Inv
<1>1. Init => Inv
  <2> SUFFICES ASSUME Init PROVE Inv
    OBVIOUS
  <2>1. TypeInv
    BY InitTyped
  <2>2. LoopInv /\ GapInv /\ DownInv /\ OnePostInv
    BY DEF Init, LoopInv, GapInv, DownInv, OnePostInv
  <2>3. QED
    BY <2>1, <2>2 DEF Inv
<1>2. Inv /\ [Next]_vars => TypeInv'
  BY TypeStep DEF Inv
<1>3. Inv /\ [Next]_vars => Inv'
  BY <1>2, LoopStep, GapStep, DownStep, OnePostStep DEF Inv
<1>4. QED
  BY <1>1, <1>3, PTL DEF Spec

(* No false alarm (hosts_next.go:14 and 144): two intervals leave room for *)
(* the beat of the next interval and for twice the delay of a POST, and    *)
(* for no beat that is missed.                                             *)
THEOREM NoFalseAlarm == Spec => []AlarmMeansMissedBeat
<1>1. Inv => AlarmMeansMissedBeat
  BY DEF Inv, TypeInv, TypeOK, LoopInv, GapInv, AlarmMeansMissedBeat, Timely, Health,
         computeHealth
<1>2. QED
  BY <1>1, Invariant, PTL

(* A dead agent's host does not stay passing (hosts_next.go:139-149).      *)
THEOREM DeathIsNoticed == Spec => []DownIsNoticed
<1>1. Inv => DownIsNoticed
  BY DEF Inv, TypeInv, TypeOK, DownInv, DownIsNoticed, Health, computeHealth
<1>2. QED
  BY <1>1, Invariant, PTL

(* The unguarded upsert (hosts_next.go:131-136) does not move the row back *)
(* as long as no POST hangs.                                               *)
THEOREM StampIsMonotone == Spec => StampNeverGoesBack
<1>1. ASSUME Inv, [Next]_vars, Timely, ~hung, ~Pass, row # Never
      PROVE  row' \in 0..row
  <2> USE DEF Inv, TypeInv, TypeOK, OnePostInv
  <2>1. CASE \E p \in Posts : Store(p)
    BY <1>1, <2>1 DEF Store
  <2>2. CASE row' = row
    BY <1>1, <2>2
  <2>3. QED
    BY <1>1, <2>1, <2>2
    DEF Next, vars, Start, Fire, Tick, Return, EndOfTick, Stamp, Lose, Hang, GiveUp, Crash
<1>2. Inv /\ [Next]_vars => [Timely /\ ~hung /\ ~Pass /\ row # Never => row' \in 0..row]_vars
  BY <1>1
<1>3. QED
  BY <1>2, Invariant, PTL DEF Spec, StampNeverGoesBack

=============================================================================
