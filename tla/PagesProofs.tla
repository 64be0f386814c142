---------------------------- MODULE PagesProofs ----------------------------
(***************************************************************************)
(* The pages of SAP systems show what the agents have stored, for any      *)
(* hosts and any installations: from an inductive invariant of SAPSystems, *)
(* and from what is proved of the key-value store (KeyValue): what PutMap  *)
(* has written of a tree, ListMap builds again.                            *)
(***************************************************************************)
EXTENDS SAPPages, ListProofs, SequenceTheorems, TLAPS

(* The inductive invariant.                                                *)

(* What may be found on a host.                                            *)
SystemsOf(h) ==
  {NewSAPSystem(h, x) : x \in {y \in Installable(h) : Discoverable(y)}}

(* The tables have a place for every host.                                 *)
Shape ==
  /\ disk = [h \in HostSet |-> disk[h]]
  /\ trees = [h \in HostSet |-> trees[h]]
  /\ metadata = [h \in HostSet |-> metadata[h]]
  /\ found = [h \in HostSet |-> found[h]]
  /\ stored = [h \in HostSet |-> stored[h]]
  /\ complete = [h \in HostSet |-> complete[h]]
  /\ torn = [h \in HostSet |-> torn[h]]

(* A discovery finds what may be installed, each known system once; the    *)
(* trees in Consul are of such systems, below their own identifiers.       *)
Known(s) == s.type # "Unknown"

FoundInv(h) ==
  /\ disk[h] \in Disks[h]
  /\ found[h] \in Seq(SystemsOf(h))
  /\ stored[h] \in 0 .. Len(found[h])
  /\ \A i, j \in DOMAIN found[h] :
       found[h][i].id = found[h][j].id /\ Known(found[h][i]) => i = j

TreesInv(h) ==
  \A id \in DOMAIN trees[h] : trees[h][id] \in SystemsOf(h) /\ trees[h][id].id = id

(* What a discovery has stored so far is there, and none of the known      *)
(* systems of it is overwritten by another one.                            *)
StoredInv(h) ==
  /\ \A i \in 1 .. stored[h] :
       /\ found[h][i].id \in DOMAIN trees[h] \cup torn[h]
       /\ Known(found[h][i]) =>
            found[h][i].id \in DOMAIN trees[h] /\ trees[h][found[h][i].id] = found[h][i]
  /\ complete[h] => stored[h] = Len(found[h])

(* The metadata of a host are behind its trees.                            *)
MetadataInv(h) == Range(metadata[h].ids) \subseteq DOMAIN trees[h] \cup torn[h]

HostInv(h) == FoundInv(h) /\ TreesInv(h) /\ StoredInv(h) /\ MetadataInv(h)

SystemsInv == Shape /\ \A h \in HostSet : HostInv(h)

-----------------------------------------------------------------------------

(* A discovery lists what may be on the host, and a system whose type is   *)
(* known once (internal/sapsystem/sapsystem.go:109-129).                   *)
LEMMA DiscoveryLists ==
  ASSUME NEW h \in HostSet, disk[h] \in Disks[h]
  PROVE  /\ NewSAPSystemsList(h) \in Seq(SystemsOf(h))
         /\ \A i, j \in DOMAIN NewSAPSystemsList(h) :
              NewSAPSystemsList(h)[i].id = NewSAPSystemsList(h)[j].id
                /\ Known(NewSAPSystemsList(h)[i]) => i = j
<1> DEFINE S == Installable(h)
           T == {x \in Range(disk[h]) : Discoverable(x)}
           readable == Kept(disk[h], T)
           list == [i \in DOMAIN readable |-> NewSAPSystem(h, readable[i])]
<1>1. disk[h] \in Seq(S)
  BY SAPSystemsAssumption
<1>2. readable \in Seq(S)
  BY <1>1, KeptElements
<1>3. PICK from \in [1 .. Len(readable) -> 1 .. Len(disk[h])] :
        /\ \A i, j \in DOMAIN from : from[i] = from[j] => i = j
        /\ \A i \in DOMAIN from : readable[i] = disk[h][from[i]] /\ disk[h][from[i]] \in T
  BY <1>1, KeptElements
<1> HIDE DEF readable
<1>4. DOMAIN readable = 1 .. Len(readable) /\ Len(readable) \in Nat
  BY <1>2, LenProperties
<1>5. \A i \in DOMAIN readable : readable[i] \in S /\ Discoverable(readable[i])
  <2>1. \A x \in T : Discoverable(x)
    OBVIOUS
  <2> HIDE DEF T
  <2>2. \A i \in DOMAIN readable : readable[i] \in T
    BY <1>3, <1>4
  <2>3. QED
    BY <1>2, <1>4, <2>1, <2>2, ElementOfSeq
<1>6. \A i \in DOMAIN readable : NewSAPSystem(h, readable[i]) \in SystemsOf(h)
  BY <1>5 DEF SystemsOf
<1>7. list \in Seq(SystemsOf(h))
  BY <1>4, <1>6
<1>8. ASSUME NEW i \in DOMAIN readable, NEW j \in DOMAIN readable,
             list[i].id = list[j].id, Known(list[i])
      PROVE  i = j
  <2>1. /\ list[i].type = Type(readable[i])
        /\ setSystemId(readable[i]) = setSystemId(readable[j])
    BY <1>8 DEF NewSAPSystem
  <2>2. setSystemId(readable[i]) = readable[i].unique /\ readable[i].unique # "-"
    BY <1>5, <1>8, <2>1, IdentifiersAssumption DEF setSystemId, Known
  <2>3. readable[i].unique = readable[j].unique /\ readable[i].unique # NoId
    BY <1>5, <2>1, <2>2 DEF setSystemId, Discoverable
  <2>4. from[i] \in DOMAIN disk[h] /\ from[j] \in DOMAIN disk[h]
    BY <1>1, <1>3, <1>4, LenProperties
  <2>5. disk[h][from[i]].unique = disk[h][from[j]].unique /\ disk[h][from[i]].unique # NoId
    BY <1>3, <1>4, <2>3
  <2>6. from[i] = from[j]
    BY <2>4, <2>5, IdentifiersAssumption
  <2>7. QED
    BY <1>3, <1>4, <2>6
<1>9. NewSAPSystemsList(h) = list
  BY DEF NewSAPSystemsList, SystemsOn, readable
<1>10. DOMAIN list = DOMAIN readable
  OBVIOUS
<1> HIDE DEF list
<1>11. QED
  BY <1>7, <1>8, <1>9, <1>10

(* Hosts do not disturb each other.                                        *)
LEMMA OtherHosts ==
  ASSUME NEW g \in HostSet, HostInv(g),
         UNCHANGED <<disk[g], trees[g], metadata[g], found[g], stored[g], complete[g], torn[g]>>
  PROVE  HostInv(g)'
BY DEF HostInv, FoundInv, TreesInv, StoredInv, MetadataInv

(* What is installed changes.                                              *)
LEMMA ChangeKeeps ==
  ASSUME NEW h \in HostSet, SystemsInv, Change(h)
  PROVE  SystemsInv'
<1>1. PICK d \in Disks[h] : disk' = [disk EXCEPT ![h] = d]
  BY DEF Change
<1>2. UNCHANGED <<trees, metadata, found, stored, complete, torn>>
  BY DEF Change
<1>3. Shape'
  BY <1>1, <1>2 DEF Shape, SystemsInv
<1>4. ASSUME NEW g \in HostSet PROVE HostInv(g)'
  <2>1. HostInv(g) /\ disk'[g] \in Disks[g]
    BY <1>1 DEF SystemsInv, HostInv, FoundInv, Shape
  <2>2. QED
    BY <1>2, <2>1 DEF HostInv, FoundInv, TreesInv, StoredInv, MetadataInv
<1>5. QED
  BY <1>3, <1>4 DEF SystemsInv

(* A discovery begins.                                                     *)
LEMMA DiscoverKeeps ==
  ASSUME NEW h \in HostSet, SystemsInv, Discover(h)
  PROVE  SystemsInv'
<1>1. /\ found' = [found EXCEPT ![h] = NewSAPSystemsList(h)]
      /\ stored' = [stored EXCEPT ![h] = 0]
      /\ complete' = [complete EXCEPT ![h] = FALSE]
      /\ UNCHANGED <<disk, trees, metadata, torn>>
  BY DEF Discover
<1>2. Shape'
  BY <1>1 DEF Shape, SystemsInv
<1>3. HostInv(h)'
  <2>1. found'[h] = NewSAPSystemsList(h) /\ stored'[h] = 0 /\ ~complete'[h]
    BY <1>1 DEF Shape, SystemsInv
  <2>2. HostInv(h)
    BY DEF SystemsInv
  <2>3. FoundInv(h)'
    <3>1. /\ NewSAPSystemsList(h) \in Seq(SystemsOf(h))
          /\ \A i, j \in DOMAIN NewSAPSystemsList(h) :
               NewSAPSystemsList(h)[i].id = NewSAPSystemsList(h)[j].id
                 /\ Known(NewSAPSystemsList(h)[i]) => i = j
      BY <2>2, DiscoveryLists DEF HostInv, FoundInv
    <3>2. Len(NewSAPSystemsList(h)) \in Nat
      BY <3>1, LenProperties
    <3>3. QED
      BY <1>1, <2>1, <2>2, <3>1, <3>2 DEF HostInv, FoundInv
  <2>4. TreesInv(h)' /\ MetadataInv(h)'
    BY <1>1, <2>2 DEF HostInv, TreesInv, MetadataInv
  <2>5. StoredInv(h)'
    BY <2>1 DEF StoredInv
  <2>6. QED
    BY <2>3, <2>4, <2>5 DEF HostInv
<1>4. ASSUME NEW g \in HostSet \ {h} PROVE HostInv(g)'
  BY <1>1, OtherHosts DEF SystemsInv, Shape
<1>5. QED
  BY <1>2, <1>3, <1>4 DEF SystemsInv

(* A system is stored: the tree of its identifier is that of no other      *)
(* system of this discovery whose type is known (sapsystem_kvstore.go:29). *)
LEMMA StoreKeeps ==
  ASSUME NEW h \in HostSet, SystemsInv, Store(h)
  PROVE  SystemsInv'
<1> DEFINE n == stored[h] + 1
           s == found[h][n]
<1>1. /\ stored[h] < Len(found[h])
      /\ trees' = [trees EXCEPT ![h] = Stored(@, s)]
      /\ torn' = [torn EXCEPT ![h] = @ \ {s.id}]
      /\ stored' = [stored EXCEPT ![h] = @ + 1]
      /\ UNCHANGED <<disk, metadata, found, complete>>
  BY DEF Store
<1>2. HostInv(h)
  BY DEF SystemsInv
<1>3. /\ Len(found[h]) \in Nat /\ DOMAIN found[h] = 1 .. Len(found[h])
      /\ stored[h] \in Nat /\ n \in DOMAIN found[h] /\ n \in 1 .. Len(found[h])
  BY <1>1, <1>2, LenProperties DEF HostInv, FoundInv
<1>4. Shape'
  BY <1>1 DEF Shape, SystemsInv
<1>5. HostInv(h)'
  <2>1. trees'[h] = With(trees[h], s.id, s) /\ torn'[h] = torn[h] \ {s.id} /\ stored'[h] = n
    BY <1>1 DEF Shape, SystemsInv, Stored
  <2>2. s \in SystemsOf(h)
    BY <1>2, <1>3, ElementOfSeq DEF HostInv, FoundInv
  <2> HIDE DEF s
  <2>3. /\ DOMAIN trees'[h] = DOMAIN trees[h] \cup {s.id}
        /\ trees'[h][s.id] = s
        /\ \A id \in DOMAIN trees[h] \ {s.id} : trees'[h][id] = trees[h][id]
    BY <2>1 DEF With
  <2>4. FoundInv(h)'
    <3>1. stored'[h] \in 0 .. Len(found[h])
      BY <1>3, <2>1
    <3>2. QED
      BY <1>1, <1>2, <3>1 DEF HostInv, FoundInv
  <2>5. TreesInv(h)'
    BY <1>2, <2>2, <2>3 DEF HostInv, TreesInv
  <2>6. DOMAIN trees[h] \cup torn[h] \subseteq DOMAIN trees'[h] \cup torn'[h]
    BY <2>1, <2>3
  <2>7. MetadataInv(h)'
    BY <1>1, <1>2, <2>6 DEF HostInv, MetadataInv
  <2>8. ASSUME NEW i \in 1 .. stored'[h]
        PROVE  /\ found[h][i].id \in DOMAIN trees'[h] \cup torn'[h]
               /\ Known(found[h][i]) =>
                    found[h][i].id \in DOMAIN trees'[h] /\ trees'[h][found[h][i].id] = found[h][i]
    <3>1. CASE i = n
      BY <2>3, <3>1 DEF s
    <3>2. CASE i # n
      <4>1. i \in 1 .. stored[h] /\ i \in DOMAIN found[h]
        BY <1>3, <2>1, <3>2
      <4>2. Known(found[h][i]) => found[h][i].id # s.id
        BY <1>2, <1>3, <3>2, <4>1 DEF HostInv, FoundInv, s
      <4>3. QED
        BY <1>2, <2>3, <2>6, <4>1, <4>2 DEF HostInv, StoredInv
    <3>3. QED
      BY <3>1, <3>2
  <2>9. ~complete[h]
    BY <1>1, <1>2, <1>3 DEF HostInv, StoredInv
  <2>10. StoredInv(h)'
    BY <1>1, <2>8, <2>9 DEF StoredInv
  <2>11. QED
    BY <2>4, <2>5, <2>7, <2>10 DEF HostInv
<1>6. ASSUME NEW g \in HostSet \ {h} PROVE HostInv(g)'
  BY <1>1, OtherHosts DEF SystemsInv, Shape
<1>7. QED
  BY <1>4, <1>5, <1>6 DEF SystemsInv

(* A Store fails, before it has the lock or after the tree was deleted: no *)
(* other system of this discovery loses its tree.                          *)
LEMMA StoreFailsKeeps ==
  ASSUME NEW h \in HostSet, SystemsInv, StoreFails(h)
  PROVE  SystemsInv'
<1> DEFINE n == stored[h] + 1
           id == found[h][n].id
<1>1. /\ stored[h] < Len(found[h])
      /\ UNCHANGED <<disk, metadata, found, stored, complete>>
  BY DEF StoreFails
<1>2. HostInv(h)
  BY DEF SystemsInv
<1>3. /\ Len(found[h]) \in Nat /\ DOMAIN found[h] = 1 .. Len(found[h])
      /\ stored[h] \in Nat /\ n \in DOMAIN found[h]
  BY <1>1, <1>2, LenProperties DEF HostInv, FoundInv
<1>4. CASE UNCHANGED <<trees, torn>>
  <2>1. Shape'
    BY <1>1, <1>4 DEF Shape, SystemsInv
  <2>2. ASSUME NEW g \in HostSet PROVE HostInv(g)'
    BY <1>1, <1>4, OtherHosts DEF SystemsInv
  <2>3. QED
    BY <2>1, <2>2 DEF SystemsInv
<1>5. CASE /\ trees' = [trees EXCEPT ![h] = [x \in DOMAIN @ \ {id} |-> @[x]]]
           /\ torn' = [torn EXCEPT ![h] = @ \cup {id}]
  <2>1. Shape'
    BY <1>1, <1>5 DEF Shape, SystemsInv
  <2>2. HostInv(h)'
    <3>1. /\ trees'[h] = [x \in DOMAIN trees[h] \ {id} |-> trees[h][x]]
          /\ torn'[h] = torn[h] \cup {id}
      BY <1>5 DEF Shape, SystemsInv
    <3> HIDE DEF id
    <3>2. /\ DOMAIN trees'[h] = DOMAIN trees[h] \ {id}
          /\ \A x \in DOMAIN trees[h] \ {id} : trees'[h][x] = trees[h][x]
          /\ DOMAIN trees[h] \cup torn[h] \subseteq DOMAIN trees'[h] \cup torn'[h]
      BY <3>1
    <3>3. FoundInv(h)'
      BY <1>1, <1>2 DEF HostInv, FoundInv
    <3>4. TreesInv(h)'
      BY <1>2, <3>2 DEF HostInv, TreesInv
    <3>5. MetadataInv(h)'
      BY <1>1, <1>2, <3>2 DEF HostInv, MetadataInv
    <3>6. ASSUME NEW i \in 1 .. stored[h], Known(found[h][i])
          PROVE  found[h][i].id # id
      <4>1. i \in DOMAIN found[h] /\ i # n
        BY <1>3
      <4>2. QED
        BY <1>2, <1>3, <3>6, <4>1 DEF HostInv, FoundInv, id
    <3>7. StoredInv(h)'
      BY <1>1, <1>2, <1>3, <3>2, <3>6 DEF HostInv, StoredInv
    <3>8. QED
      BY <3>3, <3>4, <3>5, <3>7 DEF HostInv
  <2>3. ASSUME NEW g \in HostSet \ {h} PROVE HostInv(g)'
    BY <1>1, <1>5, OtherHosts DEF SystemsInv, Shape
  <2>4. QED
    BY <2>1, <2>2, <2>3 DEF SystemsInv
<1>6. QED
  BY <1>4, <1>5 DEF StoreFails

(* Metadata that lead to what a discovery found, all of it stored.         *)
LEMMA PutLeadsToTrees ==
  ASSUME NEW h \in HostSet, HostInv(h), AllStored(h), NEW fields
  PROVE  Range(Put(h, fields).ids) \subseteq DOMAIN trees[h] \cup torn[h]
<1>1. Put(h, fields).ids \in {Column(found[h], "id"), metadata[h].ids}
  BY DEF Put, NoMetadata, Metadata
<1>2. Range(metadata[h].ids) \subseteq DOMAIN trees[h] \cup torn[h]
  BY DEF HostInv, MetadataInv
<1>3. Range(Column(found[h], "id")) \subseteq DOMAIN trees[h] \cup torn[h]
  <2>1. ASSUME NEW id \in Range(Column(found[h], "id"))
        PROVE  id \in DOMAIN trees[h] \cup torn[h]
    <3>1. PICK i \in DOMAIN found[h] : id = found[h][i].id
      BY DEF Range, Column
    <3>2. i \in 1 .. stored[h]
      BY LenProperties DEF AllStored, HostInv, FoundInv
    <3>3. QED
      BY <3>1, <3>2 DEF HostInv, StoredInv
  <2>2. QED
    BY <2>1
<1>4. QED
  BY <1>1, <1>2, <1>3

(* The metadata of a host are put, all of them or some.                    *)
LEMMA MetadataKeeps ==
  ASSUME NEW h \in HostSet, SystemsInv, StoreMetadata(h) \/ StoreMetadataFails(h)
  PROVE  SystemsInv'
<1>1. PICK fields : metadata' = [metadata EXCEPT ![h] = Put(h, fields)]
  BY DEF StoreMetadata, StoreMetadataFails
<1>2. /\ AllStored(h)
      /\ UNCHANGED <<disk, trees, found, stored, torn>>
  BY DEF StoreMetadata, StoreMetadataFails
<1>3. complete' = complete \/ complete' = [complete EXCEPT ![h] = TRUE]
  BY DEF StoreMetadata, StoreMetadataFails
<1>4. Shape'
  BY <1>1, <1>2, <1>3 DEF Shape, SystemsInv
<1>5. HostInv(h)
  BY DEF SystemsInv
<1>6. HostInv(h)'
  <2>1. metadata'[h] = Put(h, fields)
    BY <1>1 DEF Shape, SystemsInv
  <2>2. MetadataInv(h)'
    BY <1>2, <1>5, <2>1, PutLeadsToTrees DEF MetadataInv
  <2>3. FoundInv(h)' /\ TreesInv(h)'
    BY <1>2, <1>5 DEF HostInv, FoundInv, TreesInv
  <2>4. StoredInv(h)'
    BY <1>2, <1>5 DEF HostInv, StoredInv, AllStored
  <2>5. QED
    BY <2>2, <2>3, <2>4 DEF HostInv
<1>7. ASSUME NEW g \in HostSet \ {h} PROVE HostInv(g)'
  <2>1. UNCHANGED <<metadata[g], complete[g]>>
    BY <1>1, <1>3 DEF Shape, SystemsInv
  <2>2. QED
    BY <1>2, <2>1, OtherHosts DEF SystemsInv
<1>8. QED
  BY <1>4, <1>6, <1>7 DEF SystemsInv

(* What the invariant is about stays the same.                             *)
LEMMA SystemsInvStutters ==
  ASSUME SystemsInv, UNCHANGED <<disk, trees, metadata, found, stored, complete, torn>>
  PROVE  SystemsInv'
<1>1. Shape'
  BY DEF Shape, SystemsInv
<1>2. ASSUME NEW g \in HostSet PROVE HostInv(g)'
  BY OtherHosts DEF SystemsInv
<1>3. QED
  BY <1>1, <1>2 DEF SystemsInv

(* In the beginning nothing is stored.                                     *)
LEMMA SystemsInvInit == Init => SystemsInv
<1> SUFFICES ASSUME Init PROVE SystemsInv
  OBVIOUS
<1>1. Shape
  BY DEF Init, Shape
<1>2. ASSUME NEW h \in HostSet PROVE HostInv(h)
  <2>1. /\ disk[h] \in Disks[h] /\ found[h] = <<>> /\ stored[h] = 0
        /\ complete[h] = FALSE /\ metadata[h] = NoMetadata
    BY DEF Init
  <2>2. DOMAIN trees[h] = {}
    BY DEF Init
  <2>3. FoundInv(h)
    <3>1. found[h] \in Seq(SystemsOf(h)) /\ Len(found[h]) = 0 /\ DOMAIN found[h] = {}
      BY <2>1
    <3>2. QED
      BY <2>1, <3>1 DEF FoundInv
  <2>4. TreesInv(h)
    BY <2>2 DEF TreesInv
  <2>5. StoredInv(h)
    BY <2>1 DEF StoredInv
  <2>6. MetadataInv(h)
    BY <2>1 DEF MetadataInv, NoMetadata, Range
  <2>7. QED
    BY <2>3, <2>4, <2>5, <2>6 DEF HostInv
<1>3. QED
  BY <1>1, <1>2 DEF SystemsInv

(* Every step keeps the invariant.                                         *)
LEMMA SystemsInvHolds == Spec => []SystemsInv
<1>1. SystemsInv /\ [Next]_vars => SystemsInv'
  <2> SUFFICES ASSUME SystemsInv, [Next]_vars PROVE SystemsInv'
    OBVIOUS
  <2>1. ASSUME NEW h \in HostSet, Publish(h) \/ PublishFails(h) \/ Project(h)
        PROVE  SystemsInv'
    <3>1. UNCHANGED <<disk, trees, metadata, found, stored, complete, torn>>
      BY <2>1 DEF Publish, PublishFails, Project
    <3>2. QED
      BY <3>1, SystemsInvStutters
  <2>2. CASE UNCHANGED vars
    BY <2>2, SystemsInvStutters DEF vars
  <2>3. QED
    BY <2>1, <2>2, ChangeKeeps, DiscoverKeeps, StoreKeeps, StoreFailsKeeps, MetadataKeeps
    DEF Next, Tick, Failure
<1>2. QED
  BY <1>1, SystemsInvInit, PTL DEF Spec

-----------------------------------------------------------------------------
(* The pages.                                                              *)

(* A lookup by identifier gives the trees of all the hosts that have one   *)
(* and nothing else (web/services/sapsystems.go:69-100).                   *)
LEMMA LookupById ==
  ASSUME NEW id
  PROVE  /\ GetSAPSystemsById(id) \in Seq(Range(GetSAPSystemsById(id)))
         /\ \A i \in DOMAIN GetSAPSystemsById(id) : \E g \in HostSet :
              id \in DOMAIN trees[g] /\ GetSAPSystemsById(id)[i] = trees[g][id]
         /\ \A g \in HostSet : id \in DOMAIN trees[g] =>
              \E i \in DOMAIN GetSAPSystemsById(id) : GetSAPSystemsById(id)[i] = trees[g][id]
<1> DEFINE T == {h \in HostSet : id \in DOMAIN trees[h]}
           having == Kept(Hosts, T)
           list == [i \in DOMAIN having |-> trees[having[i]][id]]
<1>1. Hosts \in Seq(HostSet)
  BY SAPSystemsAssumption
<1>2. having \in Seq(HostSet)
  BY <1>1, KeptElements
<1>3. PICK from \in [1 .. Len(having) -> 1 .. Len(Hosts)] :
        \A i \in DOMAIN from : having[i] = Hosts[from[i]] /\ Hosts[from[i]] \in T
  BY <1>1, KeptElements
<1>4. \A j \in 1 .. Len(Hosts) : Hosts[j] \in T => \E i \in 1 .. Len(having) : having[i] = Hosts[j]
  <2> HIDE DEF T
  <2>1. QED
    BY <1>1, KeptElements
<1> HIDE DEF having
<1>5. DOMAIN having = 1 .. Len(having) /\ Len(having) \in Nat
  BY <1>2, LenProperties
<1>6. \A i \in DOMAIN having : having[i] \in T
  BY <1>3, <1>5
<1>7. \A g \in T : \E i \in DOMAIN having : having[i] = g
  <2>1. ASSUME NEW g \in T PROVE \E j \in 1 .. Len(Hosts) : Hosts[j] = g
    BY <1>1, LenProperties DEF HostSet, Range
  <2>2. QED
    BY <1>4, <1>5, <2>1
<1>8. GetSAPSystemsById(id) = list
  BY DEF GetSAPSystemsById, having
<1>9. \A i \in DOMAIN list : list[i] \in Range(list)
  BY DEF Range
<1>10. list \in Seq(Range(list))
  <2>1. DOMAIN list = 1 .. Len(having)
    BY <1>5
  <2>2. list = [i \in 1 .. Len(having) |-> list[i]]
    BY <2>1
  <2> HIDE DEF list
  <2>3. QED
    BY <1>5, <1>9, <2>1, <2>2
<1>11. \A i \in DOMAIN list : \E g \in HostSet : id \in DOMAIN trees[g] /\ list[i] = trees[g][id]
  BY <1>6
<1>12. \A g \in HostSet : id \in DOMAIN trees[g] => \E i \in DOMAIN list : list[i] = trees[g][id]
  <2>1. ASSUME NEW g \in HostSet, id \in DOMAIN trees[g]
        PROVE  \E i \in DOMAIN list : list[i] = trees[g][id]
    <3>1. PICK i \in DOMAIN having : having[i] = g
      BY <1>7, <2>1
    <3>2. QED
      BY <3>1
  <2>2. QED
    BY <2>1
<1> HIDE DEF list
<1>13. QED
  BY <1>8, <1>10, <1>11, <1>12

(* web/sapsystems.go:331-363: every system that the metadata of a host     *)
(* lead to has a page, and each host it names has the tree of that system, *)
(* unless a Store of it failed.                                            *)
THEOREM PagesBehindMetadata == Spec => []HostsHaveTheirSystem
<1>1. SystemsInv => HostsHaveTheirSystem
  <2> SUFFICES ASSUME SystemsInv, NEW h \in HostSet, NEW id \in Range(metadata[h].ids) \ torn[h]
               PROVE  \E page \in ResourcePage(id) :
                        \A g \in page.hosts : id \in DOMAIN trees[g] \cup torn[g]
    BY DEF HostsHaveTheirSystem
  <2>1. id \in DOMAIN trees[h]
    BY DEF SystemsInv, HostInv, MetadataInv
  <2>2. GetSAPSystemsById(id) # <<>>
    <3>1. PICK i \in DOMAIN GetSAPSystemsById(id) : TRUE
      BY <2>1, LookupById
    <3>2. QED
      BY <3>1
  <2>3. [system |-> Head(GetSAPSystemsById(id)), hosts |-> GetHostsBySystemId(id)] \in ResourcePage(id)
    BY <2>2 DEF ResourcePage
  <2>4. \A g \in GetHostsBySystemId(id) : id \in DOMAIN trees[g] \cup torn[g]
    BY DEF GetHostsBySystemId, SystemsInv, HostInv, MetadataInv
  <2>5. QED
    BY <2>3, <2>4
<1>2. QED
  BY <1>1, SystemsInvHolds, PTL

(* The instances of a system are of its host and have its type, and a type *)
(* that is known is that of what is installed under the identifier.        *)
LEMMA InstancesOfSystem ==
  ASSUME NEW h \in HostSet, NEW s \in SystemsOf(h)
  PROVE  /\ \A i \in s.instances : i.host = h /\ i.type = s.type
         /\ Known(s) => \E x \in Installable(h) :
              s.type = x.kind /\ s.id = x.unique /\ x.unique # NoId
<1>1. PICK x \in Installable(h) : Discoverable(x) /\ s = NewSAPSystem(h, x)
  BY DEF SystemsOf
<1>2. /\ s.id = setSystemId(x) /\ s.type = Type(x)
      /\ s.instances = {NewSAPInstance(h, i, Type(x)) : i \in Up(x)}
  BY <1>1 DEF NewSAPSystem
<1>3. \A i \in s.instances : i.host = h /\ i.type = s.type
  BY <1>2 DEF NewSAPInstance
<1>4. Known(s) => s.type = x.kind /\ s.id = x.unique /\ x.unique # NoId
  BY <1>1, <1>2 DEF Known, Type, setSystemId, Discoverable
<1>5. QED
  BY <1>3, <1>4

(* The instances of a system are told apart by their numbers, and only     *)
(* systems without any share an identifier.                                *)
LEMMA InstancesAreNumbered ==
  ASSUME NEW h \in HostSet, NEW s \in SystemsOf(h)
  PROVE  /\ \A i, j \in s.instances : i.number = j.number /\ i.number # "" => i = j
         /\ IF Known(s) THEN s.id # "-" ELSE s.id = "-" /\ s.instances = {}
<1>1. PICK x \in Installable(h) : Discoverable(x) /\ s = NewSAPSystem(h, x)
  BY DEF SystemsOf
<1>2. /\ s.id = setSystemId(x) /\ s.type = Type(x)
      /\ s.instances = {NewSAPInstance(h, i, Type(x)) : i \in Up(x)}
  BY <1>1 DEF NewSAPSystem
<1>3. IF Known(s) THEN s.id # "-" ELSE s.id = "-" /\ s.instances = {}
  <2>1. x.unique # "-" /\ x.kind # "Unknown"
    BY IdentifiersAssumption, InstancesAssumption
  <2>2. CASE Known(s)
    BY <1>2, <2>1, <2>2 DEF setSystemId, Known
  <2>3. CASE ~Known(s)
    <3>1. Up(x) = {} /\ Type(x) = "Unknown"
      BY <1>2, <2>1, <2>3 DEF Type, Known
    <3>2. QED
      BY <1>2, <2>3, <3>1 DEF setSystemId
  <2>4. QED
    BY <2>2, <2>3
<1>4. ASSUME NEW i \in s.instances, NEW j \in s.instances, i.number = j.number, i.number # ""
      PROVE  i = j
  <2>1. PICK a \in Up(x) : i = NewSAPInstance(h, a, Type(x))
    BY <1>2
  <2>2. PICK b \in Up(x) : j = NewSAPInstance(h, b, Type(x))
    BY <1>2
  <2>3. a \in x.instances /\ b \in x.instances /\ a.number = i.number /\ b.number = j.number
    BY <2>1, <2>2 DEF Up, NewSAPInstance
  <2>4. a = b
    BY <1>4, <2>3, InstancesAssumption
  <2>5. QED
    BY <2>1, <2>2, <2>4
<1>5. QED
  BY <1>3, <1>4

(* The database of an application has at least one tree that is a          *)
(* database's (web/services/sapsystems.go:178-239).                        *)
LEMMA AttachedIsDatabase ==
  ASSUME NEW s, NEW id \in GetAttachedDatabases(s)
  PROVE  \E g \in HostSet : id \in DOMAIN trees[g] /\ trees[g][id].type = "Database"
<1> DEFINE names == HostsWithAddress(Resolve[DBHost(s)[1]])
           dbname == s.profile[<<"dbs", "hdb", "dbname">>]
           Matches(d) == \E k \in DOMAIN d.databases :
                           <<d.databases[k].database>> = dbname /\ d.databases[k].host \in names
           On(h) == {x \in DOMAIN trees[h] : trees[h][x].type = "Database" /\ Matches(trees[h][x])}
           T == {h \in HostSet : On(h) # {}}
           matching == Kept(Hosts, T)
<1> HIDE DEF names, dbname, T
<1>1. Hosts \in Seq(HostSet)
  BY SAPSystemsAssumption
<1>2. matching \in Seq(HostSet)
  BY <1>1, KeptElements
<1> HIDE DEF matching
<1>3. id \in IF matching = <<>> THEN {} ELSE On(Last(matching))
  BY DEF GetAttachedDatabases, matching, T, names, dbname
<1>4. matching # <<>> /\ id \in On(Last(matching))
  BY <1>3
<1>5. Last(matching) \in HostSet
  BY <1>2, <1>4 DEF Last
<1>6. QED
  BY <1>4, <1>5

(* None of the instances that the row of an application has from its       *)
(* database is an application's: an identifier is that of one system.      *)
LEMMA AttachedAreNotApplications ==
  ASSUME SystemsInv, NEW s, NEW id \in GetAttachedDatabases(s),
         NEW picked \in AttachedInstances(id), NEW i \in picked
  PROVE  i.type # "Application"
<1> DEFINE database == GetSAPSystemsById(id)
           T == {t \in Range(database) : t.instances # {}}
           running == Kept(database, T)
           S == Range(database)
<1>1. database \in Seq(S)
  BY LookupById
<1>2. running \in Seq(S)
  <2> HIDE DEF database, T, S
  <2>1. QED
    BY <1>1, KeptElements
<1>3. PICK k \in DOMAIN running : i \in running[k].instances
  <2> DEFINE sets == [k \in DOMAIN running |-> running[k].instances]
  <2>1. picked \in OneOfEach(sets)
    BY DEF AttachedInstances
  <2> HIDE DEF running
  <2>2. PICK f \in [DOMAIN sets -> UNION Range(sets)] :
          picked = Range(f) /\ \A k \in DOMAIN sets : f[k] \in sets[k]
    BY <2>1 DEF OneOfEach
  <2>3. PICK k \in DOMAIN sets : i = f[k]
    BY <2>2 DEF Range
  <2>4. QED
    BY <2>2, <2>3
<1> HIDE DEF running
<1>4. PICK n \in DOMAIN database : running[k] = database[n]
  BY <1>2, ElementOfSeq, LenProperties DEF Range
<1>5. PICK g \in HostSet : id \in DOMAIN trees[g] /\ running[k] = trees[g][id]
  BY <1>4, LookupById
<1>6. PICK b \in HostSet : id \in DOMAIN trees[b] /\ trees[b][id].type = "Database"
  BY AttachedIsDatabase
<1>7. /\ trees[g][id] \in SystemsOf(g) /\ trees[g][id].id = id
      /\ trees[b][id] \in SystemsOf(b) /\ trees[b][id].id = id
  BY <1>5, <1>6 DEF SystemsInv, HostInv, TreesInv
<1>8. i.type = trees[g][id].type
  BY <1>3, <1>5, <1>7, InstancesOfSystem
<1>9. CASE Known(trees[g][id])
  <2>1. PICK x \in Installable(g) :
          trees[g][id].type = x.kind /\ id = x.unique /\ x.unique # NoId
    BY <1>7, <1>9, InstancesOfSystem
  <2>2. PICK y \in Installable(b) : "Database" = y.kind /\ id = y.unique
    BY <1>6, <1>7, InstancesOfSystem DEF Known
  <2>3. x.kind = y.kind
    <3>1. \A u \in Installable(g), v \in Installable(b) :
            u.unique = v.unique /\ u.unique # NoId => u.kind = v.kind
      BY IdentifiersAssumption
    <3>2. x.unique = y.unique /\ x.unique # NoId
      BY <2>1, <2>2
    <3>3. QED
      BY <3>1, <3>2
  <2>4. QED
    BY <1>8, <2>1, <2>2, <2>3
<1>10. CASE ~Known(trees[g][id])
  BY <1>8, <1>10 DEF Known
<1>11. QED
  BY <1>9, <1>10

(* web/sapsystems.go:54-139: once a discovery has stored what it found,    *)
(* the page lists each of its systems whose type is known, with the        *)
(* instances it has on that host and no others.                            *)
THEOREM PageShowsDiscovery == Spec => []DiscoveryIsShown
<1>1. SystemsInv => DiscoveryIsShown
  <2> SUFFICES ASSUME SystemsInv, NEW h \in HostSet, complete[h],
                      NEW s \in Range(found[h]), s.type # "Unknown"
               PROVE  /\ s.id \in TableIds(s.type)
                      /\ \A table \in Tables(s.id, s.type) :
                           {i \in table : i.host = h /\ i.type = s.type} = s.instances
    BY DEF DiscoveryIsShown
  <2>1. HostInv(h)
    BY DEF SystemsInv
  <2>2. PICK n \in DOMAIN found[h] : s = found[h][n]
    BY DEF Range
  <2>3. n \in 1 .. stored[h]
    BY <2>1, LenProperties DEF HostInv, FoundInv, StoredInv
  <2>4. s.id \in DOMAIN trees[h] /\ trees[h][s.id] = s
    BY <2>1, <2>2, <2>3 DEF HostInv, StoredInv, Known
  <2>5. s \in SystemsOf(h)
    BY <2>1, <2>4 DEF HostInv, TreesInv
  <2>6. s.id \in TableIds(s.type)
    BY <2>4 DEF TableIds, GetSAPSystemsByType, Range
  <2>7. s.instances \subseteq OwnInstances(s.id)
    <3>1. PICK i \in DOMAIN GetSAPSystemsById(s.id) : GetSAPSystemsById(s.id)[i] = s
      BY <2>4, LookupById
    <3>2. s \in Range(GetSAPSystemsById(s.id))
      BY <3>1 DEF Range
    <3>3. QED
      BY <3>2 DEF OwnInstances
  <2>8. ASSUME NEW i \in OwnInstances(s.id), i.host = h
        PROVE  i \in s.instances
    <3>1. PICK j \in DOMAIN GetSAPSystemsById(s.id) : i \in GetSAPSystemsById(s.id)[j].instances
      BY DEF OwnInstances, Range
    <3>2. PICK g \in HostSet : s.id \in DOMAIN trees[g] /\ i \in trees[g][s.id].instances
      BY <3>1, LookupById
    <3>3. i.host = g
      BY <3>2, InstancesOfSystem DEF SystemsInv, HostInv, TreesInv
    <3>4. QED
      BY <2>4, <2>8, <3>2, <3>3
  <2>9. {i \in OwnInstances(s.id) : i.host = h /\ i.type = s.type} = s.instances
    BY <2>5, <2>7, <2>8, InstancesOfSystem
  <2>10. ASSUME NEW table \in Tables(s.id, s.type)
         PROVE  {i \in table : i.host = h /\ i.type = s.type} = s.instances
    <3> DEFINE app == GetSAPSystemsById(s.id)[1]
               attached == IF s.type = "Application" THEN GetAttachedDatabases(app) ELSE {}
    <3>1. CASE attached = {}
      <4>1. table = OwnInstances(s.id)
        BY <3>1 DEF Tables
      <4>2. QED
        BY <2>9, <4>1
    <3>2. CASE attached # {}
      <4>5. PICK d \in attached : \E picked \in AttachedInstances(d) :
                                    table = OwnInstances(s.id) \cup picked
        BY <3>2 DEF Tables
      <4>1. PICK picked \in AttachedInstances(d) : table = OwnInstances(s.id) \cup picked
        BY <4>5
      <4>2. s.type = "Application" /\ d \in GetAttachedDatabases(app)
        BY <4>1
      <4> HIDE DEF app, attached
      <4>3. \A i \in picked : i.type # "Application"
        BY <4>1, <4>2, AttachedAreNotApplications
      <4>4. QED
        BY <2>9, <4>1, <4>2, <4>3
    <3>3. QED
      BY <3>1, <3>2
  <2>11. QED
    BY <2>6, <2>10
<1>2. QED
  BY <1>1, SystemsInvHolds, PTL

-----------------------------------------------------------------------------
(* The read model.                                                         *)

(* What is published is a discovery, and what was projected last has its   *)
(* rows.                                                                   *)
Listing(h, list) ==
  /\ list \in Seq(SystemsOf(h))
  /\ \A i, j \in DOMAIN list : list[i].id = list[j].id /\ Known(list[i]) => i = j

RowOf(h, table, s, i) ==
  LET key == <<h, s.id, i.number>>
  IN  key \in DOMAIN table /\ table[key].sid = s.sid /\ table[key].type = s.type
                           /\ table[key].features = i.features

Covered(h, table, s) == \A i \in s.instances : i.number # "" => RowOf(h, table, s, i)

ProjectedInv(h) ==
  /\ published[h] # None => Listing(h, published[h])
  /\ projected[h] # None =>
       Listing(h, projected[h]) /\ \A n \in DOMAIN projected[h] : Covered(h, rows, projected[h][n])

(* Until a Store fails, what the discovery has stored is there.            *)
PlacedInv(h) ==
  pc[h] = "storing" \/ complete[h] => \A i \in 1 .. stored[h] : found[h][i].id \in DOMAIN trees[h]

RowsInv ==
  /\ pc = [h \in HostSet |-> pc[h]]
  /\ published = [h \in HostSet |-> published[h]]
  /\ projected = [h \in HostSet |-> projected[h]]
  /\ \A h \in HostSet : ProjectedInv(h) /\ PlacedInv(h)

(* The rows are upserted system after system.                              *)
LEMMA UpsertLoop ==
  ASSUME NEW S, NEW list \in Seq(S), NEW h, NEW table
  PROVE  \E upserted :
           /\ upserted[0] = table
           /\ \A n \in 1 .. Len(list) : upserted[n] = storeSAPInstance(h, upserted[n - 1], list[n])
           /\ Upserted(h, table, list) = upserted[Len(list)]
<1> DEFINE Run(g, m) == /\ g = [n \in 0 .. m |-> g[n]]
                        /\ g[0] = table
                        /\ \A n \in 1 .. m : g[n] = storeSAPInstance(h, g[n - 1], list[n])
           Bad == {m \in Nat : ~\E g : Run(g, m)}
<1>1. Bad = {}
  <2>. SUFFICES ASSUME Bad # {} PROVE FALSE
    OBVIOUS
  <2>1. PICK m \in Bad : \A k \in Bad : m <= k
    <3>1. Bad \in SUBSET Nat
      OBVIOUS
    <3>2. QED
      BY <3>1, HasLeast
  <2>2. CASE m = 0
    <3>1. Run([n \in 0 .. 0 |-> table], 0)
      OBVIOUS
    <3>2. QED BY <2>2, <3>1
  <2>3. CASE m # 0
    <3>1. m \in Nat /\ m - 1 \in Nat /\ m - 1 \notin Bad
      BY <2>1, <2>3
    <3>2. PICK g : Run(g, m - 1)
      BY <3>1
    <3> DEFINE f == [n \in 0 .. m |-> IF n = m THEN storeSAPInstance(h, g[m - 1], list[m]) ELSE g[n]]
    <3>3. DOMAIN f = 0 .. m /\ f[0] = table
      BY <3>1, <3>2, <2>3
    <3>4. ASSUME NEW n \in 1 .. m PROVE f[n] = storeSAPInstance(h, f[n - 1], list[n])
      <4>1. n - 1 \in 0 .. m /\ n - 1 # m /\ n \in 0 .. m
        BY <3>1
      <4>2. f[n - 1] = g[n - 1]
        BY <4>1
      <4>3. n # m => n \in 1 .. (m - 1) /\ f[n] = g[n]
        BY <3>1, <4>1
      <4>4. QED
        BY <3>2, <4>1, <4>2, <4>3
    <3> HIDE DEF f
    <3>5. f = [n \in 0 .. m |-> f[n]]
      BY DEF f
    <3>6. Run(f, m)
      BY <3>3, <3>4, <3>5
    <3>7. QED BY <2>1, <3>6
  <2>4. QED BY <2>2, <2>3
<1>2. PICK g : Run(g, Len(list))
  BY <1>1, LenProperties
<1>3. g = [n \in 0 .. Len(list) |->
             IF n = 0 THEN table ELSE storeSAPInstance(h, g[n - 1], list[n])]
  <2>1. \A n \in 0 .. Len(list) :
          g[n] = IF n = 0 THEN table ELSE storeSAPInstance(h, g[n - 1], list[n])
    BY <1>2, LenProperties
  <2>2. QED
    BY <1>2, <2>1
<1> DEFINE u == CHOOSE f : f = [n \in 0 .. Len(list) |->
                                  IF n = 0 THEN table ELSE storeSAPInstance(h, f[n - 1], list[n])]
<1>4. u = [n \in 0 .. Len(list) |->
             IF n = 0 THEN table ELSE storeSAPInstance(h, u[n - 1], list[n])]
  BY <1>3
<1>5. Upserted(h, table, list) = u[Len(list)]
  BY DEF Upserted
<1> HIDE DEF u
<1>6. u[0] = table /\ \A n \in 1 .. Len(list) : u[n] = storeSAPInstance(h, u[n - 1], list[n])
  <2>1. Len(list) \in Nat
    BY LenProperties
  <2>2. QED
    BY <1>4, <2>1
<1>7. QED
  BY <1>5, <1>6

(* Upserting a system makes its rows, and leaves those of other hosts and  *)
(* other systems as they are (sap_systems_projector.go:29-71).             *)
LEMMA UpsertsOne ==
  ASSUME NEW h \in HostSet, NEW s \in SystemsOf(h), NEW table
  PROVE  /\ Covered(h, storeSAPInstance(h, table, s), s)
         /\ \A g, t, i : (g # h \/ t.id # s.id) /\ RowOf(g, table, t, i)
                          => RowOf(g, storeSAPInstance(h, table, s), t, i)
<1> DEFINE numbered == {i \in s.instances : i.number # ""}
           keys == {RowKey(h, s, i) : i \in numbered}
           new == storeSAPInstance(h, table, s)
<1>1. /\ DOMAIN new = DOMAIN table \cup keys
      /\ \A k \in DOMAIN table \ keys : new[k] = table[k]
      /\ \A k \in keys : \E old : new[k] = Row(s, CHOOSE i \in numbered : RowKey(h, s, i) = k, old)
  BY DEF storeSAPInstance
<1> HIDE DEF new
<1>2. ASSUME NEW i \in s.instances, i.number # ""
      PROVE  RowOf(h, new, s, i)
  <2> DEFINE k == RowKey(h, s, i)
             j == CHOOSE x \in numbered : RowKey(h, s, x) = k
  <2>1. i \in numbered /\ k \in keys
    BY <1>2
  <2>2. j \in numbered /\ RowKey(h, s, j) = k
    BY <2>1
  <2>3. j.number = i.number
    BY <2>2 DEF RowKey
  <2>4. j = i
    BY <1>2, <2>2, <2>3, InstancesAreNumbered
  <2>5. PICK old : new[k] = Row(s, j, old)
    BY <1>1, <2>1
  <2>6. new[k].sid = s.sid /\ new[k].type = s.type /\ new[k].features = i.features
    <3>1. new[k] = Row(s, i, old)
      BY <2>4, <2>5
    <3>2. PICK db : Row(s, i, old) =
                      [sid |-> s.sid, type |-> s.type, features |-> i.features, dbHost |-> db]
      BY Zenon DEF Row
    <3> HIDE DEF k
    <3>3. QED
      BY <3>1, <3>2
  <2>7. k \in DOMAIN new
    BY <1>1, <2>1
  <2>8. QED
    BY <2>6, <2>7 DEF RowOf, RowKey
<1>3. ASSUME NEW g, NEW t, NEW i, g # h \/ t.id # s.id, RowOf(g, table, t, i)
      PROVE  RowOf(g, new, t, i)
  <2>1. <<g, t.id, i.number>> \notin keys
    BY <1>3 DEF RowKey
  <2>2. <<g, t.id, i.number>> \in DOMAIN table
    BY <1>3 DEF RowOf
  <2>3. new[<<g, t.id, i.number>>] = table[<<g, t.id, i.number>>]
        /\ <<g, t.id, i.number>> \in DOMAIN new
    BY <1>1, <2>1, <2>2
  <2>4. QED
    BY <1>3, <2>3 DEF RowOf
<1>4. Covered(h, new, s)
  BY <1>2 DEF Covered
<1>5. \A g, t, i : (g # h \/ t.id # s.id) /\ RowOf(g, table, t, i) => RowOf(g, new, t, i)
  BY <1>3
<1>6. new = storeSAPInstance(h, table, s)
  BY DEF new
<1>7. Covered(h, storeSAPInstance(h, table, s), s)
  BY <1>4, <1>6
<1>8. ASSUME NEW g, NEW t, NEW i, g # h \/ t.id # s.id, RowOf(g, table, t, i)
      PROVE  RowOf(g, storeSAPInstance(h, table, s), t, i)
  <2>1. RowOf(g, new, t, i)
    BY <1>5, <1>8
  <2>2. QED
    BY <1>6, <2>1
<1>9. QED
  BY <1>7, <1>8

(* Upserting a discovery makes the rows of each of its systems.            *)
LEMMA UpsertsAll ==
  ASSUME NEW h \in HostSet, NEW list, Listing(h, list), NEW table
  PROVE  /\ \A m \in DOMAIN list : Covered(h, Upserted(h, table, list), list[m])
         /\ \A g, t, i : g # h /\ RowOf(g, table, t, i) => RowOf(g, Upserted(h, table, list), t, i)
<1>1. list \in Seq(SystemsOf(h)) /\ Len(list) \in Nat /\ DOMAIN list = 1 .. Len(list)
  BY LenProperties DEF Listing
<1>2. PICK u :
        /\ u[0] = table
        /\ \A n \in 1 .. Len(list) : u[n] = storeSAPInstance(h, u[n - 1], list[n])
        /\ Upserted(h, table, list) = u[Len(list)]
  BY <1>1, UpsertLoop, SMTT(30)
<1> DEFINE Rows(n) == \A m \in 1 .. n : Covered(h, u[n], list[m])
           Others(n) == \A g, t, i : g # h /\ RowOf(g, table, t, i) => RowOf(g, u[n], t, i)
           Bad == {n \in 0 .. Len(list) : ~(Rows(n) /\ Others(n))}
<1>3. Rows(0) /\ Others(0)
  BY <1>2
<1>4. ASSUME NEW n \in 1 .. Len(list), Rows(n - 1), Others(n - 1)
      PROVE  Rows(n) /\ Others(n)
  <2> DEFINE s == list[n]
  <2>1. s \in SystemsOf(h) /\ n \in DOMAIN list
    BY <1>1, ElementOfSeq
  <2>2. u[n] = storeSAPInstance(h, u[n - 1], s)
    BY <1>2
  <2>3. /\ Covered(h, u[n], s)
        /\ \A g, t, i : (g # h \/ t.id # s.id) /\ RowOf(g, u[n - 1], t, i) => RowOf(g, u[n], t, i)
    BY <2>1, <2>2, UpsertsOne
  <2>4. ASSUME NEW m \in 1 .. n PROVE Covered(h, u[n], list[m])
    <3>1. CASE m = n
      BY <2>3, <3>1
    <3>2. CASE m # n
      <4>1. m \in 1 .. (n - 1) /\ m \in DOMAIN list
        BY <1>1, <3>2
      <4>2. list[m] \in SystemsOf(h)
        BY <1>1, <4>1, ElementOfSeq
      <4>3. Covered(h, u[n - 1], list[m])
        BY <1>4, <4>1
      <4>4. ASSUME NEW i \in list[m].instances, i.number # ""
            PROVE  RowOf(h, u[n], list[m], i)
        <5>1. Known(list[m])
          BY <4>2, <4>4, InstancesAreNumbered
        <5>2. list[m].id # s.id
          BY <2>1, <3>2, <4>1, <5>1 DEF Listing
        <5>3. RowOf(h, u[n - 1], list[m], i)
          BY <4>3, <4>4 DEF Covered
        <5>4. QED
          BY <2>3, <5>2, <5>3
      <4>5. QED
        BY <4>4 DEF Covered
    <3>3. QED
      BY <3>1, <3>2
  <2>5. Others(n)
    BY <1>4, <2>3
  <2>6. QED
    BY <2>4, <2>5
<1> HIDE DEF Rows, Others
<1>5. Bad = {}
  <2>. SUFFICES ASSUME Bad # {} PROVE FALSE
    OBVIOUS
  <2>1. Bad \in SUBSET Nat
    BY <1>1
  <2>2. PICK n \in Bad : \A m \in Bad : n <= m
    BY <2>1, HasLeast
  <2>3. n \in 1 .. Len(list) /\ n - 1 \in 0 .. Len(list) /\ n - 1 \notin Bad
    BY <1>1, <1>3, <2>2
  <2>4. QED
    BY <1>4, <2>2, <2>3
<1>6. Rows(Len(list)) /\ Others(Len(list))
  BY <1>1, <1>5
<1>7. QED
  BY <1>1, <1>2, <1>6 DEF Rows, Others

(* Hosts whose agent does nothing keep their part of the invariant.        *)
LEMMA OtherRows ==
  ASSUME NEW g \in HostSet, ProjectedInv(g), PlacedInv(g),
         UNCHANGED <<pc[g], trees[g], found[g], stored[g], complete[g], published[g], projected[g]>>,
         \A t, i : RowOf(g, rows, t, i) => RowOf(g, rows', t, i)
  PROVE  (ProjectedInv(g) /\ PlacedInv(g))'
<1>1. PlacedInv(g)'
  BY DEF PlacedInv
<1>2. \A s : Covered(g, rows, s) => Covered(g, rows', s)
  BY DEF Covered
<1>3. ProjectedInv(g)'
  BY <1>2 DEF ProjectedInv
<1>4. QED
  BY <1>1, <1>3

(* A discovery is published and projected.                                 *)
LEMMA PublishedRowsKept ==
  ASSUME NEW h \in HostSet, SystemsInv, RowsInv, Publish(h) \/ Project(h)
  PROVE  RowsInv'
<1>1. CASE Publish(h)
  <2>1. /\ published' = [published EXCEPT ![h] = found[h]]
        /\ pc' = [pc EXCEPT ![h] = "idle"]
        /\ UNCHANGED <<trees, rows, found, stored, complete, projected>>
    BY <1>1 DEF Publish
  <2>2. published'[h] = found[h] /\ pc'[h] = "idle"
    BY <2>1 DEF RowsInv
  <2>3. Listing(h, found[h])
    BY DEF SystemsInv, HostInv, FoundInv, Listing
  <2>4. (ProjectedInv(h) /\ PlacedInv(h))'
    BY <2>1, <2>2, <2>3 DEF RowsInv, ProjectedInv, PlacedInv
  <2>5. ASSUME NEW g \in HostSet \ {h} PROVE (ProjectedInv(g) /\ PlacedInv(g))'
    BY <2>1, OtherRows DEF RowsInv
  <2>6. QED
    BY <2>1, <2>4, <2>5 DEF RowsInv
<1>2. CASE Project(h)
  <2>1. /\ published[h] # None /\ rows' = Upserted(h, rows, published[h])
        /\ projected' = [projected EXCEPT ![h] = published[h]]
        /\ published' = [published EXCEPT ![h] = None]
        /\ UNCHANGED <<trees, pc, found, stored, complete>>
    BY <1>2 DEF Project
  <2>2. projected'[h] = published[h] /\ published'[h] = None
    BY <2>1 DEF RowsInv
  <2>3. Listing(h, published[h])
    BY <2>1 DEF RowsInv, ProjectedInv
  <2>4. (ProjectedInv(h) /\ PlacedInv(h))'
    <3>1. \A m \in DOMAIN published[h] : Covered(h, rows', published[h][m])
      BY <2>1, <2>3, UpsertsAll
    <3>2. ProjectedInv(h)'
      BY <2>2, <2>3, <3>1 DEF ProjectedInv
    <3>3. PlacedInv(h)'
      BY <2>1 DEF RowsInv, PlacedInv
    <3>4. QED
      BY <3>2, <3>3
  <2>5. ASSUME NEW g \in HostSet \ {h} PROVE (ProjectedInv(g) /\ PlacedInv(g))'
    <3>1. \A t, i : RowOf(g, rows, t, i) => RowOf(g, rows', t, i)
      BY <2>1, <2>3, UpsertsAll
    <3>2. UNCHANGED <<pc[g], trees[g], found[g], stored[g], complete[g], published[g], projected[g]>>
      BY <2>1 DEF RowsInv
    <3>3. QED
      BY <3>1, <3>2, OtherRows DEF RowsInv
  <2>6. QED
    BY <2>1, <2>4, <2>5 DEF RowsInv
<1>3. QED
  BY <1>1, <1>2

(* What a discovery has stored stays there while it goes on.               *)
LEMMA PlacedRowsKept ==
  ASSUME NEW h \in HostSet, SystemsInv, RowsInv,
         \/ Discover(h) \/ Store(h) \/ StoreFails(h)
         \/ StoreMetadata(h) \/ StoreMetadataFails(h) \/ PublishFails(h)
  PROVE  RowsInv'
<1>1. UNCHANGED <<rows, published, projected>>
  BY DEF Discover, Store, StoreFails, StoreMetadata, StoreMetadataFails, PublishFails
<1>2. \E place : pc' = [pc EXCEPT ![h] = place]
  <2>1. pc' = pc \/ \E place : pc' = [pc EXCEPT ![h] = place]
    BY DEF Discover, Store, StoreFails, StoreMetadata, StoreMetadataFails, PublishFails, Abandon
  <2>2. pc = [pc EXCEPT ![h] = pc[h]]
    BY DEF RowsInv
  <2>3. QED
    BY <2>1, <2>2
<1>3. ASSUME NEW g \in HostSet \ {h}
      PROVE  UNCHANGED <<trees[g], found[g], stored[g], complete[g]>>
  BY DEF SystemsInv, Shape, Discover, Store, StoreFails, StoreMetadata, StoreMetadataFails, PublishFails
<1>4. ASSUME NEW g \in HostSet \ {h} PROVE (ProjectedInv(g) /\ PlacedInv(g))'
  BY <1>1, <1>2, <1>3, OtherRows DEF RowsInv
<1>5. ProjectedInv(h)'
  BY <1>1 DEF RowsInv, ProjectedInv
<1>6. PlacedInv(h)'
  <2>1. HostInv(h) /\ PlacedInv(h)
    BY DEF SystemsInv, RowsInv
  <2>2. CASE Discover(h)
    <3>1. stored'[h] = 0
      BY <2>2 DEF Discover, SystemsInv, Shape
    <3>2. QED
      BY <3>1 DEF PlacedInv
  <2>3. CASE Store(h)
    <3> DEFINE n == stored[h] + 1
    <3>1. /\ pc[h] = "storing" /\ stored[h] \in Nat /\ stored'[h] = n /\ found' = found
      BY <2>1, <2>3, LenProperties DEF Store, SystemsInv, Shape, HostInv, FoundInv
    <3>2. DOMAIN trees'[h] = DOMAIN trees[h] \cup {found[h][n].id}
      BY <2>3 DEF Store, Stored, With, SystemsInv, Shape
    <3>3. \A i \in 1 .. stored[h] : found[h][i].id \in DOMAIN trees[h]
      BY <2>1, <3>1 DEF PlacedInv
    <3>4. \A i \in 1 .. n : i \in 1 .. stored[h] \/ i = n
      BY <3>1
    <3> HIDE DEF n
    <3>5. \A i \in 1 .. n : found[h][i].id \in DOMAIN trees'[h]
      BY <3>2, <3>3, <3>4
    <3>6. QED
      BY <3>1, <3>5 DEF PlacedInv
  <2>4. CASE StoreFails(h) \/ StoreMetadataFails(h) \/ PublishFails(h)
    <3>1. pc'[h] = "idle" /\ UNCHANGED <<found, stored, complete>>
      BY <2>4 DEF StoreFails, StoreMetadataFails, PublishFails, Abandon, RowsInv
    <3>2. CASE StoreFails(h)
      <4>1. ~complete[h]
        BY <2>1, <3>2, LenProperties DEF StoreFails, HostInv, FoundInv, StoredInv
      <4>2. QED
        BY <3>1, <4>1 DEF PlacedInv
    <3>3. CASE StoreMetadataFails(h) \/ PublishFails(h)
      <4>1. trees' = trees
        BY <3>3 DEF StoreMetadataFails, PublishFails
      <4>2. QED
        BY <2>1, <3>1, <4>1 DEF PlacedInv
    <3>4. QED
      BY <2>4, <3>2, <3>3
  <2>5. CASE StoreMetadata(h)
    <3>1. pc[h] = "storing" /\ UNCHANGED <<trees, found, stored>>
      BY <2>5 DEF StoreMetadata
    <3>2. QED
      BY <2>1, <3>1 DEF PlacedInv
  <2>6. QED
    BY <2>2, <2>3, <2>4, <2>5
<1>7. QED
  BY <1>1, <1>2, <1>4, <1>5, <1>6 DEF RowsInv

(* Every step keeps the invariant of the read model.                       *)
LEMMA RowsInvHolds == Spec => [](SystemsInv /\ RowsInv)
<1>1. Init => RowsInv
  <2> SUFFICES ASSUME Init PROVE RowsInv
    OBVIOUS
  <2>1. \A h \in HostSet : published[h] = None /\ projected[h] = None /\ stored[h] = 0
    BY DEF Init
  <2>2. \A h \in HostSet : ProjectedInv(h) /\ PlacedInv(h)
    BY <2>1 DEF ProjectedInv, PlacedInv
  <2>3. QED
    BY <2>2 DEF Init, RowsInv
<1>2. SystemsInv /\ RowsInv /\ [Next]_vars => RowsInv'
  <2> SUFFICES ASSUME SystemsInv, RowsInv, [Next]_vars PROVE RowsInv'
    OBVIOUS
  <2>1. ASSUME UNCHANGED <<trees, rows, pc, found, stored, complete, published, projected>>
        PROVE  RowsInv'
    <3>1. ASSUME NEW g \in HostSet PROVE (ProjectedInv(g) /\ PlacedInv(g))'
      BY <2>1, OtherRows DEF RowsInv
    <3>2. QED
      BY <2>1, <3>1 DEF RowsInv
  <2>2. CASE UNCHANGED vars
    BY <2>1, <2>2 DEF vars
  <2>3. ASSUME NEW h \in HostSet, Change(h) PROVE RowsInv'
    BY <2>1, <2>3 DEF Change
  <2>4. QED
    BY <2>2, <2>3, PublishedRowsKept, PlacedRowsKept DEF Next, Tick, Failure
<1>3. QED
  BY <1>1, <1>2, SystemsInvHolds, PTL DEF Spec

(* sap_systems_projector.go:29-71: when pages and read model were made     *)
(* from the same discovery, every instance on the page whose number is     *)
(* known has its row.                                                      *)
THEOREM RowsBehindPages == Spec => []RowsCoverPages
<1>1. SystemsInv /\ RowsInv => RowsCoverPages
  <2> SUFFICES ASSUME SystemsInv, RowsInv, NEW h \in HostSet,
                      complete[h], projected[h] # None, projected[h] = found[h],
                      NEW s \in Range(found[h]), NEW i \in trees[h][s.id].instances, i.number # ""
               PROVE  RowOf(h, rows, s, i)
    BY DEF RowsCoverPages, RowOf
  <2>1. PICK n \in DOMAIN found[h] : s = found[h][n]
    BY DEF Range
  <2>2. HostInv(h) /\ ProjectedInv(h) /\ PlacedInv(h)
    BY DEF SystemsInv, RowsInv
  <2>3. n \in 1 .. stored[h]
    BY <2>1, <2>2, LenProperties DEF HostInv, FoundInv, StoredInv
  <2>4. s.id \in DOMAIN trees[h] /\ (Known(s) => trees[h][s.id] = s)
    BY <2>1, <2>2, <2>3 DEF HostInv, StoredInv, PlacedInv
  <2>5. trees[h][s.id] \in SystemsOf(h) /\ trees[h][s.id].id = s.id
    BY <2>2, <2>4 DEF HostInv, TreesInv
  <2>6. s \in SystemsOf(h)
    <3>1. found[h] \in Seq(SystemsOf(h)) /\ n \in 1 .. Len(found[h])
      BY <2>1, <2>2, LenProperties DEF HostInv, FoundInv
    <3>2. QED
      BY <2>1, <3>1, ElementOfSeq
  <2>7. Known(s)
    <3>1. s.id # "-"
      BY <2>5, InstancesAreNumbered
    <3>2. QED
      BY <2>6, <3>1, InstancesAreNumbered
  <2>8. Covered(h, rows, s)
    BY <2>1, <2>2 DEF ProjectedInv
  <2>9. QED
    BY <2>4, <2>7, <2>8 DEF Covered
<1>2. QED
  BY <1>1, RowsInvHolds, PTL

-----------------------------------------------------------------------------
(* The key-value store: what is put is what is listed.                     *)

(* Induction up to a number.                                               *)
LEMMA Upto ==
  ASSUME NEW n \in Nat, NEW T, 0 \in T, \A m \in 1 .. n : m - 1 \in T => m \in T
  PROVE  \A m \in 0 .. n : m \in T
<1> DEFINE Bad == {m \in 0 .. n : m \notin T}
<1>1. SUFFICES ASSUME Bad # {} PROVE FALSE
  OBVIOUS
<1>2. Bad \in SUBSET Nat
  OBVIOUS
<1>3. PICK m \in Bad : \A k \in Bad : m <= k
  BY <1>1, <1>2, HasLeast
<1>4. m \in 1 .. n /\ m - 1 \in 0 .. n /\ m - 1 \notin Bad
  BY <1>3
<1>5. QED
  BY <1>3, <1>4

(* The first elements of a list.                                           *)
LEMMA Beginning ==
  ASSUME NEW S, NEW k \in Seq(S), NEW n \in 0 .. Len(k)
  PROVE  /\ SubSeq(k, 1, n) \in Seq(S) /\ Len(SubSeq(k, 1, n)) = n
         /\ \A i \in 1 .. n : SubSeq(k, 1, n)[i] = k[i]
<1>1. Len(k) \in Nat /\ n \in Int /\ \A i \in 1 .. n : i \in 1 .. Len(k)
  BY LenProperties
<1>2. \A i \in 1 .. n : k[i] \in S
  BY <1>1, ElementOfSeq
<1>3. /\ SubSeq(k, 1, n) \in Seq(S)
      /\ Len(SubSeq(k, 1, n)) = IF 1 <= n THEN n - 1 + 1 ELSE 0
      /\ \A i \in 1 .. n - 1 + 1 : SubSeq(k, 1, n)[i] = k[1 + i - 1]
  BY <1>1, <1>2, SubSeqProperties
<1>4. QED
  BY <1>1, <1>3

(* The characters of keys, the end of a text before all of them.           *)
Characters == {c \in Int : c >= Slash}
At(s, i) == IF i <= Len(s) THEN s[i] ELSE Slash - 1

(* One text comes before another where they differ first.                  *)
DifferAt(s, t, i) == At(s, i) < At(t, i) /\ \A k \in 1 .. i - 1 : At(s, k) = At(t, k)

(* Within a text are its characters, after it what comes before them       *)
(* all.                                                                    *)
LEMMA AtIsInt ==
  ASSUME NEW s \in Seq(Characters), NEW i \in Nat \ {0}
  PROVE  At(s, i) \in Int /\ At(s, i) >= Slash - 1 /\ (At(s, i) >= Slash <=> i <= Len(s))
<1>1. CASE i <= Len(s)
  <2>1. i \in 1 .. Len(s)
    BY <1>1, LenProperties
  <2>2. s[i] \in Characters
    BY <2>1, ElementOfSeq
  <2>3. QED
    BY <1>1, <2>2 DEF At, Characters, Slash
<1>2. CASE ~(i <= Len(s))
  BY <1>2 DEF At, Slash
<1>3. QED
  BY <1>1, <1>2

(* Two texts are in order if the first position where they differ says     *)
(* so: the end of the shorter one counts as a position.                    *)
LEMMA BeforeDiffers ==
  ASSUME NEW s \in Seq(Characters), NEW t \in Seq(Characters)
  PROVE  Before(s, t) <=> \E i \in 1 .. Len(t) : DifferAt(s, t, i)
<1>1. /\ Len(s) \in Nat /\ DOMAIN s = 1 .. Len(s)
      /\ Len(t) \in Nat /\ DOMAIN t = 1 .. Len(t)
  BY LenProperties
<1>2. \A u \in Seq(Characters) : \A i \in 0 .. Len(u) :
        /\ SubSeq(u, 1, i) \in Seq(Characters) /\ Len(SubSeq(u, 1, i)) = i
        /\ \A k \in 1 .. i : SubSeq(u, 1, i)[k] = u[k]
  <2> TAKE u \in Seq(Characters)
  <2> TAKE i \in 0 .. Len(u)
  <2>1. Len(u) \in Nat /\ i \in Int /\ \A k \in 1 .. i : k \in 1 .. Len(u)
    BY LenProperties
  <2>2. \A k \in 1 .. i : u[k] \in Characters
    BY <2>1, ElementOfSeq
  <2>3. /\ SubSeq(u, 1, i) \in Seq(Characters)
        /\ Len(SubSeq(u, 1, i)) = IF 1 <= i THEN i - 1 + 1 ELSE 0
        /\ \A k \in 1 .. i - 1 + 1 : SubSeq(u, 1, i)[k] = u[1 + k - 1]
    BY <2>1, <2>2, SubSeqProperties
  <2>4. QED
    BY <2>1, <2>3
<1>3. ASSUME Len(s) < Len(t), s = SubSeq(t, 1, Len(s))
      PROVE  DifferAt(s, t, Len(s) + 1)
  <2>1. At(s, Len(s) + 1) = Slash - 1 /\ At(t, Len(s) + 1) \in Int /\ At(t, Len(s) + 1) >= Slash
    BY <1>1, <1>3, AtIsInt DEF At
  <2>2. \A k \in 1 .. Len(s) : s[k] = t[k]
    BY <1>1, <1>2, <1>3
  <2>3. \A k \in 1 .. Len(s) : At(s, k) = At(t, k)
    BY <1>1, <1>3, <2>2 DEF At
  <2>4. QED
    BY <1>1, <2>1, <2>3 DEF DifferAt, Slash
<1>4. ASSUME NEW i \in DOMAIN s \cap DOMAIN t
      PROVE  s[i] < t[i] /\ SubSeq(s, 1, i - 1) = SubSeq(t, 1, i - 1) <=> DifferAt(s, t, i)
  <2>1. i - 1 \in 0 .. Len(s) /\ i - 1 \in 0 .. Len(t) /\ i <= Len(s) /\ i <= Len(t)
    BY <1>1
  <2>2. SubSeq(s, 1, i - 1) = SubSeq(t, 1, i - 1) <=> \A k \in 1 .. i - 1 : s[k] = t[k]
    <3> DEFINE a == SubSeq(s, 1, i - 1)
               b == SubSeq(t, 1, i - 1)
    <3>1. a \in Seq(Characters) /\ Len(a) = i - 1 /\ \A k \in 1 .. i - 1 : a[k] = s[k]
      BY <1>2, <2>1
    <3>2. b \in Seq(Characters) /\ Len(b) = i - 1 /\ \A k \in 1 .. i - 1 : b[k] = t[k]
      BY <1>2, <2>1
    <3> HIDE DEF a, b
    <3>3. (\A k \in 1 .. Len(a) : a[k] = b[k]) => a = b
      BY <3>1, <3>2, SeqEqual
    <3>4. a = b <=> \A k \in 1 .. i - 1 : s[k] = t[k]
      BY <3>1, <3>2, <3>3
    <3>5. QED
      BY <3>4 DEF a, b
  <2>3. At(s, i) = s[i] /\ At(t, i) = t[i] /\ \A k \in 1 .. i - 1 : At(s, k) = s[k] /\ At(t, k) = t[k]
    BY <1>1, <2>1 DEF At
  <2>4. QED
    BY <2>2, <2>3 DEF DifferAt
<1>5. ASSUME NEW i \in 1 .. Len(t), DifferAt(s, t, i), i \notin DOMAIN s
      PROVE  Len(s) < Len(t) /\ s = SubSeq(t, 1, Len(s))
  <2>1. Len(s) < i
    BY <1>1, <1>5
  <2>2. Len(s) < Len(t)
    BY <1>1, <2>1
  <2>3. ASSUME NEW k \in 1 .. Len(s) PROVE s[k] = t[k]
    <3>1. At(s, k) = At(t, k) /\ k <= Len(s) /\ k <= Len(t)
      BY <1>1, <1>5, <2>1 DEF DifferAt
    <3>2. QED
      BY <3>1 DEF At
  <2>4. Len(s) \in 0 .. Len(t)
    BY <1>1, <2>2
  <2>5. QED
    BY <1>2, <2>2, <2>3, <2>4, SeqEqual
<1>6. ASSUME Before(s, t) PROVE \E i \in 1 .. Len(t) : DifferAt(s, t, i)
  <2>1. CASE Len(s) < Len(t) /\ s = SubSeq(t, 1, Len(s))
    <3>1. Len(s) + 1 \in 1 .. Len(t)
      BY <1>1, <2>1
    <3>2. QED
      BY <1>3, <2>1, <3>1
  <2>2. CASE \E i \in DOMAIN s \cap DOMAIN t :
               s[i] < t[i] /\ SubSeq(s, 1, i - 1) = SubSeq(t, 1, i - 1)
    BY <1>1, <1>4, <2>2
  <2>3. QED
    BY <1>6, <2>1, <2>2 DEF Before
<1>7. ASSUME NEW i \in 1 .. Len(t), DifferAt(s, t, i) PROVE Before(s, t)
  BY <1>1, <1>4, <1>5, <1>7 DEF Before
<1>8. QED
  BY <1>6, <1>7

(* The order in which Consul sorts keys is one.                            *)
LEMMA BeforeOrders ==
  ASSUME NEW s \in Seq(Characters), NEW t \in Seq(Characters)
  PROVE  /\ ~(Before(s, t) /\ Before(t, s))
         /\ s = t \/ Before(s, t) \/ Before(t, s)
         /\ \A u \in Seq(Characters) : Before(s, t) /\ Before(t, u) => Before(s, u)
<1>1. \A u \in Seq(Characters) : Len(u) \in Nat
  BY LenProperties
<1>2. \A u \in Seq(Characters) : \A i \in Nat \ {0} :
        At(u, i) \in Int /\ At(u, i) >= Slash - 1 /\ (At(u, i) >= Slash <=> i <= Len(u))
  BY AtIsInt
<1>3. ~(Before(s, t) /\ Before(t, s))
  <2> SUFFICES ASSUME Before(s, t), Before(t, s) PROVE FALSE
    OBVIOUS
  <2>1. PICK i \in 1 .. Len(t) : DifferAt(s, t, i)
    BY BeforeDiffers
  <2>2. PICK j \in 1 .. Len(s) : DifferAt(t, s, j)
    BY BeforeDiffers
  <2>3. i \in Nat \ {0} /\ j \in Nat \ {0}
    BY <1>1
  <2>4. CASE i = j
    BY <1>2, <2>1, <2>2, <2>3, <2>4 DEF DifferAt
  <2>5. CASE i < j
    <3>1. At(t, i) = At(s, i)
      BY <2>2, <2>3, <2>5 DEF DifferAt
    <3>2. QED
      BY <1>2, <2>1, <2>3, <3>1 DEF DifferAt
  <2>6. CASE j < i
    <3>1. At(t, j) = At(s, j)
      BY <2>1, <2>3, <2>6 DEF DifferAt
    <3>2. QED
      BY <1>2, <2>2, <2>3, <3>1 DEF DifferAt
  <2>7. QED
    BY <2>3, <2>4, <2>5, <2>6
<1>4. s = t \/ Before(s, t) \/ Before(t, s)
  <2> DEFINE Apart == {i \in Nat \ {0} : At(s, i) # At(t, i)}
  <2>1. CASE Apart = {}
    <3>1. \A i \in Nat \ {0} : At(s, i) = At(t, i)
      BY <2>1
    <3>2. \A i \in Nat \ {0} : i <= Len(s) <=> i <= Len(t)
      BY <1>2, <3>1
    <3>3. Len(s) = Len(t)
      <4>1. ~(Len(s) < Len(t))
        <5>1. Len(s) + 1 \in Nat \ {0}
          BY <1>1
        <5>2. QED
          BY <1>1, <3>2, <5>1
      <4>2. ~(Len(t) < Len(s))
        <5>1. Len(t) + 1 \in Nat \ {0}
          BY <1>1
        <5>2. QED
          BY <1>1, <3>2, <5>1
      <4>3. QED
        BY <1>1, <4>1, <4>2
    <3>4. \A i \in 1 .. Len(s) : s[i] = t[i]
      BY <1>1, <3>1, <3>3 DEF At
    <3>5. QED
      BY <3>3, <3>4, SeqEqual
  <2>2. CASE Apart # {}
    <3>1. Apart \in SUBSET Nat
      OBVIOUS
    <3>2. PICK i \in Apart : \A k \in Apart : i <= k
      BY <2>2, <3>1, HasLeast
    <3>3. i \in Nat \ {0} /\ At(s, i) # At(t, i)
      BY <3>2
    <3>4. \A k \in 1 .. i - 1 : At(s, k) = At(t, k)
      <4> SUFFICES ASSUME NEW k \in 1 .. i - 1, At(s, k) # At(t, k) PROVE FALSE
        OBVIOUS
      <4>1. k \in Apart /\ k < i
        BY <3>3
      <4>2. QED
        BY <3>2, <3>3, <4>1
    <3>5. CASE At(s, i) < At(t, i)
      <4>1. i \in 1 .. Len(t) /\ DifferAt(s, t, i)
        BY <1>1, <1>2, <3>3, <3>4, <3>5 DEF DifferAt, Slash
      <4>2. QED
        BY <4>1, BeforeDiffers
    <3>6. CASE At(t, i) < At(s, i)
      <4>1. i \in 1 .. Len(s) /\ DifferAt(t, s, i)
        BY <1>1, <1>2, <3>3, <3>4, <3>6 DEF DifferAt, Slash
      <4>2. QED
        BY <4>1, BeforeDiffers
    <3>7. QED
      BY <1>2, <3>3, <3>5, <3>6
  <2>3. QED
    BY <2>1, <2>2
<1>5. ASSUME NEW u \in Seq(Characters), Before(s, t), Before(t, u)
      PROVE  Before(s, u)
  <2>1. PICK i \in 1 .. Len(t) : DifferAt(s, t, i)
    BY <1>5, BeforeDiffers
  <2>2. PICK j \in 1 .. Len(u) : DifferAt(t, u, j)
    BY <1>5, BeforeDiffers
  <2>3. i \in Nat \ {0} /\ j \in Nat \ {0}
    BY <1>1
  <2>4. \A k \in Nat \ {0} : At(s, k) \in Int /\ At(t, k) \in Int /\ At(u, k) \in Int
    BY <1>2
  <2>5. CASE i < j
    <3>1. At(t, i) = At(u, i)
      BY <2>2, <2>3, <2>5 DEF DifferAt
    <3>2. \A k \in 1 .. i - 1 : At(s, k) = At(t, k) /\ At(t, k) = At(u, k)
      BY <2>1, <2>2, <2>3, <2>5 DEF DifferAt
    <3>3. DifferAt(s, u, i)
      BY <2>1, <3>1, <3>2 DEF DifferAt
    <3>4. i \in 1 .. Len(u)
      BY <1>1, <2>2, <2>3, <2>5
    <3>5. QED
      BY <3>3, <3>4, BeforeDiffers
  <2>6. CASE j < i
    <3>1. At(s, j) = At(t, j)
      BY <2>1, <2>3, <2>6 DEF DifferAt
    <3>2. \A k \in 1 .. j - 1 : At(s, k) = At(t, k) /\ At(t, k) = At(u, k)
      BY <2>1, <2>2, <2>3, <2>6 DEF DifferAt
    <3>3. DifferAt(s, u, j)
      BY <2>2, <3>1, <3>2 DEF DifferAt
    <3>4. QED
      BY <3>3, BeforeDiffers
  <2>7. CASE i = j
    <3>1. \A k \in 1 .. j - 1 : At(s, k) = At(t, k) /\ At(t, k) = At(u, k)
      BY <2>1, <2>2, <2>7 DEF DifferAt
    <3>2. At(s, j) < At(u, j)
      BY <2>1, <2>2, <2>3, <2>4, <2>7 DEF DifferAt
    <3>3. DifferAt(s, u, j)
      BY <3>1, <3>2 DEF DifferAt
    <3>4. QED
      BY <3>3, BeforeDiffers
  <2>8. QED
    BY <2>3, <2>5, <2>6, <2>7
<1>6. QED
  BY <1>3, <1>4, <1>5

(* The text of a key, segment after segment.                               *)
LEMMA TextLoop ==
  ASSUME NEW path \in Seq(Nat)
  PROVE  \E text :
           /\ text[0] = <<>>
           /\ \A n \in 1 .. Len(path) : text[n] = text[n - 1] \o Append(Code(path[n]), Slash)
           /\ KeyText(path) = text[Len(path)]
<1> DEFINE Step(t, n) == t \o Append(Code(path[n]), Slash)
           Run(g, m) == /\ g = [n \in 0 .. m |-> g[n]]
                        /\ g[0] = <<>>
                        /\ \A n \in 1 .. m : g[n] = Step(g[n - 1], n)
           T == {m \in Nat : \E g : Run(g, m)}
<1>1. Len(path) \in Nat
  BY LenProperties
<1>2. 0 \in T
  <2>1. Run([n \in 0 .. 0 |-> <<>>], 0)
    OBVIOUS
  <2>2. QED
    BY <2>1
<1>3. ASSUME NEW m \in 1 .. Len(path), m - 1 \in T PROVE m \in T
  <2>1. m \in Nat /\ m - 1 \in Nat /\ m # 0
    BY <1>1
  <2>2. PICK g : Run(g, m - 1)
    BY <1>3
  <2> DEFINE f == [n \in 0 .. m |-> IF n = m THEN Step(g[m - 1], m) ELSE g[n]]
  <2>3. DOMAIN f = 0 .. m /\ f[0] = <<>>
    BY <2>1, <2>2
  <2>4. ASSUME NEW n \in 1 .. m PROVE f[n] = Step(f[n - 1], n)
    <3>1. n - 1 \in 0 .. m /\ n - 1 # m /\ n \in 0 .. m
      BY <2>1
    <3>2. f[n - 1] = g[n - 1]
      BY <3>1
    <3>3. n # m => n \in 1 .. (m - 1) /\ f[n] = g[n]
      BY <2>1, <3>1
    <3>4. QED
      BY <2>2, <3>1, <3>2, <3>3
  <2> HIDE DEF f
  <2>5. f = [n \in 0 .. m |-> f[n]]
    BY DEF f
  <2>6. Run(f, m)
    BY <2>3, <2>4, <2>5
  <2>7. QED
    BY <2>1, <2>6
<1> HIDE DEF T
<1>4. Len(path) \in T
  <2>1. \A m \in 1 .. Len(path) : m - 1 \in T => m \in T
    BY <1>3
  <2>2. \A m \in 0 .. Len(path) : m \in T
    BY <1>1, <1>2, <2>1, Upto
  <2>3. QED
    BY <1>1, <2>2
<1>5. PICK g : Run(g, Len(path))
  BY <1>4 DEF T
<1>6. g = [n \in 0 .. Len(path) |->
             IF n = 0 THEN <<>> ELSE g[n - 1] \o Append(Code(path[n]), Slash)]
  <2>1. \A n \in 0 .. Len(path) :
          g[n] = IF n = 0 THEN <<>> ELSE g[n - 1] \o Append(Code(path[n]), Slash)
    BY <1>1, <1>5
  <2>2. QED
    BY <1>5, <2>1
<1> DEFINE u == CHOOSE f : f = [n \in 0 .. Len(path) |->
                  IF n = 0 THEN <<>> ELSE f[n - 1] \o Append(Code(path[n]), Slash)]
<1>7. u = [n \in 0 .. Len(path) |->
             IF n = 0 THEN <<>> ELSE u[n - 1] \o Append(Code(path[n]), Slash)]
  BY <1>6
<1>8. KeyText(path) = u[Len(path)]
  BY DEF KeyText
<1> HIDE DEF u
<1>9. u[0] = <<>> /\ \A n \in 1 .. Len(path) : u[n] = u[n - 1] \o Append(Code(path[n]), Slash)
  BY <1>1, <1>7
<1>10. QED
  BY <1>8, <1>9

(* The code of a segment is a text, and what its slash is put after.       *)
LEMMA Codes ==
  ASSUME NEW m \in Nat
  PROVE  /\ Code(m) \in Seq(Characters) /\ Len(Code(m)) > 0
         /\ Append(Code(m), Slash) \in Seq(Characters)
         /\ Len(Append(Code(m), Slash)) = Len(Code(m)) + 1
         /\ \A k \in 1 .. Len(Code(m)) : Append(Code(m), Slash)[k] = Code(m)[k]
<1>1. Code(m) \in Seq(Characters) /\ Len(Code(m)) > 0
  <2>1. CASE m < Names
    <3>1. /\ m \div 1000 \in Characters
          /\ (m \div 100) % 10 \in Characters
          /\ (m \div 10) % 10 \in Characters
          /\ m % 10 \in Characters
      BY DEF Characters, Slash
    <3>2. QED
      BY <2>1, <3>1 DEF Code, Index
  <2>2. CASE ~(m < Names)
    <3>1. m \in Characters
      BY DEF Characters, Slash
    <3>2. QED
      BY <2>2, <3>1 DEF Code
  <2>3. QED
    BY <2>1, <2>2
<1>2. Slash \in Characters
  BY DEF Characters, Slash
<1>3. QED
  BY <1>1, <1>2, AppendProperties

(* The codes of two segments are in the order of the segments: the four    *)
(* digits of an index keep it in its place (kv.go:266-275).                *)
LEMMA CodeOrder ==
  ASSUME NEW m \in Nat, NEW n \in Nat, m < n
  PROVE  \E i \in DOMAIN Code(m) \cap DOMAIN Code(n) :
           Code(m)[i] < Code(n)[i] /\ \A k \in 1 .. i - 1 : Code(m)[k] = Code(n)[k]
<1>1. CASE n < Names
  <2>1. m < Names
    BY <1>1 DEF Names
  <2>2. Code(m) = Index(m) /\ Code(n) = Index(n)
    BY <1>1, <2>1 DEF Code
  <2> DEFINE h(x) == (x \div 100) % 10
             t(x) == (x \div 10) % 10
             d(x) == x % 10
  <2>3. \A x \in {m, n} : /\ x = 100 * h(x) + 10 * t(x) + d(x) /\ x \div 1000 = 0
                           /\ h(x) \in 0 .. 9 /\ t(x) \in 0 .. 9 /\ d(x) \in 0 .. 9
    <3> TAKE x \in {m, n}
    <3>1. x \in Nat /\ x < 1000
      BY <1>1, <2>1 DEF Names
    <3>2. x \div 1000 = 0 /\ x \div 100 \in 0 .. 9 /\ h(x) = x \div 100
      BY <3>1
    <3>3. x \div 10 \in Nat /\ x = 10 * (x \div 10) + d(x) /\ d(x) \in 0 .. 9
      BY <3>1
    <3>4. x \div 10 = 10 * (x \div 100) + t(x) /\ t(x) \in 0 .. 9
      BY <3>1
    <3>5. PICK a \in Nat, b \in 0 .. 9 : a = x \div 10 /\ b = x \div 100
      BY <3>2, <3>3
    <3> HIDE DEF h, t, d
    <3>6. x = 10 * a + d(x) /\ a = 10 * b + t(x) /\ h(x) = b
      BY <3>2, <3>3, <3>4, <3>5
    <3>7. x = 100 * h(x) + 10 * t(x) + d(x)
      BY <3>1, <3>3, <3>4, <3>5, <3>6
    <3>8. QED
      BY <3>2, <3>3, <3>4, <3>7
  <2>4. /\ Code(m) = <<0, h(m), t(m), d(m)>>
        /\ Code(n) = <<0, h(n), t(n), d(n)>>
    BY <2>2, <2>3 DEF Index
  <2> HIDE DEF h, t, d
  <2>5. h(m) < h(n) \/ (h(m) = h(n) /\ t(m) < t(n)) \/ (h(m) = h(n) /\ t(m) = t(n) /\ d(m) < d(n))
    <3>1. /\ m = 100 * h(m) + 10 * t(m) + d(m)
          /\ h(m) \in 0 .. 9 /\ t(m) \in 0 .. 9 /\ d(m) \in 0 .. 9
      BY <2>3
    <3>2. /\ n = 100 * h(n) + 10 * t(n) + d(n)
          /\ h(n) \in 0 .. 9 /\ t(n) \in 0 .. 9 /\ d(n) \in 0 .. 9
      BY <2>3
    <3>3. QED
      BY <3>1, <3>2, SMTT(30)
  <2>6. DOMAIN Code(m) = 1 .. 4 /\ DOMAIN Code(n) = 1 .. 4
    BY <2>4
  <2>7. /\ Code(m)[1] = 0 /\ Code(m)[2] = h(m) /\ Code(m)[3] = t(m) /\ Code(m)[4] = d(m)
        /\ Code(n)[1] = 0 /\ Code(n)[2] = h(n) /\ Code(n)[3] = t(n) /\ Code(n)[4] = d(n)
    BY <2>4
  <2>8. CASE h(m) < h(n)
    <3>1. \A k \in 1 .. 2 - 1 : k = 1
      OBVIOUS
    <3>2. QED
      BY <2>6, <2>7, <2>8, <3>1
  <2>9. CASE h(m) = h(n) /\ t(m) < t(n)
    <3>1. \A k \in 1 .. 3 - 1 : k = 1 \/ k = 2
      OBVIOUS
    <3>2. QED
      BY <2>6, <2>7, <2>9, <3>1
  <2>10. CASE h(m) = h(n) /\ t(m) = t(n) /\ d(m) < d(n)
    <3>1. \A k \in 1 .. 4 - 1 : k = 1 \/ k = 2 \/ k = 3
      OBVIOUS
    <3>2. QED
      BY <2>6, <2>7, <2>10, <3>1
  <2>11. QED
    BY <2>5, <2>8, <2>9, <2>10
<1>2. CASE ~(n < Names)
  <2>1. Code(n) = <<n>>
    BY <1>2 DEF Code
  <2>2. Code(m)[1] < n /\ 1 \in DOMAIN Code(m)
    BY <1>2 DEF Code, Index, Names
  <2>3. QED
    BY <2>1, <2>2
<1>3. QED
  BY <1>1, <1>2

(* The root has no text.                                                   *)
LEMMA TextOfEmpty == KeyText(<<>>) = <<>>
<1>1. <<>> \in Seq(Nat) /\ Len(<<>>) = 0
  OBVIOUS
<1>2. QED
  BY <1>1, TextLoop

(* The path above another, up to some segment of it.                       *)
LEMMA SubPath ==
  ASSUME NEW path \in Seq(Nat), NEW n \in 0 .. Len(path)
  PROVE  /\ SubSeq(path, 1, n) \in Seq(Nat) /\ Len(SubSeq(path, 1, n)) = n
         /\ \A k \in 1 .. n : SubSeq(path, 1, n)[k] = path[k]
BY Beginning

(* The text of a path is that of the path above it, the code of its last   *)
(* segment and a slash.                                                    *)
LEMMA TextStep ==
  ASSUME NEW path \in Seq(Nat), NEW n \in 1 .. Len(path)
  PROVE  KeyText(SubSeq(path, 1, n)) =
           KeyText(SubSeq(path, 1, n - 1)) \o Append(Code(path[n]), Slash)
<1>1. Len(path) \in Nat /\ n \in 0 .. Len(path) /\ n - 1 \in 0 .. Len(path) /\ n - 1 \in Nat
  BY LenProperties
<1> DEFINE p == SubSeq(path, 1, n)
           q == SubSeq(path, 1, n - 1)
<1>2. p \in Seq(Nat) /\ Len(p) = n /\ \A k \in 1 .. n : p[k] = path[k]
  BY <1>1, SubPath
<1>3. q \in Seq(Nat) /\ Len(q) = n - 1 /\ \A k \in 1 .. n - 1 : q[k] = path[k]
  BY <1>1, SubPath
<1> HIDE DEF p, q
<1>4. PICK t : /\ t[0] = <<>>
               /\ \A k \in 1 .. n : t[k] = t[k - 1] \o Append(Code(p[k]), Slash)
               /\ KeyText(p) = t[n]
  BY <1>2, TextLoop
<1>5. PICK u : /\ u[0] = <<>>
               /\ \A k \in 1 .. n - 1 : u[k] = u[k - 1] \o Append(Code(q[k]), Slash)
               /\ KeyText(q) = u[n - 1]
  BY <1>3, TextLoop
<1> DEFINE T == {k \in 0 .. n - 1 : t[k] = u[k]}
<1>6. 0 \in T
  BY <1>1, <1>4, <1>5
<1>7. ASSUME NEW k \in 1 .. n - 1, k - 1 \in T PROVE k \in T
  <2>1. k \in 1 .. n /\ k \in 0 .. n - 1
    BY <1>1
  <2>2. p[k] = q[k]
    BY <1>2, <1>3, <2>1
  <2>3. t[k] = t[k - 1] \o Append(Code(p[k]), Slash)
    BY <1>4, <2>1
  <2>4. u[k] = u[k - 1] \o Append(Code(q[k]), Slash)
    BY <1>5
  <2>5. QED
    BY <1>7, <2>1, <2>2, <2>3, <2>4
<1>8. \A k \in 1 .. n - 1 : k - 1 \in T => k \in T
  BY <1>7
<1>9. n - 1 \in T
  <2> HIDE DEF T
  <2>1. \A k \in 0 .. n - 1 : k \in T
    BY <1>1, <1>6, <1>8, Upto
  <2>2. QED
    BY <1>1, <2>1
<1>10. n \in 1 .. n /\ p[n] = path[n]
  BY <1>1, <1>2
<1>11. KeyText(p) = KeyText(q) \o Append(Code(path[n]), Slash)
  BY <1>4, <1>5, <1>9, <1>10
<1>12. QED
  BY <1>11 DEF p, q

(* The text of a path is one.                                              *)
LEMMA TextType ==
  ASSUME NEW path \in Seq(Nat)
  PROVE  KeyText(path) \in Seq(Characters)
<1>1. Len(path) \in Nat
  BY LenProperties
<1> DEFINE T == {n \in 0 .. Len(path) : KeyText(SubSeq(path, 1, n)) \in Seq(Characters)}
<1>2. 0 \in T
  <2>1. SubSeq(path, 1, 0) = <<>>
    BY SubSeqEmpty
  <2>2. KeyText(<<>>) \in Seq(Characters)
    BY TextOfEmpty, EmptySeq
  <2>3. KeyText(SubSeq(path, 1, 0)) \in Seq(Characters)
    BY <2>1, <2>2
  <2>4. QED
    BY <1>1, <2>3
<1>3. ASSUME NEW n \in 1 .. Len(path), n - 1 \in T PROVE n \in T
  <2>1. Append(Code(path[n]), Slash) \in Seq(Characters)
    BY Codes, ElementOfSeq
  <2>2. KeyText(SubSeq(path, 1, n - 1)) \in Seq(Characters)
    BY <1>3
  <2>3. KeyText(SubSeq(path, 1, n)) \in Seq(Characters)
    BY <2>1, <2>2, TextStep, ConcatProperties
  <2>4. QED
    BY <1>1, <2>3
<1>4. \A n \in 1 .. Len(path) : n - 1 \in T => n \in T
  BY <1>3
<1>5. Len(path) \in T
  <2> HIDE DEF T
  <2>1. \A n \in 0 .. Len(path) : n \in T
    BY <1>1, <1>2, <1>4, Upto
  <2>2. QED
    BY <1>1, <2>1
<1>6. QED
  BY <1>5, SubSeqFull

(* What begins with what.                                                  *)
Starts(s, t) == Len(t) <= Len(s) /\ \A k \in 1 .. Len(t) : s[k] = t[k]

(* The text of a path begins with that of every path above it.             *)
LEMMA TextStarts ==
  ASSUME NEW path \in Seq(Nat), NEW n \in 0 .. Len(path)
  PROVE  Starts(KeyText(path), KeyText(SubSeq(path, 1, n)))
<1>1. Len(path) \in Nat /\ n \in Nat
  BY LenProperties
<1> DEFINE Above(m) == KeyText(SubSeq(path, 1, m))
           T == {m \in 0 .. Len(path) - n :
                   \A k \in 0 .. Len(path) : k = n + m => Starts(Above(k), Above(n))}
<1>2. \A m \in 0 .. Len(path) : Above(m) \in Seq(Characters) /\ Len(Above(m)) \in Nat
  BY SubPath, TextType, LenProperties
<1>3. 0 \in T
  BY <1>1, <1>2 DEF Starts
<1>4. ASSUME NEW m \in 1 .. Len(path) - n, m - 1 \in T PROVE m \in T
  <2>1. SUFFICES ASSUME NEW k \in 0 .. Len(path), k = n + m PROVE Starts(Above(k), Above(n))
    BY <1>1
  <2>2. k \in 1 .. Len(path) /\ k - 1 \in 0 .. Len(path) /\ k - 1 = n + (m - 1)
    BY <1>1, <2>1
  <2> DEFINE a == Above(k - 1)
             b == Append(Code(path[k]), Slash)
  <2>3. b \in Seq(Characters)
    BY <2>2, Codes, ElementOfSeq
  <2>4. Above(k) = a \o b
    BY <2>2, TextStep
  <2>5. Starts(a, Above(n))
    BY <1>4, <2>2
  <2>6. a \in Seq(Characters) /\ Len(a) \in Nat /\ Len(b) \in Nat /\ Len(Above(n)) \in Nat
    BY <1>1, <1>2, <2>2, <2>3, LenProperties
  <2> HIDE DEF a, b, Above
  <2>7. Starts(a \o b, Above(n))
    BY <2>3, <2>5, <2>6, ConcatProperties DEF Starts
  <2>8. QED
    BY <2>4, <2>7
<1>5. \A m \in 1 .. Len(path) - n : m - 1 \in T => m \in T
  BY <1>4
<1>6. Len(path) - n \in T
  <2> HIDE DEF T
  <2>1. Len(path) - n \in Nat
    BY <1>1
  <2>2. \A m \in 0 .. Len(path) - n : m \in T
    BY <2>1, <1>3, <1>5, Upto
  <2>3. QED
    BY <2>1, <2>2
<1>7. n + (Len(path) - n) = Len(path) /\ Len(path) \in 0 .. Len(path)
  BY <1>1
<1>8. QED
  BY <1>6, <1>7, SubSeqFull

(* Of an entry with this path the key begins with the text of any path     *)
(* above it and the code of the next segment.                              *)
LEMMA KeyStarts ==
  ASSUME NEW e, e.path \in Seq(Nat), NEW n \in 1 .. Len(e.path)
  PROVE  LET text == KeyText(SubSeq(e.path, 1, n - 1))
             code == Code(e.path[n])
         IN  /\ Key(e) \in Seq(Characters)
             /\ Starts(Key(e), text)
             /\ Len(Key(e)) >= Len(text) + Len(code)
             /\ \A k \in 1 .. Len(code) : Key(e)[Len(text) + k] = code[k]
<1> DEFINE path == e.path
           text == KeyText(SubSeq(path, 1, n - 1))
           code == Code(path[n])
           whole == KeyText(path)
<1>1. Len(path) \in Nat /\ n \in Nat /\ n - 1 \in 0 .. Len(path) /\ n \in 0 .. Len(path) /\ path # <<>>
  BY LenProperties
<1>2. text \in Seq(Characters) /\ whole \in Seq(Characters)
  BY <1>1, SubPath, TextType
<1>3. /\ code \in Seq(Characters) /\ Len(code) > 0
      /\ Append(code, Slash) \in Seq(Characters)
      /\ Len(Append(code, Slash)) = Len(code) + 1
      /\ \A k \in 1 .. Len(code) : Append(code, Slash)[k] = code[k]
  BY Codes, ElementOfSeq
<1>4. Starts(whole, text \o Append(code, Slash))
  <2>1. Starts(whole, KeyText(SubSeq(path, 1, n)))
    BY <1>1, TextStarts
  <2>2. KeyText(SubSeq(path, 1, n)) = text \o Append(code, Slash)
    BY TextStep
  <2>3. QED
    BY <2>1, <2>2
<1>5. Key(e) \in {whole, Front(whole)}
  BY DEF Key
<1> HIDE DEF text, code, whole, path
<1>6. Len(text) \in Nat /\ Len(code) \in Nat /\ Len(whole) \in Nat
  BY <1>2, <1>3, LenProperties
<1>7. /\ Len(whole) >= Len(text) + Len(code) + 1
      /\ \A k \in 1 .. Len(text) : whole[k] = text[k]
      /\ \A k \in 1 .. Len(code) : whole[Len(text) + k] = code[k]
  <2> DEFINE end == Append(code, Slash)
             both == text \o end
  <2>0. end \in Seq(Characters) /\ Len(end) = Len(code) + 1
    BY <1>3
  <2> HIDE DEF end
  <2>1. /\ Len(both) = Len(text) + (Len(code) + 1)
        /\ \A i \in 1 .. Len(text) + (Len(code) + 1) :
             both[i] = IF i <= Len(text) THEN text[i] ELSE end[i - Len(text)]
    <3>1. /\ Len(both) = Len(text) + Len(end)
          /\ \A i \in 1 .. Len(text) + Len(end) :
               both[i] = IF i <= Len(text) THEN text[i] ELSE end[i - Len(text)]
      BY <1>2, <2>0, ConcatProperties
    <3>2. QED
      BY <2>0, <3>1
  <2> HIDE DEF both
  <2>2. Len(both) <= Len(whole) /\ \A k \in 1 .. Len(both) : whole[k] = both[k]
    BY <1>4 DEF Starts, both, end
  <2>3. \A k \in 1 .. Len(text) : whole[k] = text[k]
    BY <1>6, <2>1, <2>2
  <2>4. ASSUME NEW k \in 1 .. Len(code) PROVE whole[Len(text) + k] = code[k]
    <3>1. /\ Len(text) + k \in 1 .. Len(both) /\ Len(text) + k \in 1 .. Len(text) + (Len(code) + 1)
          /\ ~(Len(text) + k <= Len(text)) /\ Len(text) + k - Len(text) = k
      BY <1>6, <2>1
    <3>2. PICK m \in 1 .. Len(text) + (Len(code) + 1) : m = Len(text) + k
      BY <3>1
    <3>3. both[m] = end[m - Len(text)]
      BY <2>1, <3>1, <3>2
    <3>4. m - Len(text) = k /\ m \in 1 .. Len(both)
      BY <3>1, <3>2
    <3>5. end[k] = code[k]
      BY <1>3 DEF end
    <3>6. QED
      BY <2>2, <3>2, <3>3, <3>4, <3>5
  <2>5. QED
    BY <1>6, <2>1, <2>2, <2>3, <2>4
<1>8. /\ Key(e) \in Seq(Characters) /\ Len(Key(e)) >= Len(whole) - 1
      /\ \A k \in 1 .. Len(whole) - 1 : Key(e)[k] = whole[k]
  <2>1. CASE Key(e) = whole
    BY <1>2, <1>6, <2>1
  <2>2. CASE Key(e) = Front(whole)
    <3>1. Key(e) = SubSeq(whole, 1, Len(whole) - 1)
      BY <2>2 DEF Front
    <3>2. \A k \in 1 .. Len(whole) - 1 : whole[k] \in Characters
      BY <1>2, <1>6, ElementOfSeq
    <3>3. 1 <= Len(whole) - 1 /\ Len(whole) - 1 \in Int
      BY <1>3, <1>6, <1>7
    <3>4. /\ SubSeq(whole, 1, Len(whole) - 1) \in Seq(Characters)
          /\ Len(SubSeq(whole, 1, Len(whole) - 1)) =
               IF 1 <= Len(whole) - 1 THEN Len(whole) - 1 - 1 + 1 ELSE 0
          /\ \A k \in 1 .. Len(whole) - 1 - 1 + 1 :
               SubSeq(whole, 1, Len(whole) - 1)[k] = whole[1 + k - 1]
      BY <3>2, <3>3, SubSeqProperties
    <3>5. QED
      BY <1>6, <3>1, <3>3, <3>4
  <2>3. QED
    BY <1>5, <2>1, <2>2
<1>9. Len(Key(e)) \in Nat
  BY <1>8, LenProperties
<1>10. Starts(Key(e), text)
  BY <1>6, <1>7, <1>8, <1>9 DEF Starts
<1>11. Len(Key(e)) >= Len(text) + Len(code)
  BY <1>6, <1>7, <1>8, <1>9
<1>12. \A k \in 1 .. Len(code) : Key(e)[Len(text) + k] = code[k]
  BY <1>6, <1>7, <1>8
<1>13. QED
  BY <1>8, <1>10, <1>11, <1>12 DEF text, code, path

(* Keys that begin with the same text and then with codes that differ.     *)
Continues(key, text, code) ==
  /\ Len(key) >= Len(text) + Len(code)
  /\ \A k \in 1 .. Len(text) : key[k] = text[k]
  /\ \A k \in 1 .. Len(code) : key[Len(text) + k] = code[k]

(* Such keys are in the order of the codes, whatever comes after them.     *)
LEMMA TextsDiffer ==
  ASSUME NEW s \in Seq(Characters), NEW t \in Seq(Characters), NEW text \in Seq(Characters),
         NEW a \in Seq(Characters), NEW b \in Seq(Characters),
         Continues(s, text, a), Continues(t, text, b),
         NEW j \in 1 .. Len(a), j \in 1 .. Len(b),
         a[j] < b[j], \A k \in 1 .. j - 1 : a[k] = b[k]
  PROVE  \E n \in 1 .. Len(t) : DifferAt(s, t, n)
<1>1. /\ Len(s) \in Nat /\ Len(t) \in Nat /\ Len(text) \in Nat /\ Len(a) \in Nat /\ Len(b) \in Nat
      /\ j \in Nat /\ j >= 1 /\ j <= Len(a) /\ j <= Len(b)
      /\ Len(s) >= Len(text) + Len(a) /\ Len(t) >= Len(text) + Len(b)
  BY LenProperties DEF Continues
<1>2. PICK n \in Nat : n = Len(text) + j
  BY <1>1
<1>3. n >= 1 /\ n <= Len(s) /\ n <= Len(t) /\ n \in 1 .. Len(t)
  BY <1>1, <1>2
<1>4. s[n] = a[j] /\ t[n] = b[j]
  BY <1>2 DEF Continues
<1>5. ASSUME NEW k \in 1 .. n - 1 PROVE s[k] = t[k] /\ k <= Len(s) /\ k <= Len(t)
  <2>1. k <= Len(s) /\ k <= Len(t)
    BY <1>1, <1>3
  <2>2. CASE k <= Len(text)
    <3>1. k \in 1 .. Len(text)
      BY <1>1, <1>2, <2>2
    <3>2. QED
      BY <2>1, <3>1 DEF Continues
  <2>3. CASE ~(k <= Len(text))
    <3>1. PICK m \in Int : m = k - Len(text)
      <4>1. k - Len(text) \in Int
        BY <1>1
      <4>2. QED
        BY <4>1
    <3>2. k = Len(text) + m /\ m \in 1 .. j - 1 /\ m \in 1 .. Len(a) /\ m \in 1 .. Len(b)
      BY <1>1, <1>2, <2>3, <3>1
    <3>3. s[Len(text) + m] = a[m] /\ t[Len(text) + m] = b[m] /\ a[m] = b[m]
      BY <1>1, <3>2 DEF Continues
    <3>4. QED
      BY <2>1, <3>2, <3>3
  <2>4. QED
    BY <2>2, <2>3
<1>6. DifferAt(s, t, n)
  BY <1>3, <1>4, <1>5 DEF DifferAt, At
<1>7. QED
  BY <1>3, <1>6

(* The keys of two entries are in the order of their paths, if those above *)
(* others end in a slash.                                                  *)
LEMMA KeyOrder ==
  ASSUME NEW d, d.path \in Seq(Nat), NEW e, e.path \in Seq(Nat),
         Before(d.path, e.path), Starts(e.path, d.path) => d.dir
  PROVE  Key(d) \in Seq(Characters) /\ Key(e) \in Seq(Characters) /\ Before(Key(d), Key(e))
<1> DEFINE p == d.path
           q == e.path
<1>1. p \in Seq(Nat) /\ q \in Seq(Nat)
  OBVIOUS
<1>2. p \in Seq(Characters) /\ q \in Seq(Characters)
  <2>1. Nat \subseteq Characters
    BY DEF Characters, Slash
  <2>2. QED
    BY <1>1, <2>1, SeqMonotonic
<1>3. PICK i \in 1 .. Len(q) : DifferAt(p, q, i)
  BY <1>2, BeforeDiffers
<1>4. Len(p) \in Nat /\ Len(q) \in Nat /\ i \in Nat /\ i - 1 \in 0 .. Len(q)
  BY <1>1, LenProperties
<1>5. i - 1 <= Len(p) /\ \A k \in 1 .. i - 1 : p[k] = q[k]
  <2>1. \A k \in 1 .. i - 1 : At(p, k) = At(q, k) /\ k <= Len(q)
    BY <1>3, <1>4 DEF DifferAt
  <2>2. \A k \in 1 .. i - 1 : k <= Len(p)
    <3>1. \A k \in Nat \ {0} : (At(p, k) >= Slash <=> k <= Len(p)) /\ (At(q, k) >= Slash <=> k <= Len(q))
      BY <1>2, AtIsInt
    <3>2. QED
      BY <1>4, <2>1, <3>1
  <2>3. QED
    BY <1>4, <2>1, <2>2 DEF At
<1>6. i - 1 \in 0 .. Len(p)
  BY <1>4, <1>5
<1>7. SubSeq(p, 1, i - 1) = SubSeq(q, 1, i - 1)
  <2> DEFINE a == SubSeq(p, 1, i - 1)
             b == SubSeq(q, 1, i - 1)
  <2>1. a \in Seq(Nat) /\ Len(a) = i - 1 /\ \A k \in 1 .. i - 1 : a[k] = p[k]
    BY <1>1, <1>6, SubPath
  <2>2. b \in Seq(Nat) /\ Len(b) = i - 1 /\ \A k \in 1 .. i - 1 : b[k] = q[k]
    BY <1>1, <1>4, SubPath
  <2> HIDE DEF a, b
  <2>3. a = b
    BY <1>5, <2>1, <2>2, SeqEqual
  <2>4. QED
    BY <2>3 DEF a, b
<1> DEFINE text == KeyText(SubSeq(q, 1, i - 1))
<1>8. text \in Seq(Characters) /\ Len(text) \in Nat
  BY <1>1, <1>4, SubPath, TextType, LenProperties
<1>9. /\ Key(e) \in Seq(Characters)
      /\ Starts(Key(e), text)
      /\ Len(Key(e)) >= Len(text) + Len(Code(q[i]))
      /\ \A k \in 1 .. Len(Code(q[i])) : Key(e)[Len(text) + k] = Code(q[i])[k]
  BY KeyStarts
<1>10. q[i] \in Nat /\ Code(q[i]) \in Seq(Characters) /\ Len(Code(q[i])) > 0
  BY <1>1, ElementOfSeq, Codes
<1>11. Len(Key(e)) \in Nat /\ Len(Code(q[i])) \in Nat /\ DOMAIN Key(e) = 1 .. Len(Key(e))
  BY <1>9, <1>10, LenProperties
<1>12. CASE i > Len(p)
  <2>1. Len(p) = i - 1
    BY <1>4, <1>5, <1>12
  <2>2. Starts(q, p) /\ SubSeq(p, 1, i - 1) = p
    BY <1>1, <1>4, <1>5, <2>1, SubSeqFull DEF Starts
  <2>3. Key(d) = text
    BY <1>7, <2>2 DEF Key
  <2>4. Len(text) < Len(Key(e)) /\ \A k \in 1 .. Len(text) : Key(e)[k] = text[k]
    <3>1. Len(Key(e)) >= Len(text) + Len(Code(q[i])) /\ Len(Code(q[i])) > 0
      BY <1>9, <1>10
    <3> HIDE DEF text
    <3>2. Len(text) < Len(Key(e))
      BY <1>8, <1>11, <3>1
    <3>3. Starts(Key(e), text)
      BY <1>9 DEF text
    <3>4. QED
      BY <3>2, <3>3 DEF Starts
  <2> HIDE DEF text
  <2>5. \A k \in 1 .. Len(text) : At(text, k) = At(Key(e), k)
    BY <1>8, <1>11, <2>4 DEF At
  <2>6. Len(text) + 1 \in 1 .. Len(Key(e)) /\ Len(text) + 1 \in Nat \ {0}
    BY <1>8, <1>11, <2>4
  <2>7. At(text, Len(text) + 1) < At(Key(e), Len(text) + 1)
    BY <1>8, <1>9, <2>4, <2>6, AtIsInt DEF At, Slash
  <2>8. DifferAt(text, Key(e), Len(text) + 1)
    BY <1>8, <2>5, <2>7 DEF DifferAt
  <2>9. Before(text, Key(e))
    BY <1>8, <1>9, <2>6, <2>8, BeforeDiffers
  <2>10. QED
    BY <1>8, <1>9, <2>3, <2>9
<1>13. CASE i <= Len(p)
  <2>1. i \in 1 .. Len(p)
    BY <1>4, <1>13
  <2>2. /\ Key(d) \in Seq(Characters)
        /\ Starts(Key(d), text)
        /\ Len(Key(d)) >= Len(text) + Len(Code(p[i]))
        /\ \A k \in 1 .. Len(Code(p[i])) : Key(d)[Len(text) + k] = Code(p[i])[k]
    <3>1. /\ Key(d) \in Seq(Characters)
          /\ Starts(Key(d), KeyText(SubSeq(p, 1, i - 1)))
          /\ Len(Key(d)) >= Len(KeyText(SubSeq(p, 1, i - 1))) + Len(Code(p[i]))
          /\ \A k \in 1 .. Len(Code(p[i])) :
               Key(d)[Len(KeyText(SubSeq(p, 1, i - 1))) + k] = Code(p[i])[k]
      BY <2>1, KeyStarts
    <3>2. QED
      BY <1>7, <3>1
  <2>3. p[i] \in Nat /\ Code(p[i]) \in Seq(Characters)
    BY <1>1, <2>1, ElementOfSeq, Codes
  <2>4. Len(Key(d)) \in Nat /\ Len(Code(p[i])) \in Nat
    BY <2>2, <2>3, LenProperties
  <2>5. p[i] < q[i]
    BY <1>3, <1>4, <1>13 DEF DifferAt, At
  <2>6. PICK j \in DOMAIN Code(p[i]) \cap DOMAIN Code(q[i]) :
               /\ Code(p[i])[j] < Code(q[i])[j]
               /\ \A k \in 1 .. j - 1 : Code(p[i])[k] = Code(q[i])[k]
    BY <1>10, <2>3, <2>5, CodeOrder
  <2>7. j \in 1 .. Len(Code(p[i])) /\ j \in 1 .. Len(Code(q[i]))
    BY <1>10, <2>3, <2>6, LenProperties
  <2>8. Continues(Key(d), text, Code(p[i])) /\ Continues(Key(e), text, Code(q[i]))
    BY <1>8, <1>9, <2>2 DEF Continues, Starts
  <2> DEFINE kd == Key(d)
             ke == Key(e)
             cd == Code(p[i])
             ce == Code(q[i])
  <2>9. /\ kd \in Seq(Characters) /\ ke \in Seq(Characters) /\ text \in Seq(Characters)
        /\ cd \in Seq(Characters) /\ ce \in Seq(Characters)
        /\ Continues(kd, text, cd) /\ Continues(ke, text, ce)
    BY <1>8, <1>9, <1>10, <2>2, <2>3, <2>8
  <2>10. /\ j \in 1 .. Len(cd) /\ j \in 1 .. Len(ce)
         /\ cd[j] < ce[j] /\ \A k \in 1 .. j - 1 : cd[k] = ce[k]
    BY <2>6, <2>7
  <2>11. \E n \in 1 .. Len(ke) : DifferAt(kd, ke, n)
    <3> HIDE DEF kd, ke, cd, ce, text
    <3>1. QED
      BY <2>9, <2>10, TextsDiffer
  <2>12. QED
    BY <2>9, <2>11, BeforeDiffers
<1>14. QED
  BY <1>4, <1>12, <1>13

(* The entries of a set whose keys are distinct, in their order.           *)
LEMMA ListedInOrder ==
  ASSUME NEW E, IsFiniteSet(E), \A e \in E : Key(e) \in Seq(Characters),
         \A d, e \in E : Key(d) = Key(e) => d = e
  PROVE  /\ Listed(E) \in Seq(E) /\ Range(Listed(E)) = E
         /\ \A i, j \in DOMAIN Listed(E) : i < j => Before(Key(Listed(E)[i]), Key(Listed(E)[j]))
<1> DEFINE text == [e \in E |-> Key(e)]
           Lower(e) == {d \in E : Before(text[d], text[e])}
           place == [e \in E |-> Cardinality(Lower(e)) + 1]
           N == Cardinality(E)
           list == [i \in 1 .. N |-> CHOOSE e \in E : place[e] = i]
<1>1. Listed(E) = list
  BY DEF Listed
<1>2. \A e \in E : text[e] = Key(e)
  OBVIOUS
<1>3. N \in Nat
  BY FS_CardinalityType
<1>4. ASSUME NEW d \in E, NEW e \in E
      PROVE  /\ ~(Before(text[d], text[e]) /\ Before(text[e], text[d]))
             /\ d = e \/ Before(text[d], text[e]) \/ Before(text[e], text[d])
             /\ \A f \in E : Before(text[d], text[e]) /\ Before(text[e], text[f])
                              => Before(text[d], text[f])
  BY BeforeOrders
<1> HIDE DEF text
<1>5. ASSUME NEW e \in E
      PROVE  IsFiniteSet(Lower(e)) /\ Cardinality(Lower(e)) \in Nat /\ Cardinality(Lower(e)) < N
  <2>1. Lower(e) \in SUBSET E /\ e \notin Lower(e)
    BY <1>4
  <2>2. Lower(e) # E
    BY <2>1
  <2> HIDE DEF Lower
  <2>3. QED
    BY <1>3, <2>1, <2>2, FS_Subset, FS_CardinalityType
<1>6. ASSUME NEW d \in E, NEW e \in E, Before(text[d], text[e])
      PROVE  Cardinality(Lower(d)) < Cardinality(Lower(e))
  <2>1. Lower(d) \in SUBSET Lower(e) /\ d \in Lower(e) /\ d \notin Lower(d)
    BY <1>4, <1>6
  <2>2. Lower(d) # Lower(e)
    BY <2>1
  <2> HIDE DEF Lower
  <2>3. QED
    BY <1>5, <2>1, <2>2, FS_Subset
<1> HIDE DEF Lower
<1>7. \A e \in E : place[e] = Cardinality(Lower(e)) + 1 /\ place[e] \in 1 .. N
  BY <1>3, <1>5
<1>8. \A d, e \in E : Before(text[d], text[e]) => place[d] < place[e]
  BY <1>5, <1>6, <1>7
<1>9. place \in [E -> 1 .. N]
  BY <1>7
<1> HIDE DEF place
<1>10. \A d, e \in E : place[d] = place[e] => d = e
  <2> TAKE d, e \in E
  <2>1. place[d] \in Int /\ place[e] \in Int
    BY <1>9
  <2>2. d = e \/ place[d] < place[e] \/ place[e] < place[d]
    BY <1>4, <1>8
  <2>3. QED
    BY <2>1, <2>2
<1>11. \A i \in 1 .. N : \E e \in E : place[e] = i
  <2>1. place \in Injection(E, 1 .. N)
    BY <1>9, <1>10 DEF Injection, IsInjective
  <2>2. IsFiniteSet(1 .. N) /\ Cardinality(1 .. N) = N
    BY <1>3, FS_Interval
  <2>3. place \in Surjection(E, 1 .. N)
    BY <2>1, <2>2, FS_Injection
  <2>4. QED
    BY <2>3 DEF Surjection
<1>12. \A i \in 1 .. N : list[i] \in E /\ place[list[i]] = i
  BY <1>11
<1>13. DOMAIN list = 1 .. N
  OBVIOUS
<1>14. list \in Seq(E)
  BY <1>3, <1>12
<1> HIDE DEF list
<1>15. Range(list) = E
  <2>1. \A i \in DOMAIN list : list[i] \in E
    BY <1>12, <1>13
  <2>2. ASSUME NEW e \in E PROVE \E i \in DOMAIN list : list[i] = e
    <3>1. place[e] \in 1 .. N
      BY <1>9
    <3>2. list[place[e]] = e
      BY <1>10, <1>12, <3>1
    <3>3. QED
      BY <1>13, <3>1, <3>2
  <2>3. QED
    BY <2>1, <2>2 DEF Range
<1>16. ASSUME NEW i \in 1 .. N, NEW j \in 1 .. N, i < j
       PROVE  Before(Key(list[i]), Key(list[j]))
  <2>1. list[i] \in E /\ list[j] \in E /\ place[list[i]] = i /\ place[list[j]] = j
    BY <1>12
  <2>2. list[i] # list[j] /\ ~(place[list[j]] < place[list[i]])
    BY <1>3, <1>16, <2>1
  <2>3. Before(text[list[i]], text[list[j]])
    BY <1>4, <1>8, <2>1, <2>2
  <2>4. QED
    BY <1>2, <2>1, <2>3
<1>17. QED
  BY <1>1, <1>13, <1>14, <1>15, <1>16

(* A tree as PutMap and ListMap expect one: its nodes are maps, lists and  *)
(* scalars with a flag of their own, every node but the root is in a map   *)
(* or a list, and the elements of lists are maps, one after the other.     *)
Flagged(kind) == kind \in {"string", "int32", "int", "bool"}

WellFormed(tree) ==
  /\ tree = [p \in DOMAIN tree |-> tree[p]]
  /\ IsFiniteSet(DOMAIN tree) /\ DOMAIN tree \subseteq Seq(Nat)
  /\ <<>> \in DOMAIN tree /\ tree[<<>>] = Map
  /\ \A p \in DOMAIN tree :
       \/ tree[p] \in {Map, List}
       \/ \E kind, value : Flagged(kind) /\ tree[p] = Scalar(kind, value)
  /\ \A p \in DOMAIN tree \ {<<>>} :
       /\ Front(p) \in DOMAIN tree /\ tree[Front(p)] \in {Map, List}
       /\ tree[Front(p)] = List =>
            /\ tree[p] = Map /\ Last(p) < Names
            /\ \A n \in 0 .. Last(p) - 1 : Append(Front(p), n) \in DOMAIN tree

(* Paths: the one above another, and those at its side.                    *)
LEMMA Fronts ==
  ASSUME NEW p \in Seq(Nat), p # <<>>
  PROVE  /\ Len(p) \in Nat /\ Len(p) > 0
         /\ Front(p) \in Seq(Nat) /\ Len(Front(p)) = Len(p) - 1
         /\ \A k \in 1 .. Len(p) - 1 : Front(p)[k] = p[k]
         /\ Last(p) = p[Len(p)] /\ Last(p) \in Nat
<1>1. Len(p) \in Nat /\ Len(p) > 0
  BY EmptySeq, LenProperties
<1>2. Len(p) - 1 \in 0 .. Len(p) /\ Len(p) \in 1 .. Len(p)
  BY <1>1
<1>3. Front(p) = SubSeq(p, 1, Len(p) - 1) /\ Last(p) = p[Len(p)]
  BY DEF Front, Last
<1>4. Last(p) \in Nat
  BY <1>2, <1>3, ElementOfSeq
<1>5. PICK n \in 0 .. Len(p) : n = Len(p) - 1
  BY <1>2
<1>6. /\ SubSeq(p, 1, n) \in Seq(Nat) /\ Len(SubSeq(p, 1, n)) = n
      /\ \A k \in 1 .. n : SubSeq(p, 1, n)[k] = p[k]
  BY SubPath
<1>7. QED
  BY <1>1, <1>3, <1>4, <1>5, <1>6

(* What is above the part of a path up to some segment, and its last       *)
(* one.                                                                    *)
LEMMA Parts ==
  ASSUME NEW q \in Seq(Nat), NEW n \in 1 .. Len(q)
  PROVE  /\ SubSeq(q, 1, n) # <<>>
         /\ Front(SubSeq(q, 1, n)) = SubSeq(q, 1, n - 1)
         /\ Last(SubSeq(q, 1, n)) = q[n]
<1>1. Len(q) \in Nat /\ n \in Nat /\ n > 0 /\ n \in 0 .. Len(q) /\ n - 1 \in 0 .. Len(q) /\ n \in 1 .. n
  BY LenProperties
<1> DEFINE a == SubSeq(q, 1, n)
           b == SubSeq(q, 1, n - 1)
<1>2. a \in Seq(Nat) /\ Len(a) = n /\ \A k \in 1 .. n : a[k] = q[k]
  BY <1>1, SubPath
<1>3. b \in Seq(Nat) /\ Len(b) = n - 1 /\ \A k \in 1 .. n - 1 : b[k] = q[k]
  BY <1>1, SubPath
<1> HIDE DEF a, b
<1>4. a # <<>>
  BY <1>1, <1>2, EmptySeq
<1>5. /\ Front(a) \in Seq(Nat) /\ Len(Front(a)) = Len(a) - 1
      /\ \A k \in 1 .. Len(a) - 1 : Front(a)[k] = a[k]
      /\ Last(a) = a[Len(a)]
  BY <1>2, <1>4, Fronts
<1>6. \A k \in 1 .. n - 1 : k \in 1 .. n
  BY <1>1
<1>7. Len(Front(a)) = Len(b) /\ \A k \in 1 .. Len(b) : Front(a)[k] = b[k]
  BY <1>2, <1>3, <1>5, <1>6
<1>8. Front(a) = b
  BY <1>3, <1>5, <1>7, SeqEqual
<1>9. Last(a) = q[n]
  BY <1>1, <1>2, <1>5
<1>10. QED
  BY <1>4, <1>8, <1>9 DEF a, b

(* Paths that are side by side differ in their last segment.               *)
LEMMA SameFront ==
  ASSUME NEW p \in Seq(Nat), NEW q \in Seq(Nat), p # <<>>, q # <<>>,
         Front(p) = Front(q), Last(p) = Last(q)
  PROVE  p = q
<1>1. /\ Len(p) \in Nat /\ Len(p) > 0 /\ Len(Front(p)) = Len(p) - 1
      /\ \A k \in 1 .. Len(p) - 1 : Front(p)[k] = p[k]
      /\ Last(p) = p[Len(p)]
  BY Fronts
<1>2. /\ Len(q) \in Nat /\ Len(q) > 0 /\ Len(Front(q)) = Len(q) - 1
      /\ \A k \in 1 .. Len(q) - 1 : Front(q)[k] = q[k]
      /\ Last(q) = q[Len(q)]
  BY Fronts
<1>3. Len(p) = Len(q)
  BY <1>1, <1>2
<1>4. \A k \in 1 .. Len(p) : k = Len(p) \/ k \in 1 .. Len(p) - 1
  BY <1>1
<1>5. \A k \in 1 .. Len(p) : p[k] = q[k]
  BY <1>1, <1>2, <1>3, <1>4
<1>6. QED
  BY <1>3, <1>5, SeqEqual

(* An element of a list is below the list.                                 *)
LEMMA Element ==
  ASSUME NEW p \in Seq(Nat), NEW n \in Nat
  PROVE  /\ Append(p, n) \in Seq(Nat) /\ Append(p, n) # <<>>
         /\ Front(Append(p, n)) = p /\ Last(Append(p, n)) = n
<1> DEFINE q == Append(p, n)
<1>1. /\ Len(p) \in Nat
      /\ q \in Seq(Nat) /\ q # <<>> /\ Len(q) = Len(p) + 1
      /\ \A k \in 1 .. Len(p) : q[k] = p[k]
      /\ q[Len(p) + 1] = n
  BY AppendProperties, LenProperties
<1> HIDE DEF q
<1>2. /\ Front(q) \in Seq(Nat) /\ Len(Front(q)) = Len(q) - 1
      /\ \A k \in 1 .. Len(q) - 1 : Front(q)[k] = q[k]
      /\ Last(q) = q[Len(q)]
  BY <1>1, Fronts
<1>3. Len(Front(q)) = Len(p) /\ \A k \in 1 .. Len(p) : Front(q)[k] = p[k]
  BY <1>1, <1>2
<1>4. Front(q) = p
  BY <1>2, <1>3, SeqEqual
<1>5. Last(q) = n
  BY <1>1, <1>2
<1>6. QED
  BY <1>1, <1>4, <1>5 DEF q

(* Every path above another is the part of it up to some segment.          *)
LEMMA StartsAbove ==
  ASSUME NEW p \in Seq(Nat), NEW q \in Seq(Nat), Starts(q, p)
  PROVE  Len(p) \in 0 .. Len(q) /\ p = SubSeq(q, 1, Len(p)) /\ (Len(p) = Len(q) => p = q)
<1>1. Len(p) \in Nat /\ Len(q) \in Nat /\ Len(p) <= Len(q) /\ \A k \in 1 .. Len(p) : q[k] = p[k]
  BY LenProperties DEF Starts
<1>2. Len(p) \in 0 .. Len(q)
  BY <1>1
<1>3. /\ SubSeq(q, 1, Len(p)) \in Seq(Nat) /\ Len(SubSeq(q, 1, Len(p))) = Len(p)
      /\ \A k \in 1 .. Len(p) : SubSeq(q, 1, Len(p))[k] = q[k]
  BY <1>2, SubPath
<1>4. p = SubSeq(q, 1, Len(p))
  BY <1>1, <1>3, SeqEqual
<1>5. QED
  BY <1>2, <1>4, SubSeqFull

(* A path begins with every path above it.                                 *)
LEMMA AboveStarts ==
  ASSUME NEW q \in Seq(Nat), NEW n \in 0 .. Len(q)
  PROVE  Starts(q, SubSeq(q, 1, n))
<1>1. Len(q) \in Nat
  BY LenProperties
<1>2. QED
  BY <1>1, SubPath DEF Starts

(* Paths are compared as texts are.                                        *)
LEMMA PathsAreTexts == \A p \in Seq(Nat) : p \in Seq(Characters) /\ Len(p) \in Nat
<1>1. Nat \subseteq Characters
  BY DEF Characters, Slash
<1>2. QED
  BY <1>1, SeqMonotonic, LenProperties

(* A path is after those above it,                                         *)
LEMMA AboveIsBefore ==
  ASSUME NEW p \in Seq(Nat), NEW q \in Seq(Nat), Starts(q, p), p # q
  PROVE  Before(p, q)
<1>1. Len(p) < Len(q)
  BY StartsAbove, PathsAreTexts
<1>2. QED
  BY <1>1, StartsAbove DEF Before

(* and the paths below one segment are before those below the next.        *)
LEMMA SideIsBefore ==
  ASSUME NEW p \in Seq(Nat), NEW q \in Seq(Nat), p # <<>>, q # <<>>,
         Front(p) = Front(q), Last(p) < Last(q),
         NEW d \in Seq(Nat), NEW e \in Seq(Nat), Starts(d, p), Starts(e, q)
  PROVE  Before(d, e)
<1>1. /\ Len(p) \in Nat /\ Len(p) > 0 /\ Len(Front(p)) = Len(p) - 1
      /\ \A k \in 1 .. Len(p) - 1 : Front(p)[k] = p[k]
      /\ Last(p) = p[Len(p)]
  BY Fronts
<1>2. /\ Len(q) \in Nat /\ Len(q) > 0 /\ Len(Front(q)) = Len(q) - 1
      /\ \A k \in 1 .. Len(q) - 1 : Front(q)[k] = q[k]
      /\ Last(q) = q[Len(q)]
  BY Fronts
<1>3. Len(p) = Len(q) /\ Len(d) \in Nat /\ Len(e) \in Nat
  BY <1>1, <1>2, LenProperties
<1> DEFINE i == Len(p)
<1>4. /\ i \in Nat /\ i >= 1 /\ i <= Len(d) /\ i <= Len(e)
      /\ \A k \in 1 .. i : d[k] = p[k] /\ e[k] = q[k]
  <2>1. i \in Nat /\ i >= 1
    BY <1>1
  <2>2. i <= Len(d) /\ \A k \in 1 .. i : d[k] = p[k]
    BY DEF Starts
  <2>3. Len(q) <= Len(e) /\ \A k \in 1 .. Len(q) : e[k] = q[k]
    BY DEF Starts
  <2>4. Len(q) = i
    BY <1>3
  <2> HIDE DEF i
  <2>5. QED
    BY <2>1, <2>2, <2>3, <2>4
<1>5. d[i] < e[i]
  <2>1. d[i] = p[i] /\ e[i] = q[i]
    BY <1>4
  <2>2. QED
    BY <1>1, <1>2, <1>3, <2>1
<1>6. \A k \in 1 .. i - 1 : d[k] = e[k]
  <2> TAKE k \in 1 .. i - 1
  <2>1. k \in 1 .. i /\ k \in 1 .. Len(p) - 1 /\ k \in 1 .. Len(q) - 1
    BY <1>3, <1>4
  <2>2. QED
    BY <1>1, <1>2, <1>4, <2>1
<1> HIDE DEF i
<1>7. DifferAt(d, e, i) /\ i \in 1 .. Len(e)
  BY <1>3, <1>4, <1>5, <1>6 DEF DifferAt, At
<1>8. QED
  BY <1>7, PathsAreTexts, BeforeDiffers

(* What is above a node of a tree is a map or a list.                      *)
LEMMA AboveIsInTree ==
  ASSUME NEW tree, WellFormed(tree), NEW q \in DOMAIN tree, NEW p \in Seq(Nat), Starts(q, p)
  PROVE  p \in DOMAIN tree /\ (p # q => tree[p] \in {Map, List})
<1>1. q \in Seq(Nat) /\ Len(q) \in Nat
  BY LenProperties DEF WellFormed
<1> DEFINE Part(n) == SubSeq(q, 1, n)
           T == {m \in 0 .. Len(q) : \A n \in 0 .. Len(q) : n = Len(q) - m =>
                   Part(n) \in DOMAIN tree /\ (n # Len(q) => tree[Part(n)] \in {Map, List})}
<1>2. 0 \in T
  <2>1. SUFFICES ASSUME NEW n \in 0 .. Len(q), n = Len(q) - 0
                 PROVE  Part(n) \in DOMAIN tree /\ n = Len(q)
    BY <1>1
  <2>2. n = Len(q)
    BY <1>1, <2>1
  <2>3. QED
    BY <1>1, <2>2, SubSeqFull
<1>3. ASSUME NEW m \in 1 .. Len(q), m - 1 \in T PROVE m \in T
  <2>1. SUFFICES ASSUME NEW n \in 0 .. Len(q), n = Len(q) - m
                 PROVE  Part(n) \in DOMAIN tree /\ tree[Part(n)] \in {Map, List}
    BY <1>1
  <2>2. PICK k \in 1 .. Len(q) : k = n + 1
    <3>1. n + 1 \in 1 .. Len(q)
      BY <1>1, <2>1
    <3>2. QED
      BY <3>1
  <2>3. k \in 0 .. Len(q) /\ k = Len(q) - (m - 1) /\ k - 1 = n
    BY <1>1, <2>1, <2>2
  <2>4. Part(k) \in DOMAIN tree
    BY <1>3, <2>3
  <2>5. Part(k) # <<>> /\ Front(Part(k)) = Part(k - 1)
    BY <1>1, Parts
  <2>6. QED
    BY <2>3, <2>4, <2>5 DEF WellFormed
<1>4. \A m \in 1 .. Len(q) : m - 1 \in T => m \in T
  BY <1>3
<1>5. Len(p) \in 0 .. Len(q) /\ p = Part(Len(p)) /\ (Len(p) = Len(q) => p = q)
  BY <1>1, StartsAbove
<1>6. Len(q) - Len(p) \in T
  <2> HIDE DEF T
  <2>1. \A m \in 0 .. Len(q) : m \in T
    BY <1>1, <1>2, <1>4, Upto
  <2>2. Len(q) - Len(p) \in 0 .. Len(q)
    BY <1>1, <1>5
  <2>3. QED
    BY <2>1, <2>2
<1>7. Len(p) = Len(q) - (Len(q) - Len(p))
  BY <1>1, <1>5
<1>8. QED
  BY <1>5, <1>6, <1>7

(* What PutMap makes of a node.                                            *)
Stands(tree, e) ==
  /\ e.path \in DOMAIN tree
  /\ \/ \E kind, value : /\ tree[e.path] = Scalar(kind, value) /\ Flagged(kind)
                          /\ e = Entry(e.path, FALSE, kind, value)
     \/ tree[e.path] = List /\ e = Entry(e.path, TRUE, "slice", "")
     \/ tree[e.path] = Map /\ Children(tree, e.path) = {} /\ e = Entry(e.path, TRUE, "string", "")

(* The kinds and the values of nodes, which differ.                        *)
LEMMA Nodes ==
  /\ Map.kind = "map" /\ List.kind = "list" /\ Map # List
  /\ \A kind, value : Scalar(kind, value).kind = kind /\ Scalar(kind, value).value = value
  /\ \A kind, value : Flagged(kind) => /\ Scalar(kind, value) # Map /\ Scalar(kind, value) # List
                                      /\ kind # "map" /\ kind # "list"
<1>1. Map.kind = "map" /\ List.kind = "list"
  BY DEF Map, List
<1>2. ASSUME NEW kind, NEW value
      PROVE  Scalar(kind, value).kind = kind /\ Scalar(kind, value).value = value
  BY DEF Scalar
<1>3. ASSUME NEW kind, Flagged(kind) PROVE kind # "map" /\ kind # "list"
  BY <1>3 DEF Flagged
<1>4. "map" # "list"
  OBVIOUS
<1>5. QED
  BY <1>1, <1>2, <1>3, <1>4

(* Only the keys of scalars do not end in a slash.                         *)
LEMMA EntryDirs ==
  ASSUME NEW path, NEW flag, NEW value
  PROVE  Entry(path, TRUE, flag, value).dir /\ ~Entry(path, FALSE, flag, value).dir
BY DEF Entry

(* The kind of a node says what it is.                                     *)
LEMMA Kinds ==
  ASSUME NEW tree, WellFormed(tree), NEW p \in DOMAIN tree
  PROVE  /\ tree[p].kind = "list" => tree[p] = List
         /\ tree[p].kind = "map" => tree[p] = Map
         /\ ~IsScalar(tree[p]) <=> tree[p] \in {Map, List}
         /\ IsScalar(tree[p]) => \E kind, value : tree[p] = Scalar(kind, value) /\ Flagged(kind)
<1>1. CASE tree[p] = Map
  BY <1>1, Nodes DEF IsScalar
<1>2. CASE tree[p] = List
  BY <1>2, Nodes DEF IsScalar
<1>3. CASE \E kind, value : Flagged(kind) /\ tree[p] = Scalar(kind, value)
  <2>1. PICK kind, value : Flagged(kind) /\ tree[p] = Scalar(kind, value)
    BY <1>3
  <2>2. tree[p].kind = kind
    BY <2>1, Nodes
  <2>3. kind # "list" /\ kind # "map"
    BY <2>1, Nodes
  <2>4. tree[p] # Map /\ tree[p] # List
    BY <2>1, Nodes
  <2>5. QED
    BY <2>1, <2>2, <2>3, <2>4 DEF IsScalar
<1>4. QED
  BY <1>1, <1>2, <1>3 DEF WellFormed

(* Every entry stands for a node, and every list, scalar and empty map     *)
(* has one.                                                                *)
LEMMA Entries ==
  ASSUME NEW tree, WellFormed(tree)
  PROVE  /\ \A e \in PutMap(tree) : Stands(tree, e)
         /\ \A p \in DOMAIN tree : tree[p] = List \/ Children(tree, p) = {} =>
              \E e \in PutMap(tree) : e.path = p
<1>1. ASSUME NEW e \in PutMap(tree) PROVE Stands(tree, e)
  <2>1. CASE \E p \in {q \in DOMAIN tree : IsScalar(tree[q])} :
               e = Entry(p, FALSE, Flag(tree[p].kind), tree[p].value)
    <3>1. PICK p \in DOMAIN tree :
            IsScalar(tree[p]) /\ e = Entry(p, FALSE, Flag(tree[p].kind), tree[p].value)
      BY <2>1
    <3>2. PICK kind, value : tree[p] = Scalar(kind, value) /\ Flagged(kind)
      BY <3>1, Kinds
    <3>3. Flag(tree[p].kind) = kind /\ tree[p].value = value
      BY <3>2 DEF Scalar, Flag, Flagged
    <3>4. e.path = p
      BY <3>1 DEF Entry
    <3>5. QED
      BY <3>1, <3>2, <3>3, <3>4 DEF Stands
  <2>2. CASE \E p \in {q \in DOMAIN tree : tree[q].kind = "list"} : e = Entry(p, TRUE, "slice", "")
    <3>1. PICK p \in DOMAIN tree : tree[p].kind = "list" /\ e = Entry(p, TRUE, "slice", "")
      BY <2>2
    <3>2. tree[p] = List
      BY <3>1, Kinds
    <3>3. e.path = p
      BY <3>1 DEF Entry
    <3>4. QED
      BY <3>1, <3>2, <3>3 DEF Stands
  <2>3. CASE \E p \in {q \in DOMAIN tree : tree[q].kind = "map" /\ Children(tree, q) = {}} :
               e = Entry(p, TRUE, "string", "")
    <3>1. PICK p \in DOMAIN tree :
            tree[p].kind = "map" /\ Children(tree, p) = {} /\ e = Entry(p, TRUE, "string", "")
      BY <2>3
    <3>2. tree[p] = Map
      BY <3>1, Kinds
    <3>3. e.path = p
      BY <3>1 DEF Entry
    <3>4. QED
      BY <3>1, <3>2, <3>3 DEF Stands
  <2>4. QED
    BY <2>1, <2>2, <2>3 DEF PutMap
<1>2. ASSUME NEW p \in DOMAIN tree, tree[p] = List \/ Children(tree, p) = {}
      PROVE  \E e \in PutMap(tree) : e.path = p
  <2>1. CASE IsScalar(tree[p])
    <3>1. Entry(p, FALSE, Flag(tree[p].kind), tree[p].value) \in PutMap(tree)
      BY <2>1 DEF PutMap
    <3>2. Entry(p, FALSE, Flag(tree[p].kind), tree[p].value).path = p
      BY DEF Entry
    <3>3. QED
      BY <3>1, <3>2
  <2>2. CASE tree[p] = List
    <3>1. tree[p].kind = "list"
      BY <2>2, Nodes
    <3>2. Entry(p, TRUE, "slice", "") \in PutMap(tree)
      BY <3>1 DEF PutMap
    <3>3. Entry(p, TRUE, "slice", "").path = p
      BY DEF Entry
    <3>4. QED
      BY <3>2, <3>3
  <2>3. CASE tree[p] = Map /\ Children(tree, p) = {}
    <3>1. tree[p].kind = "map"
      BY <2>3, Nodes
    <3>2. Entry(p, TRUE, "string", "") \in PutMap(tree)
      BY <2>3, <3>1 DEF PutMap
    <3>3. Entry(p, TRUE, "string", "").path = p
      BY DEF Entry
    <3>4. QED
      BY <3>2, <3>3
  <2>4. tree[p] = Map => Children(tree, p) = {}
    BY <1>2, Nodes
  <2>5. QED
    BY <2>1, <2>2, <2>3, <2>4, Kinds
<1>3. QED
  BY <1>1, <1>2

(* A path has one entry at most.                                           *)
LEMMA OneEntry ==
  ASSUME NEW tree, NEW d, NEW e, Stands(tree, d), Stands(tree, e), d.path = e.path
  PROVE  d = e
<1>1. CASE \E kind, value : /\ tree[e.path] = Scalar(kind, value) /\ Flagged(kind)
                            /\ e = Entry(e.path, FALSE, kind, value)
  <2>1. PICK kind, value : /\ tree[e.path] = Scalar(kind, value) /\ Flagged(kind)
                           /\ e = Entry(e.path, FALSE, kind, value)
    BY <1>1
  <2>2. tree[e.path] # List /\ tree[e.path] # Map
    BY <2>1, Nodes
  <2>3. PICK k, v : tree[d.path] = Scalar(k, v) /\ d = Entry(d.path, FALSE, k, v)
    BY <2>2 DEF Stands
  <2>4. k = kind /\ v = value
    BY <2>1, <2>3, Nodes
  <2>5. QED
    BY <2>1, <2>3, <2>4
<1>2. CASE tree[e.path] = List /\ e = Entry(e.path, TRUE, "slice", "")
  <2>1. tree[e.path] # Map /\ \A kind, value : Flagged(kind) => tree[e.path] # Scalar(kind, value)
    BY <1>2, Nodes
  <2>2. QED
    BY <1>2, <2>1 DEF Stands
<1>3. CASE tree[e.path] = Map /\ e = Entry(e.path, TRUE, "string", "")
  <2>1. tree[e.path] # List /\ \A kind, value : Flagged(kind) => tree[e.path] # Scalar(kind, value)
    BY <1>3, Nodes
  <2>2. QED
    BY <1>3, <2>1 DEF Stands
<1>4. QED
  BY <1>1, <1>2, <1>3 DEF Stands

(* Below every node there is one with an entry.                            *)
LEMMA Deepest ==
  ASSUME NEW tree, WellFormed(tree), NEW p \in DOMAIN tree
  PROVE  \E e \in PutMap(tree) : Starts(e.path, p)
<1> DEFINE D == DOMAIN tree
           Below(q) == {x \in D : Starts(x, q)}
           T == {n \in Nat : \E q \in Below(p) : n = Cardinality(Below(q))}
<1>1. D \subseteq Seq(Nat) /\ IsFiniteSet(D) /\ p \in D
  BY DEF WellFormed
<1>2. \A q \in D : Len(q) \in Nat
  BY <1>1, LenProperties
<1>3. ASSUME NEW q \in D PROVE IsFiniteSet(Below(q)) /\ Cardinality(Below(q)) \in Nat /\ q \in Below(q)
  <2>1. q \in Below(q)
    BY <1>2 DEF Starts
  <2>2. Below(q) \in SUBSET D
    OBVIOUS
  <2> HIDE DEF Below
  <2>3. QED
    BY <1>1, <2>1, <2>2, FS_Subset, FS_CardinalityType
<1>4. T # {} /\ T \in SUBSET Nat
  <2>1. Cardinality(Below(p)) \in T
    <3> HIDE DEF Below
    <3>1. QED
      BY <1>1, <1>3
  <2>2. QED
    BY <2>1
<1>5. PICK n \in T : \A m \in T : n <= m
  BY <1>4, HasLeast
<1>6. PICK q \in Below(p) : n = Cardinality(Below(q))
  OBVIOUS
<1>7. Children(tree, q) = {}
  <2> SUFFICES ASSUME NEW c \in Children(tree, q) PROVE FALSE
    OBVIOUS
  <2>1. c \in D /\ c # <<>> /\ Front(c) = q /\ q \in D
    BY <1>6 DEF Children
  <2>2. c \in Seq(Nat) /\ q \in Seq(Nat)
    BY <1>1, <2>1
  <2>3. /\ Len(c) \in Nat /\ Len(c) > 0 /\ Len(q) = Len(c) - 1
        /\ \A k \in 1 .. Len(c) - 1 : q[k] = c[k]
    BY <2>1, <2>2, Fronts
  <2>4. Starts(c, q) /\ ~Starts(q, c)
    BY <2>3 DEF Starts
  <2>5. \A x \in D : \A y \in D : \A z \in D : Starts(x, y) /\ Starts(y, z) => Starts(x, z)
    <3> TAKE x \in D
    <3> TAKE y \in D
    <3> TAKE z \in D
    <3>1. Len(x) \in Nat /\ Len(y) \in Nat /\ Len(z) \in Nat
      BY <1>2
    <3>2. QED
      BY <3>1 DEF Starts
  <2>6. c \in Below(p) /\ Below(c) \in SUBSET Below(q) /\ q \notin Below(c) /\ q \in Below(q)
    BY <1>1, <1>3, <2>1, <2>4, <2>5
  <2>7. Below(c) # Below(q)
    BY <2>6
  <2> HIDE DEF Below
  <2>8. Cardinality(Below(c)) < Cardinality(Below(q)) /\ Cardinality(Below(c)) \in Nat
    BY <1>3, <2>1, <2>6, <2>7, FS_Subset
  <2>9. Cardinality(Below(c)) \in T
    BY <2>6, <2>8
  <2>10. QED
    BY <1>5, <1>6, <2>8, <2>9
<1>8. q \in D /\ Starts(q, p)
  BY <1>6
<1>9. QED
  BY <1>7, <1>8, Entries

(* The keys of the entries are distinct, and in the order of their paths.  *)
LEMMA KeysInOrder ==
  ASSUME NEW tree, WellFormed(tree), NEW d \in PutMap(tree), NEW e \in PutMap(tree)
  PROVE  /\ Key(e) \in Seq(Characters)
         /\ Before(d.path, e.path) => Before(Key(d), Key(e))
         /\ Key(d) = Key(e) => d = e
<1>1. \A f \in PutMap(tree) : f.path \in Seq(Nat) /\ f.path \in Seq(Characters) /\ Stands(tree, f)
  <2> TAKE f \in PutMap(tree)
  <2>1. Stands(tree, f)
    BY Entries
  <2>2. f.path \in Seq(Nat)
    BY <2>1 DEF Stands, WellFormed
  <2>3. QED
    BY <2>1, <2>2, PathsAreTexts
<1>2. ASSUME NEW f \in PutMap(tree) PROVE Key(f) \in Seq(Characters)
  <2>1. CASE f.path = <<>>
    <3>1. Key(f) = <<>>
      BY <2>1, TextOfEmpty DEF Key
    <3>2. QED
      BY <3>1, EmptySeq
  <2>2. CASE f.path # <<>>
    <3>1. Len(f.path) \in 1 .. Len(f.path)
      BY <1>1, <2>2, EmptySeq
    <3>2. QED
      BY <1>1, <3>1, KeyStarts
  <2>3. QED
    BY <2>1, <2>2
<1>3. ASSUME NEW f \in PutMap(tree), NEW g \in PutMap(tree), Before(f.path, g.path)
      PROVE  Before(Key(f), Key(g))
  <2>1. f.path \in Seq(Nat) /\ g.path \in Seq(Nat) /\ f.path # g.path
    BY <1>1, <1>3, BeforeOrders
  <2>2. Starts(g.path, f.path) => f.dir
    <3> SUFFICES ASSUME Starts(g.path, f.path) PROVE f.dir
      OBVIOUS
    <3>1. tree[f.path] \in {Map, List}
      <4>1. g.path \in DOMAIN tree
        BY <1>1 DEF Stands
      <4>2. QED
        BY <2>1, <4>1, AboveIsInTree
    <3>2. PICK path, flag, value : f = Entry(path, TRUE, flag, value)
      <4>1. \A kind, value : Flagged(kind) => tree[f.path] # Scalar(kind, value)
        BY <3>1, Nodes
      <4>2. QED
        BY <1>1, <4>1 DEF Stands
    <3>3. QED
      <4>1. Entry(path, TRUE, flag, value).dir
        BY EntryDirs
      <4>2. QED
        BY <3>2, <4>1
  <2>3. QED
    BY <1>3, <2>1, <2>2, KeyOrder
<1>4. ASSUME Key(d) = Key(e) PROVE d = e
  <2>1. ~Before(Key(d), Key(e)) /\ ~Before(Key(e), Key(d))
    BY <1>2, <1>4, BeforeOrders
  <2>2. ~Before(d.path, e.path) /\ ~Before(e.path, d.path)
    BY <1>3, <2>1
  <2>3. d.path = e.path
    BY <1>1, <2>2, BeforeOrders
  <2>4. QED
    BY <1>1, <2>3, OneEntry
<1>5. QED
  BY <1>2, <1>3, <1>4

(* There are finitely many of them.                                        *)
LEMMA EntriesAreFinite ==
  ASSUME NEW tree, WellFormed(tree)
  PROVE  IsFiniteSet(PutMap(tree))
<1> DEFINE E == PutMap(tree)
           path == [e \in E |-> e.path]
<1>1. \A e \in E : Stands(tree, e)
  BY Entries
<1> HIDE DEF E
<1>2. path \in Injection(E, DOMAIN tree)
  <2>1. path \in [E -> DOMAIN tree]
    BY <1>1 DEF Stands
  <2>2. \A d, e \in E : path[d] = path[e] => d = e
    BY <1>1, OneEntry
  <2>3. QED
    BY <2>1, <2>2 DEF Injection, IsInjective
<1>3. QED
  BY <1>2, FS_Injection DEF WellFormed, E

(* The fields of the entry that stands for a node.                        *)
LEMMA StandFields ==
  ASSUME NEW tree, NEW e, Stands(tree, e)
  PROVE  \/ \E kind, value : /\ tree[e.path] = Scalar(kind, value) /\ Flagged(kind)
                            /\ ~e.dir /\ e.flag = kind /\ e.value = value
         \/ tree[e.path] = List /\ e.dir /\ e.flag = "slice"
         \/ tree[e.path] = Map /\ e.dir /\ e.flag = "string"
<1>1. PICK path : path = e.path
  OBVIOUS
<1>2. CASE \E kind, value : /\ tree[path] = Scalar(kind, value) /\ Flagged(kind)
                            /\ e = Entry(path, FALSE, kind, value)
  <2>1. PICK kind, value : /\ tree[path] = Scalar(kind, value) /\ Flagged(kind)
                           /\ e = Entry(path, FALSE, kind, value)
    BY <1>2
  <2>2. ~Entry(path, FALSE, kind, value).dir
    BY EntryDirs
  <2>3. ~e.dir
    BY <2>1, <2>2
  <2>4. e.flag = kind /\ e.value = value
    BY <2>1 DEF Entry
  <2>5. QED
    BY <1>1, <2>1, <2>3, <2>4
<1>3. CASE tree[path] = List /\ e = Entry(path, TRUE, "slice", "")
  <2>1. Entry(path, TRUE, "slice", "").dir
    BY EntryDirs
  <2>2. e.dir
    BY <1>3, <2>1
  <2>3. e.flag = "slice"
    BY <1>3 DEF Entry
  <2>4. QED
    BY <1>1, <1>3, <2>2, <2>3
<1>4. CASE tree[path] = Map /\ e = Entry(path, TRUE, "string", "")
  <2>1. Entry(path, TRUE, "string", "").dir
    BY EntryDirs
  <2>2. e.dir
    BY <1>4, <2>1
  <2>3. e.flag = "string"
    BY <1>4 DEF Entry
  <2>4. QED
    BY <1>1, <1>4, <2>2, <2>3
<1>5. QED
  BY <1>1, <1>2, <1>3, <1>4 DEF Stands

(* Scalars that cannot be told from absent ones.                           *)
Blank(node) == IsScalar(node) /\ node.value = ""

(* Visiting an entry adds the maps above it and the node it stands for,    *)
(* if lists and elements came in turn: nothing that is there is changed.   *)
LEMMA VisitAdds ==
  ASSUME NEW tree, WellFormed(tree), NEW e, Stands(tree, e),
         NEW C, C \subseteq DOMAIN tree, <<>> \in C,
         \A p \in DOMAIN tree : Starts(e.path, p) /\ p # e.path /\ tree[p] = List => p \in C,
         \A p \in DOMAIN tree \ {<<>>} :
           Starts(e.path, p) /\ p \notin C /\ tree[Front(p)] = List =>
             {Last(q) : q \in Children(tree, Front(p)) \cap C} = 0 .. Last(p) - 1
  PROVE  Visit(Restrict(tree, C), e)
           = Restrict(tree, C \cup {p \in DOMAIN tree : Starts(e.path, p) /\ ~Blank(tree[p])})
<1> DEFINE t == Restrict(tree, C)
           path == e.path
           above == {SubSeq(path, 1, i) : i \in 1 .. Len(path) - 1}
           maps == above \cup (IF e.dir /\ e.flag # "slice" THEN {path} ELSE {})
           walked == [p \in DOMAIN t \cup maps |-> IF p \in DOMAIN t THEN t[p] ELSE Map]
           with(node) == [p \in DOMAIN walked \cup {path} |-> IF p = path THEN node ELSE walked[p]]
           OutOfTurn(p) == /\ p \notin DOMAIN t
                           /\ InList(walked, p)
                           /\ Last(p) # Cardinality(Children(t, Front(p)))
           parts == {p \in DOMAIN tree : Starts(path, p) /\ ~Blank(tree[p])}
<1>1. path \in DOMAIN tree /\ path \in Seq(Nat) /\ Len(path) \in Nat
  BY LenProperties DEF Stands, WellFormed
<1>2. DOMAIN t = C /\ \A p \in C : t[p] = tree[p]
  BY DEF Restrict
<1>3. t[<<>>] # Panic
  <2>1. Map.kind = "map" /\ Panic.kind = "panic"
    BY DEF Map, Panic
  <2>2. t[<<>>] = Map
    BY <1>2 DEF WellFormed
  <2>3. QED
    BY <2>1, <2>2
<1>4. \A p : p \in above => /\ p \in DOMAIN tree /\ p # <<>> /\ p # path /\ Starts(path, p)
                            /\ tree[p] \in {Map, List}
  <2> SUFFICES ASSUME NEW i \in 1 .. Len(path) - 1
               PROVE  LET p == SubSeq(path, 1, i)
                      IN  /\ p \in DOMAIN tree /\ p # <<>> /\ p # path /\ Starts(path, p)
                          /\ tree[p] \in {Map, List}
    OBVIOUS
  <2>1. i \in 1 .. Len(path) /\ i \in 0 .. Len(path) /\ i # Len(path)
    BY <1>1
  <2>2. /\ SubSeq(path, 1, i) \in Seq(Nat) /\ Len(SubSeq(path, 1, i)) = i
        /\ SubSeq(path, 1, i) # <<>> /\ Starts(path, SubSeq(path, 1, i))
    BY <1>1, <2>1, SubPath, Parts, AboveStarts
  <2>3. SubSeq(path, 1, i) # path
    BY <2>1, <2>2
  <2>4. QED
    BY <1>1, <2>2, <2>3, AboveIsInTree
<1>5. \A p \in Seq(Nat) : Starts(path, p) => p = <<>> \/ p = path \/ p \in above
  <2> SUFFICES ASSUME NEW p \in Seq(Nat), Starts(path, p), p # <<>>, p # path
               PROVE  p \in above
    OBVIOUS
  <2>1. Len(p) \in 0 .. Len(path) /\ p = SubSeq(path, 1, Len(p)) /\ Len(p) # Len(path)
    BY <1>1, StartsAbove
  <2>2. Len(p) # 0
    BY EmptySeq
  <2>3. Len(p) \in 1 .. Len(path) - 1
    BY <1>1, <2>1, <2>2
  <2>4. QED
    BY <2>1, <2>3
<1> HIDE DEF above, t
<1>6. e.dir /\ e.flag # "slice" => tree[path] = Map
  BY StandFields
<1>7. maps \subseteq DOMAIN tree /\ \A p \in maps \ C : tree[p] = Map
  BY <1>1, <1>4, <1>6
<1>8. walked = Restrict(tree, C \cup maps)
  <2> HIDE DEF maps
  <2>1. QED
    BY <1>2, <1>7 DEF Restrict
<1>9. \A node : tree[path] = node => with(node) = Restrict(tree, C \cup maps \cup {path})
  <2> HIDE DEF maps, walked
  <2>1. DOMAIN walked = C \cup maps /\ \A p \in C \cup maps : walked[p] = tree[p]
    BY <1>8 DEF Restrict
  <2>2. QED
    BY <2>1 DEF Restrict
<1>10. ASSUME NEW p \in above \cup {path}, p # <<>> PROVE ~OutOfTurn(p)
  <2> SUFFICES ASSUME p \notin C, InList(walked, p), Last(p) # Cardinality(Children(t, Front(p)))
               PROVE  FALSE
    BY <1>2
  <2> DEFINE q == Front(p)
             T == Children(tree, q) \cap C
             last == [c \in T |-> Last(c)]
  <2>1. p \in DOMAIN tree \ {<<>>} /\ p \in Seq(Nat) /\ Starts(path, p)
    BY <1>1, <1>4, <1>10 DEF WellFormed, Starts
  <2>2. q \in DOMAIN tree /\ q \in Seq(Nat) /\ Starts(path, q) /\ q # path
    <3>1. /\ Len(p) \in Nat /\ Len(q) = Len(p) - 1 /\ \A k \in 1 .. Len(p) - 1 : q[k] = p[k]
      BY <2>1, Fronts
    <3>2. Len(p) <= Len(path) /\ \A k \in 1 .. Len(p) : path[k] = p[k]
      BY <2>1 DEF Starts
    <3>3. Len(q) <= Len(path) /\ Len(q) # Len(path) /\ \A k \in 1 .. Len(q) : k \in 1 .. Len(p) - 1 /\ k \in 1 .. Len(p)
      BY <1>1, <3>1, <3>2
    <3>4. Starts(path, q) /\ Len(q) # Len(path)
      BY <3>1, <3>2, <3>3 DEF Starts
    <3>5. QED
      BY <2>1, <3>4 DEF WellFormed
  <2>3. q \in C \cup maps
    BY <1>5, <2>2
  <2>4. tree[q].kind = "list"
    <3> HIDE DEF q, walked, maps
    <3>1. walked[q].kind = "list"
      BY DEF InList, q
    <3>2. QED
      BY <1>8, <2>3, <3>1 DEF Restrict
  <2>5. tree[q] = List
    BY <2>2, <2>4, Kinds
  <2>6. {Last(c) : c \in T} = 0 .. Last(p) - 1 /\ Last(p) \in Nat
    BY <2>1, <2>5, Fronts
  <2>7. Children(t, q) = T
    BY <1>2 DEF Children
  <2>8. \A c \in T : c \in Seq(Nat) /\ c # <<>> /\ Front(c) = q
    BY DEF Children, WellFormed
  <2> HIDE DEF T, q
  <2>9. last \in Bijection(T, 0 .. Last(p) - 1)
    <3>1. last \in [T -> 0 .. Last(p) - 1] /\ \A n \in 0 .. Last(p) - 1 : \E c \in T : last[c] = n
      BY <2>6
    <3>2. \A c, d \in T : last[c] = last[d] => c = d
      BY <2>8, SameFront
    <3>3. QED
      BY <3>1, <3>2 DEF Bijection, Injection, Surjection, IsInjective
  <2>10. IsFiniteSet(0 .. Last(p) - 1) /\ Cardinality(0 .. Last(p) - 1) = Last(p)
    <3>1. PICK n \in Nat : n = Last(p)
      BY <2>6
    <3>2. IsFiniteSet(0 .. n - 1) /\ Cardinality(0 .. n - 1) = n
      BY FS_Interval
    <3>3. QED
      BY <3>1, <3>2
  <2>11. Cardinality(T) = Last(p)
    <3>1. T \in SUBSET DOMAIN tree
      BY DEF T
    <3>2. IsFiniteSet(T)
      BY <3>1, FS_Subset DEF WellFormed
    <3>3. QED
      BY <2>9, <2>10, <3>2, FS_Bijection DEF ExistsBijection
  <2>12. QED
    BY <2>7, <2>11 DEF q
<1>11. Visit(t, e) =
         IF path = <<>> THEN t
         ELSE IF e.flag = "slice" THEN with(List)
         ELSE IF InList(walked, path) THEN with(Map)
         ELSE IF e.dir \/ e.value = "" THEN walked
         ELSE with(Scalar(e.flag, e.value))
  <2>1. ~\E p \in above \cup {path} : p # <<>> /\ OutOfTurn(p)
    BY <1>10
  <2>2. QED
    BY <1>3, <2>1 DEF Visit, above
<1>12. C \cup parts = C \cup above \cup (IF Blank(tree[path]) THEN {} ELSE {path})
  <2>1. \A p \in DOMAIN tree : p \in Seq(Nat)
    BY DEF WellFormed
  <2>2. \A p \in above : ~Blank(tree[p])
    BY <1>4, Nodes DEF Blank, IsScalar
  <2>3. Starts(path, path)
    BY <1>1 DEF Starts
  <2>4. QED
    BY <1>1, <1>4, <1>5, <2>1, <2>2, <2>3
<1>13. CASE path = <<>>
  <2>1. above = {}
    BY <1>1, <1>13, EmptySeq DEF above
  <2>2. Visit(t, e) = t /\ C \cup parts = C
    BY <1>11, <1>12, <1>13, <2>1
  <2>3. QED
    BY <2>2 DEF t
<1>14. ASSUME path # <<>> PROVE Visit(t, e) = Restrict(tree, C \cup parts)
  <2> HIDE DEF parts
  <2>1. CASE \E kind, value : /\ tree[path] = Scalar(kind, value) /\ Flagged(kind)
                              /\ ~e.dir /\ e.flag = kind /\ e.value = value
    <3>1. PICK kind, value : /\ tree[path] = Scalar(kind, value) /\ Flagged(kind)
                             /\ ~e.dir /\ e.flag = kind /\ e.value = value
      BY <2>1
    <3>2. ~e.dir /\ e.flag = kind /\ e.value = value
      BY <3>1
    <3>3. e.flag # "slice" /\ maps = above /\ IsScalar(tree[path]) /\ tree[path].value = value
      BY <3>1, <3>2, Nodes DEF Flagged, IsScalar
    <3>4. ~InList(walked, path)
      <4>1. path \in DOMAIN tree \ {<<>>} /\ tree[Front(path)] # List
        BY <1>1, <1>14, <3>1, Nodes DEF WellFormed
      <4>2. Front(path) \in DOMAIN tree /\ Front(path) \in C \cup maps
        <5>1. Front(path) \in DOMAIN tree /\ Front(path) \in Seq(Nat)
          BY <4>1 DEF WellFormed
        <5>2. /\ Len(Front(path)) = Len(path) - 1
              /\ \A k \in 1 .. Len(path) - 1 : Front(path)[k] = path[k]
          BY <1>1, <1>14, Fronts
        <5>3. Starts(path, Front(path)) /\ Front(path) # path
          BY <1>1, <5>2 DEF Starts
        <5>4. QED
          BY <1>5, <3>3, <5>1, <5>3
      <4>3. tree[Front(path)].kind # "list"
        BY <4>1, <4>2, Kinds
      <4>4. walked[Front(path)] = tree[Front(path)]
        BY <1>8, <4>2 DEF Restrict
      <4>5. QED
        BY <4>3, <4>4 DEF InList
    <3>5. CASE value = ""
      <4>1. Visit(t, e) = walked
        BY <1>11, <1>14, <3>2, <3>3, <3>4, <3>5
      <4>2. Blank(tree[path])
        BY <3>3, <3>5 DEF Blank
      <4>3. QED
        BY <1>8, <1>12, <3>3, <4>1, <4>2
    <3>6. CASE value # ""
      <4>1. Visit(t, e) = with(Scalar(kind, value))
        BY <1>11, <1>14, <3>2, <3>3, <3>4, <3>6
      <4>2. ~Blank(tree[path])
        BY <3>3, <3>6 DEF Blank
      <4>3. with(Scalar(kind, value)) = Restrict(tree, C \cup maps \cup {path})
        <5> HIDE DEF with, maps
        <5>1. QED
          BY <1>9, <3>1
      <4>4. QED
        BY <1>12, <3>3, <4>1, <4>2, <4>3
    <3>7. QED
      BY <3>5, <3>6
  <2>2. CASE tree[path] = List /\ e.dir /\ e.flag = "slice"
    <3>1. e.flag = "slice" /\ maps = above /\ ~Blank(tree[path])
      BY <2>2, Nodes DEF Blank, IsScalar
    <3>2. Visit(t, e) = with(List)
      BY <1>11, <1>14, <3>1
    <3>3. with(List) = Restrict(tree, C \cup maps \cup {path})
      <4> HIDE DEF with, maps
      <4>1. QED
        BY <1>9, <2>2
    <3>4. QED
      BY <1>12, <3>1, <3>2, <3>3
  <2>3. CASE tree[path] = Map /\ e.dir /\ e.flag = "string"
    <3>1. e.flag = "string" /\ e.dir
      BY <2>3
    <3>2. ~Blank(tree[path]) /\ maps = above \cup {path}
      BY <2>3, <3>1, Nodes DEF Blank, IsScalar
    <3>3. Visit(t, e) \in {with(Map), walked}
      BY <1>11, <1>14, <3>1
    <3>4. with(Map) = Restrict(tree, C \cup maps \cup {path})
      <4> HIDE DEF with, maps
      <4>1. QED
        BY <1>9, <2>3
    <3>5. C \cup maps \cup {path} = C \cup maps
      BY <3>2
    <3>6. C \cup parts = C \cup maps
      BY <1>12, <3>2
    <3>7. with(Map) = Restrict(tree, C \cup parts) /\ walked = Restrict(tree, C \cup parts)
      BY <1>8, <3>4, <3>5, <3>6
    <3> HIDE DEF with, walked
    <3>8. QED
      BY <3>3, <3>7
  <2>4. QED
    BY <2>1, <2>2, <2>3, StandFields
<1>15. QED
  BY <1>13, <1>14 DEF t, parts

(* ListMap, entry by entry.                                                *)
LEMMA BuiltLoop ==
  ASSUME NEW entries, Len(Listed(entries)) \in Nat
  PROVE  \E built :
           /\ built[0] = [p \in {<<>>} |-> Map]
           /\ \A n \in 1 .. Len(Listed(entries)) : built[n] = Visit(built[n - 1], Listed(entries)[n])
           /\ ListMap(entries) = built[Len(Listed(entries))]
<1> DEFINE list == Listed(entries)
           start == [p \in {<<>>} |-> Map]
           Step(t, n) == Visit(t, list[n])
           Run(g, m) == /\ g = [n \in 0 .. m |-> g[n]]
                        /\ g[0] = start
                        /\ \A n \in 1 .. m : g[n] = Step(g[n - 1], n)
           T == {m \in Nat : \E g : Run(g, m)}
<1>1. Len(list) \in Nat
  OBVIOUS
<1>2. 0 \in T
  <2>1. Run([n \in 0 .. 0 |-> start], 0)
    OBVIOUS
  <2>2. QED
    BY <2>1
<1>3. ASSUME NEW m \in 1 .. Len(list), m - 1 \in T PROVE m \in T
  <2>1. m \in Nat /\ m - 1 \in Nat /\ m # 0
    BY <1>1
  <2>2. PICK g : Run(g, m - 1)
    BY <1>3
  <2> DEFINE f == [n \in 0 .. m |-> IF n = m THEN Step(g[m - 1], m) ELSE g[n]]
  <2>3. DOMAIN f = 0 .. m /\ f[0] = start
    BY <2>1, <2>2
  <2>4. ASSUME NEW n \in 1 .. m PROVE f[n] = Step(f[n - 1], n)
    <3>1. n - 1 \in 0 .. m /\ n - 1 # m /\ n \in 0 .. m
      BY <2>1
    <3>2. f[n - 1] = g[n - 1]
      BY <3>1
    <3>3. n # m => n \in 1 .. (m - 1) /\ f[n] = g[n]
      BY <2>1, <3>1
    <3>4. QED
      BY <2>2, <3>1, <3>2, <3>3
  <2> HIDE DEF f
  <2>5. f = [n \in 0 .. m |-> f[n]]
    BY DEF f
  <2>6. Run(f, m)
    BY <2>3, <2>4, <2>5
  <2>7. QED
    BY <2>1, <2>6
<1> HIDE DEF T
<1>4. Len(list) \in T
  <2>1. \A m \in 1 .. Len(list) : m - 1 \in T => m \in T
    BY <1>3
  <2>2. \A m \in 0 .. Len(list) : m \in T
    BY <1>1, <1>2, <2>1, Upto
  <2>3. QED
    BY <1>1, <2>2
<1>5. PICK g : Run(g, Len(list))
  BY <1>4 DEF T
<1>6. g = [n \in 0 .. Len(list) |->
             IF n = 0 THEN start ELSE Visit(g[n - 1], list[n])]
  <2>1. \A n \in 0 .. Len(list) :
          g[n] = IF n = 0 THEN start ELSE Visit(g[n - 1], list[n])
    <3> HIDE DEF list, start
    <3> TAKE n \in 0 .. Len(list)
    <3>1. n # 0 => n \in 1 .. Len(list)
      BY <1>1
    <3>2. QED
      BY <1>5, <3>1
  <2>2. QED
    BY <1>5, <2>1
<1> DEFINE u == CHOOSE f : f = [n \in 0 .. Len(list) |->
                  IF n = 0 THEN start ELSE Visit(f[n - 1], list[n])]
<1>7. u = [n \in 0 .. Len(list) |->
             IF n = 0 THEN start ELSE Visit(u[n - 1], list[n])]
  BY <1>6
<1>8. ListMap(entries) = u[Len(list)]
  BY DEF ListMap
<1> HIDE DEF u
<1>9. u[0] = start /\ \A n \in 1 .. Len(list) : u[n] = Visit(u[n - 1], list[n])
  BY <1>1, <1>7
<1>10. QED
  BY <1>8, <1>9

(* What was put is what is loaded again, but for blanks: when the first k  *)
(* entries are visited, what is there is what they and nodes above stand   *)
(* for.                                                                    *)
Visited(tree, list, k) ==
  {<<>>} \cup {p \in DOMAIN tree : ~Blank(tree[p]) /\ \E i \in 1 .. k : Starts(list[i].path, p)}

(* The keys are listed in the order of the paths of the entries.           *)
LEMMA ListedByPath ==
  ASSUME NEW tree, WellFormed(tree)
  PROVE  LET list == Listed(PutMap(tree)) IN
         /\ Len(list) \in Nat /\ DOMAIN list = 1 .. Len(list)
         /\ \A i \in 1 .. Len(list) : /\ list[i] \in PutMap(tree) /\ Stands(tree, list[i])
                                      /\ list[i].path \in Seq(Nat)
         /\ \A e \in PutMap(tree) : \E i \in 1 .. Len(list) : list[i] = e
         /\ \A i, j \in 1 .. Len(list) : Before(list[i].path, list[j].path) => i < j
<1> DEFINE E == PutMap(tree)
           list == Listed(E)
<1>1. \A e \in E : Stands(tree, e) /\ e.path \in Seq(Nat)
  <2>1. ASSUME NEW e \in E PROVE Stands(tree, e)
    BY Entries
  <2>2. ASSUME NEW e, Stands(tree, e) PROVE e.path \in Seq(Nat)
    BY <2>2 DEF Stands, WellFormed
  <2>3. QED
    BY <2>1, <2>2
<1>2. /\ \A e \in E : Key(e) \in Seq(Characters)
      /\ \A d \in E : \A e \in E : Before(d.path, e.path) => Before(Key(d), Key(e))
      /\ \A d \in E : \A e \in E : Key(d) = Key(e) => d = e
  BY KeysInOrder
<1>3. IsFiniteSet(E)
  BY EntriesAreFinite
<1> HIDE DEF E
<1>4. /\ list \in Seq(E) /\ Range(list) = E
      /\ \A i, j \in DOMAIN list : i < j => Before(Key(list[i]), Key(list[j]))
  BY <1>2, <1>3, ListedInOrder
<1> HIDE DEF list
<1>5. Len(list) \in Nat /\ DOMAIN list = 1 .. Len(list) /\ \A i \in 1 .. Len(list) : list[i] \in E
  BY <1>4, LenProperties, ElementOfSeq
<1>6. \A e \in E : \E i \in 1 .. Len(list) : list[i] = e
  BY <1>4, <1>5 DEF Range
<1>7. ASSUME NEW i \in 1 .. Len(list), NEW j \in 1 .. Len(list), Before(list[i].path, list[j].path)
      PROVE  i < j
  <2>1. list[i] \in E /\ list[j] \in E
    BY <1>5
  <2>2. Before(Key(list[i]), Key(list[j]))
    BY <1>2, <1>7, <2>1
  <2>3. ~Before(Key(list[j]), Key(list[i])) /\ Key(list[i]) # Key(list[j])
    BY <1>2, <2>1, <2>2, BeforeOrders
  <2>4. i # j /\ ~(j < i)
    BY <1>4, <1>5, <2>3
  <2>5. QED
    BY <1>5, <2>4
<1>8. QED
  BY <1>1, <1>5, <1>6, <1>7 DEF E, list

(* In the order of the keys they come in turn: one more entry is           *)
(* visited.                                                                *)
LEMMA VisitInOrder ==
  ASSUME NEW tree, WellFormed(tree), NEW list, list = Listed(PutMap(tree)),
         NEW m \in 1 .. Len(list)
  PROVE  Visit(Restrict(tree, Visited(tree, list, m - 1)), list[m])
           = Restrict(tree, Visited(tree, list, m))
<1> DEFINE C == Visited(tree, list, m - 1)
           path == list[m].path
<1>1. /\ Len(list) \in Nat /\ DOMAIN list = 1 .. Len(list)
      /\ \A i \in 1 .. Len(list) : /\ list[i] \in PutMap(tree) /\ Stands(tree, list[i])
                                   /\ list[i].path \in Seq(Nat)
      /\ \A e \in PutMap(tree) : \E i \in 1 .. Len(list) : list[i] = e
      /\ \A i, j \in 1 .. Len(list) : Before(list[i].path, list[j].path) => i < j
  BY ListedByPath
<1>2. /\ m \in Nat /\ m - 1 \in Nat /\ path \in Seq(Nat) /\ Stands(tree, list[m])
      /\ \A i \in 1 .. m - 1 : i \in 1 .. Len(list) /\ ~(m < i)
      /\ \A i \in 1 .. Len(list) : i < m => i \in 1 .. m - 1
      /\ \A i : i \in 1 .. m <=> i \in 1 .. m - 1 \/ i = m
  BY <1>1
<1>3. C \subseteq DOMAIN tree /\ <<>> \in C
  BY DEF Visited, WellFormed
<1>4. \A p \in DOMAIN tree : p \in Seq(Nat) /\ Starts(p, p)
  BY LenProperties DEF WellFormed, Starts
<1>5. ASSUME NEW p \in DOMAIN tree, NEW q \in Seq(Nat), NEW d \in PutMap(tree), Starts(d.path, p),
             ~Blank(tree[p]), Before(d.path, path)
      PROVE  p \in C
  <2>1. PICK i \in 1 .. Len(list) : list[i] = d
    BY <1>1
  <2>2. i < m
    BY <1>1, <1>5, <2>1
  <2>3. i \in 1 .. m - 1
    BY <1>2, <2>2
  <2>4. QED
    BY <1>5, <2>1, <2>3 DEF Visited
<1>6. ASSUME NEW p \in DOMAIN tree, Starts(path, p), p # path, tree[p] = List
      PROVE  p \in C
  <2>1. PICK d \in PutMap(tree) : d.path = p
    BY <1>6, Entries
  <2>2. Before(d.path, path)
    BY <1>2, <1>4, <1>6, <2>1, AboveIsBefore
  <2>3. ~Blank(tree[p])
    BY <1>6, Nodes DEF Blank, IsScalar
  <2>4. QED
    BY <1>4, <1>5, <2>1, <2>2, <2>3
<1>7. ASSUME NEW p \in DOMAIN tree \ {<<>>}, Starts(path, p), p \notin C, tree[Front(p)] = List
      PROVE  {Last(q) : q \in Children(tree, Front(p)) \cap C} = 0 .. Last(p) - 1
  <2> DEFINE T == Children(tree, Front(p)) \cap C
  <2>1. p \in Seq(Nat) /\ p # <<>> /\ Front(p) \in Seq(Nat) /\ Last(p) \in Nat
    BY <1>4, Fronts
  <2>2. ASSUME NEW n \in 0 .. Last(p) - 1 PROVE \E q \in T : Last(q) = n
    <3> DEFINE q == Append(Front(p), n)
    <3>1. n \in Nat /\ n < Last(p)
      BY <2>1
    <3>2. q \in DOMAIN tree
      BY <1>7 DEF WellFormed
    <3>3. q \in Seq(Nat) /\ q # <<>> /\ Front(q) = Front(p) /\ Last(q) = n
      BY <2>1, <3>1, Element
    <3> HIDE DEF q
    <3>4. tree[q] = Map
      BY <1>7, <3>2, <3>3 DEF WellFormed
    <3>5. PICK d \in PutMap(tree) : Starts(d.path, q)
      BY <3>2, Deepest
    <3>6. d.path \in Seq(Nat)
      BY <1>1
    <3>7. Before(d.path, path)
      BY <1>2, <1>7, <2>1, <3>1, <3>3, <3>5, <3>6, SideIsBefore
    <3>8. ~Blank(tree[q])
      BY <3>4, Nodes DEF Blank, IsScalar
    <3>9. q \in C
      BY <1>4, <1>5, <3>2, <3>5, <3>7, <3>8
    <3>10. q \in T
      BY <3>2, <3>3, <3>9 DEF Children
    <3>11. QED
      BY <3>3, <3>10
  <2>3. ASSUME NEW q \in T PROVE Last(q) \in 0 .. Last(p) - 1
    <3>1. q \in DOMAIN tree /\ q # <<>> /\ Front(q) = Front(p) /\ q \in C
      BY DEF Children
    <3>2. q \in Seq(Nat) /\ Last(q) \in Nat
      BY <1>4, <3>1, Fronts
    <3>3. Last(q) # Last(p)
      BY <1>7, <2>1, <3>1, <3>2, SameFront
    <3>4. ~(Last(p) < Last(q))
      <4> SUFFICES ASSUME Last(p) < Last(q) PROVE FALSE
        OBVIOUS
      <4>1. PICK i \in 1 .. m - 1 : Starts(list[i].path, q)
        BY <3>1 DEF Visited
      <4>2. i \in 1 .. Len(list) /\ ~(m < i) /\ list[i].path \in Seq(Nat)
        BY <1>1, <1>2
      <4>3. Before(path, list[i].path)
        BY <1>2, <1>7, <2>1, <3>1, <3>2, <4>1, <4>2, SideIsBefore
      <4>4. QED
        BY <1>1, <4>2, <4>3
    <3>5. QED
      BY <2>1, <3>2, <3>3, <3>4
  <2>4. QED
    BY <2>2, <2>3
<1> DEFINE parts == {p \in DOMAIN tree : Starts(path, p) /\ ~Blank(tree[p])}
<1>8. Visited(tree, list, m) = C \cup parts
  BY <1>2 DEF Visited
<1> HIDE DEF C
<1>9. Visit(Restrict(tree, C), list[m]) = Restrict(tree, C \cup parts)
  BY <1>2, <1>3, <1>6, <1>7, VisitAdds
<1>10. QED
  BY <1>8, <1>9 DEF C

(* kv.go:104-277: what PutMap has written of a tree ListMap builds         *)
(* again, but for empty values, whatever the names are and however many    *)
(* elements its lists have (below the bound of four digits).               *)
THEOREM PutMapReloads ==
  ASSUME NEW tree, WellFormed(tree)
  PROVE  Reloads(tree)
<1> DEFINE list == Listed(PutMap(tree))
           N == Len(list)
<1>1. /\ N \in Nat
      /\ \A i \in 1 .. N : list[i] \in PutMap(tree)
      /\ \A e \in PutMap(tree) : \E i \in 1 .. N : list[i] = e
  BY ListedByPath
<1>2. PICK built : /\ built[0] = [p \in {<<>>} |-> Map]
                   /\ \A n \in 1 .. N : built[n] = Visit(built[n - 1], list[n])
                   /\ ListMap(PutMap(tree)) = built[N]
  BY <1>1, BuiltLoop
<1> DEFINE T == {m \in 0 .. N : built[m] = Restrict(tree, Visited(tree, list, m))}
<1>3. 0 \in T
  <2>1. Visited(tree, list, 0) = {<<>>}
    BY DEF Visited
  <2>2. Restrict(tree, {<<>>}) = [p \in {<<>>} |-> Map]
    BY DEF Restrict, WellFormed
  <2>3. 0 \in 0 .. N
    BY <1>1
  <2>4. built[0] = Restrict(tree, Visited(tree, list, 0))
    BY <1>2, <2>1, <2>2
  <2> HIDE DEF list
  <2>5. QED
    BY <2>3, <2>4
<1>4. ASSUME NEW m \in 1 .. N, m - 1 \in T PROVE m \in T
  <2>1. built[m] = Visit(Restrict(tree, Visited(tree, list, m - 1)), list[m])
    BY <1>2, <1>4
  <2>2. built[m] = Restrict(tree, Visited(tree, list, m))
    BY <2>1, VisitInOrder
  <2>3. m \in 0 .. N
    BY <1>1
  <2>4. QED
    BY <2>2, <2>3
<1>5. N \in T
  <2>1. \A m \in 1 .. N : m - 1 \in T => m \in T
    BY <1>4
  <2> HIDE DEF T
  <2>2. \A m \in 0 .. N : m \in T
    BY <1>1, <1>3, <2>1, Upto
  <2>3. QED
    BY <1>1, <2>2
<1>6. Visited(tree, list, N) = {p \in DOMAIN tree : ~Blank(tree[p])}
  <2>1. <<>> \in DOMAIN tree /\ ~Blank(tree[<<>>])
    BY Nodes DEF WellFormed, Blank, IsScalar
  <2>2. ASSUME NEW p \in DOMAIN tree PROVE \E i \in 1 .. N : Starts(list[i].path, p)
    BY <1>1, Deepest
  <2>3. QED
    BY <2>1, <2>2 DEF Visited
<1>7. QED
  BY <1>2, <1>5, <1>6 DEF Reloads, WithoutBlanks, Blank

-----------------------------------------------------------------------------
(* The trees of systems are such that they are reloaded.                   *)

(* The names in Consul, and paths of them.                                 *)
Words == Range(KeyNames)

(* Names are not indexes, and two names are not the same segment.          *)
LEMMA NamesDiffer ==
  /\ \A a \in Words : Name(a) \in Nat /\ Name(a) >= Names
  /\ \A a, b \in Words : Name(a) = Name(b) => a = b
<1>1. DOMAIN KeyNames = 1 .. Len(KeyNames) /\ Len(KeyNames) \in Nat
  BY NamesAssumption, LenProperties
<1> DEFINE place(a) == CHOOSE i \in DOMAIN KeyNames : KeyNames[i] = a
<1>2. \A a \in Words : place(a) \in DOMAIN KeyNames /\ KeyNames[place(a)] = a
  BY DEF Words, Range
<1>3. \A a : Name(a) = Names + place(a)
  BY DEF Name
<1> HIDE DEF place
<1>4. Names \in Nat /\ \A a \in Words : place(a) \in Nat
  BY <1>1, <1>2 DEF Names
<1>5. \A a, b \in Words : Name(a) = Name(b) => place(a) = place(b)
  BY <1>3, <1>4
<1>6. QED
  BY <1>2, <1>3, <1>4, <1>5

(* The path of some names has their segments.                              *)
LEMMA PathNames ==
  ASSUME NEW k \in Seq(Words)
  PROVE  /\ Path(k) \in Seq(Nat) /\ Len(Path(k)) = Len(k)
         /\ \A i \in 1 .. Len(k) : Path(k)[i] = Name(k[i]) /\ Path(k)[i] >= Names
<1>1. Len(k) \in Nat /\ DOMAIN k = 1 .. Len(k) /\ \A i \in 1 .. Len(k) : k[i] \in Words
  BY LenProperties, ElementOfSeq
<1>2. Path(k) = [i \in 1 .. Len(k) |-> Name(k[i])]
  BY <1>1 DEF Path
<1>3. \A i \in 1 .. Len(k) : Name(k[i]) \in Nat /\ Name(k[i]) >= Names
  BY <1>1, NamesDiffer
<1>4. QED
  BY <1>1, <1>2, <1>3

(* The paths of one name and of two.                                       *)
LEMMA ShortPaths ==
  ASSUME NEW a \in Words, NEW b \in Words
  PROVE  Path(<<a>>) = <<Name(a)>> /\ Path(<<a, b>>) = <<Name(a), Name(b)>>
BY DEF Path

(* The fields the code puts have names.                                    *)
LEMMA FieldNames ==
  /\ "id" \in Words /\ "sid" \in Words /\ "type" \in Words /\ "profile" \in Words
  /\ "instances" \in Words /\ "databases" \in Words /\ "host" \in Words /\ "number" \in Words
  /\ "database" \in Words
BY NamesAssumption DEF Fields, Words

(* The path of a parameter: profile, then the segments of its name.        *)
LEMMA ParameterPaths ==
  ASSUME NEW k \in Seq(Words)
  PROVE  /\ Parameter(k) \in Seq(Nat) /\ Len(Parameter(k)) = Len(k) + 1 /\ Len(k) \in Nat
         /\ Parameter(k) # <<>> /\ Parameter(k)[1] = Name("profile")
         /\ \A i \in 1 .. Len(k) : Parameter(k)[i + 1] = Name(k[i])
         /\ Last(Parameter(k)) >= Names
<1>1. <<"profile">> \in Seq(Words) /\ Len(<<"profile">>) = 1 /\ <<"profile">>[1] = "profile"
  BY FieldNames
<1> DEFINE q == <<"profile">> \o k
<1>2. Len(k) \in Nat
  BY LenProperties
<1>3. /\ q \in Seq(Words) /\ Len(q) = Len(k) + 1
      /\ \A i \in 1 .. Len(k) + 1 : q[i] = IF i <= 1 THEN "profile" ELSE k[i - 1]
  BY <1>1, <1>2, ConcatProperties
<1> HIDE DEF q
<1>4. /\ Path(q) \in Seq(Nat) /\ Len(Path(q)) = Len(k) + 1
      /\ \A i \in 1 .. Len(k) + 1 : Path(q)[i] = Name(q[i]) /\ Path(q)[i] >= Names
  BY <1>3, PathNames
<1>5. 1 \in 1 .. Len(k) + 1 /\ Path(q)[1] = Name("profile")
  BY <1>2, <1>3, <1>4
<1>6. ASSUME NEW i \in 1 .. Len(k) PROVE Path(q)[i + 1] = Name(k[i])
  <2>1. PICK j \in 1 .. Len(k) + 1 : j = i + 1 /\ ~(j <= 1) /\ j - 1 = i
    <3>1. i + 1 \in 1 .. Len(k) + 1 /\ ~(i + 1 <= 1) /\ (i + 1) - 1 = i
      BY <1>2
    <3>2. QED
      BY <3>1
  <2>2. QED
    BY <1>3, <1>4, <2>1
<1>7. Path(q) # <<>>
  BY <1>2, <1>4, EmptySeq
<1>8. Last(Path(q)) >= Names
  <2>1. Last(Path(q)) = Path(q)[Len(Path(q))]
    BY <1>4, <1>7, Fronts
  <2>2. PICK n \in 1 .. Len(k) + 1 : n = Len(Path(q))
    <3>1. Len(k) + 1 \in 1 .. Len(k) + 1
      BY <1>2
    <3>2. QED
      BY <1>4, <3>1
  <2>3. QED
    BY <1>4, <2>1, <2>2
<1>9. QED
  BY <1>2, <1>4, <1>5, <1>6, <1>7, <1>8 DEF q, Parameter

(* Two parameters are not at the same path.                                *)
LEMMA ParametersDiffer ==
  ASSUME NEW k \in Seq(Words), NEW m \in Seq(Words), Parameter(k) = Parameter(m)
  PROVE  k = m
<1>1. /\ Len(Parameter(k)) = Len(k) + 1 /\ Len(k) \in Nat
      /\ \A i \in 1 .. Len(k) : Parameter(k)[i + 1] = Name(k[i])
  BY ParameterPaths
<1>2. /\ Len(Parameter(m)) = Len(m) + 1 /\ Len(m) \in Nat
      /\ \A i \in 1 .. Len(m) : Parameter(m)[i + 1] = Name(m[i])
  BY ParameterPaths
<1>3. Len(k) = Len(m)
  BY <1>1, <1>2
<1>4. \A i \in 1 .. Len(k) : Name(k[i]) = Name(m[i])
  BY <1>1, <1>2, <1>3
<1>5. \A i \in 1 .. Len(k) : k[i] \in Words /\ m[i] \in Words
  BY <1>3, ElementOfSeq
<1>6. \A i \in 1 .. Len(k) : k[i] = m[i]
  BY <1>4, <1>5, NamesDiffer
<1>7. QED
  BY <1>3, <1>6, SeqEqual

(* What is put below the id of a system.                                   *)
LEMMA ValuesAre ==
  ASSUME NEW s, NEW v
  PROVE  v \in Values(s) <=>
           \/ v \in {MapAt(<<>>), TextAt(Path(<<"id">>), s.id), TextAt(Path(<<"sid">>), s.sid),
                     MapAt(Path(<<"profile">>))}
           \/ s.type # "Unknown" /\ v = <<Path(<<"type">>), Scalar("int", s.type)>>
           \/ \E i \in s.instances : v \in InstanceValues(i)
           \/ \E k \in DOMAIN s.profile : v \in ParameterValues(k, s.profile[k])
           \/ \E k \in DOMAIN s.databases : v \in TenantValues(k, s.databases[k])
<1> DEFINE A == {MapAt(<<>>), TextAt(Path(<<"id">>), s.id), TextAt(Path(<<"sid">>), s.sid),
                 MapAt(Path(<<"profile">>))}
           B == <<Path(<<"type">>), Scalar("int", s.type)>>
           C == UNION {InstanceValues(i) : i \in s.instances}
           D == UNION {ParameterValues(k, s.profile[k]) : k \in DOMAIN s.profile}
           E == UNION {TenantValues(k, s.databases[k]) : k \in DOMAIN s.databases}
<1>1. Values(s) = A \cup (IF s.type = "Unknown" THEN {} ELSE {B}) \cup C \cup D \cup E
  BY DEF Values
<1>2. v \in C <=> \E i \in s.instances : v \in InstanceValues(i)
  OBVIOUS
<1>3. v \in D <=> \E k \in DOMAIN s.profile : v \in ParameterValues(k, s.profile[k])
  OBVIOUS
<1>4. v \in E <=> \E k \in DOMAIN s.databases : v \in TenantValues(k, s.databases[k])
  OBVIOUS
<1> HIDE DEF A, B, C, D, E
<1>5. v \in Values(s) <=> v \in A \/ (s.type # "Unknown" /\ v = B) \/ v \in C \/ v \in D \/ v \in E
  BY <1>1
<1>6. QED
  BY <1>2, <1>3, <1>4, <1>5 DEF A, B

(* Above a parameter is the directory of its name.                         *)
LEMMA FrontOfParameter ==
  ASSUME NEW k \in Seq(Words), k # <<>>
  PROVE  /\ SubSeq(k, 1, Len(k) - 1) \in Seq(Words)
         /\ Front(Parameter(k)) = Parameter(SubSeq(k, 1, Len(k) - 1))
<1>1. /\ Parameter(k) \in Seq(Nat) /\ Len(Parameter(k)) = Len(k) + 1 /\ Len(k) \in Nat
      /\ Parameter(k) # <<>> /\ Parameter(k)[1] = Name("profile")
      /\ \A i \in 1 .. Len(k) : Parameter(k)[i + 1] = Name(k[i])
  BY ParameterPaths
<1>2. Len(k) > 0
  BY <1>1, EmptySeq
<1> DEFINE q == Parameter(k)
           f == Front(q)
           m == SubSeq(k, 1, Len(k) - 1)
<1>3. f \in Seq(Nat) /\ Len(f) = Len(k) /\ \A i \in 1 .. Len(k) : f[i] = q[i]
  <2>1. q \in Seq(Nat) /\ q # <<>> /\ Len(q) = Len(k) + 1
    BY <1>1
  <2> HIDE DEF q
  <2>2. f \in Seq(Nat) /\ Len(f) = Len(q) - 1 /\ \A i \in 1 .. Len(q) - 1 : f[i] = q[i]
    BY <2>1, Fronts
  <2>3. Len(q) - 1 = Len(k)
    BY <1>1, <2>1
  <2>4. QED
    BY <2>2, <2>3
<1>4. Len(k) - 1 \in 0 .. Len(k)
  BY <1>1, <1>2
<1>5. m \in Seq(Words) /\ Len(m) = Len(k) - 1 /\ \A i \in 1 .. Len(k) - 1 : m[i] = k[i]
  BY <1>4, Beginning
<1> HIDE DEF f, m
<1>6. /\ Parameter(m) \in Seq(Nat) /\ Len(Parameter(m)) = Len(m) + 1
      /\ Parameter(m)[1] = Name("profile")
      /\ \A i \in 1 .. Len(m) : Parameter(m)[i + 1] = Name(m[i])
  BY <1>5, ParameterPaths
<1>7. Len(f) = Len(Parameter(m))
  BY <1>1, <1>3, <1>5, <1>6
<1>8. ASSUME NEW i \in 1 .. Len(k) PROVE f[i] = Parameter(m)[i]
  <2>1. CASE i = 1
    BY <1>1, <1>3, <1>6, <2>1
  <2>2. CASE i # 1
    <3>1. PICK j \in 1 .. Len(k) - 1 : i = j + 1
      <4>1. i - 1 \in 1 .. Len(k) - 1 /\ i = (i - 1) + 1
        BY <1>1, <2>2
      <4>2. QED
        BY <4>1
    <3>2. j \in 1 .. Len(k) /\ j \in 1 .. Len(m) /\ j + 1 \in 1 .. Len(k)
      BY <1>1, <1>5, <3>1
    <3>3. f[j + 1] = Name(k[j]) /\ Parameter(m)[j + 1] = Name(k[j])
      BY <1>1, <1>3, <1>5, <1>6, <3>2
    <3>4. QED
      BY <3>1, <3>3
  <2>3. QED
    BY <2>1, <2>2
<1>9. f = Parameter(m)
  BY <1>3, <1>6, <1>7, <1>8, SeqEqual
<1>10. QED
  BY <1>5, <1>9 DEF f, m, q

(* Above a parameter without directory is the profile.                     *)
LEMMA ParameterOfNoName == Parameter(<<>>) = Path(<<"profile">>)
<1>1. <<"profile">> \in Seq({"profile"})
  OBVIOUS
<1>2. QED
  BY <1>1, ConcatEmptySeq DEF Parameter

(* A system as its tree is made of it.                                     *)
Regular(s) ==
  /\ s.databases \in Seq(Range(s.databases)) /\ Len(s.databases) <= Names
  /\ IsFiniteSet(s.instances) /\ \A i \in s.instances : i.name \in Words
  /\ IsFiniteSet(DOMAIN s.profile)
  /\ \A k \in DOMAIN s.profile :
       /\ k \in Seq(Words) /\ k # <<>>
       /\ DOMAIN s.profile[k] \subseteq Nat \ {0} /\ 1 \in DOMAIN s.profile[k]
  /\ \A k, m \in DOMAIN s.profile : \A n \in 1 .. Len(m) - 1 : k # SubSeq(m, 1, n)

(* As many values as arguments, at most.                                   *)
LEMMA FiniteImage ==
  ASSUME NEW S, IsFiniteSet(S), NEW f, DOMAIN f = S
  PROVE  IsFiniteSet({f[x] : x \in S})
<1> DEFINE T == {f[x] : x \in S}
           g == [x \in S |-> f[x]]
<1>1. g \in Surjection(S, T)
  BY DEF Surjection
<1> HIDE DEF g, T
<1>2. IsFiniteSet(T)
  BY <1>1, FS_Surjection
<1>3. QED
  BY <1>2 DEF T

(* The parameters of a file are those it has lines of.                     *)
LEMMA Parameters ==
  ASSUME NEW S, NEW lines \in Seq(S)
  PROVE  /\ DOMAIN FindMatches(lines) = {l[1] : l \in Range(lines)}
         /\ IsFiniteSet(DOMAIN FindMatches(lines))
         /\ \A k \in DOMAIN FindMatches(lines) :
              /\ DOMAIN FindMatches(lines)[k] \subseteq Nat \ {0}
              /\ 1 \in DOMAIN FindMatches(lines)[k]
<1>1. DOMAIN lines = 1 .. Len(lines) /\ Len(lines) \in Nat
  BY LenProperties
<1> DEFINE R == Range(lines)
           first == [l \in R |-> l[1]]
           D == {l[1] : l \in R}
           given(k) == Kept(lines, {l \in R : l[1] = k})
<1>2. FindMatches(lines) = [k \in D |-> [i \in DOMAIN given(k) |-> given(k)[i][2]]]
  BY DEF FindMatches
<1>3. IsFiniteSet(R)
  <2>1. R = {lines[i] : i \in DOMAIN lines}
    BY DEF Range
  <2>2. IsFiniteSet(1 .. Len(lines))
    BY <1>1, FS_Interval
  <2> HIDE DEF R
  <2>3. QED
    BY <1>1, <2>1, <2>2, FiniteImage
<1>4. IsFiniteSet(D)
  <2> HIDE DEF R
  <2>1. D = {first[l] : l \in R} /\ DOMAIN first = R
    OBVIOUS
  <2> HIDE DEF D, first
  <2>2. QED
    BY <1>3, <2>1, FiniteImage
<1>5. ASSUME NEW k \in D PROVE DOMAIN given(k) \subseteq Nat \ {0} /\ 1 \in DOMAIN given(k)
  <2> DEFINE set == {l \in R : l[1] = k}
             kept == Kept(lines, set)
  <2>1. PICK l \in R : l[1] = k
    OBVIOUS
  <2>2. l \in Range(lines) \cap set
    BY <2>1
  <2> HIDE DEF set
  <2>3. kept \in Seq(S) /\ Range(kept) = Range(lines) \cap set
    BY KeptElements, KeptRange
  <2>4. l \in Range(kept)
    BY <2>2, <2>3
  <2> HIDE DEF kept
  <2>5. DOMAIN kept = 1 .. Len(kept) /\ Len(kept) \in Nat /\ DOMAIN kept # {}
    BY <2>3, <2>4, LenProperties DEF Range
  <2>6. DOMAIN kept \subseteq Nat \ {0} /\ 1 \in DOMAIN kept
    BY <2>5
  <2>7. QED
    BY <2>6 DEF kept, set
<1> HIDE DEF given, D
<1>6. DOMAIN FindMatches(lines) = D /\ \A k \in D : DOMAIN FindMatches(lines)[k] = DOMAIN given(k)
  BY <1>2
<1>7. QED
  BY <1>4, <1>5, <1>6 DEF D

(* What a discovery may find is such a system (sapsystem.go:104-238).      *)
LEMMA FoundAreRegular ==
  ASSUME NEW h \in HostSet, NEW s \in SystemsOf(h)
  PROVE  Regular(s)
<1>1. PICK x \in Installable(h) : Discoverable(x) /\ s = NewSAPSystem(h, x)
  BY DEF SystemsOf
<1>2. /\ s.profile = FindMatches(x.profile)
      /\ s.instances = {NewSAPInstance(h, i, Type(x)) : i \in Up(x)}
      /\ s.databases = getDatabases(x)
  BY <1>1 DEF NewSAPSystem
<1>3. /\ x.profile \in Seq(Range(x.profile))
      /\ \A l \in Range(x.profile) : l[1] \in Seq(Words) /\ l[1] # <<>>
      /\ \A l, m \in Range(x.profile) : \A n \in 1 .. Len(m[1]) - 1 : l[1] # SubSeq(m[1], 1, n)
  BY <1>1, NamesAssumption DEF Discoverable, Words
<1>4. IsFiniteSet(x.instances) /\ \A i \in x.instances : i.name \in Words
  BY NamesAssumption DEF Words
<1>5. s.databases \in Seq(Range(s.databases)) /\ Len(s.databases) <= Names
  <2>1. CASE Type(x) = "Database" /\ x.tenants # Unreadable
    <3>1. s.databases = x.tenants
      BY <1>2, <2>1 DEF getDatabases
    <3>2. x.tenants \in Seq(Range(x.tenants)) /\ Len(x.tenants) <= Names
      BY <2>1, NamesAssumption
    <3>3. QED
      BY <3>1, <3>2
  <2>2. CASE ~(Type(x) = "Database" /\ x.tenants # Unreadable)
    <3>1. s.databases = <<>>
      BY <1>2, <2>2 DEF getDatabases
    <3>2. QED
      BY <3>1 DEF Names
  <2>3. QED
    BY <2>1, <2>2
<1>6. IsFiniteSet(s.instances) /\ \A i \in s.instances : i.name \in Words
  <2> DEFINE U == Up(x)
             instance == [i \in U |-> NewSAPInstance(h, i, Type(x))]
  <2>1. U \in SUBSET x.instances
    BY DEF Up
  <2> HIDE DEF U
  <2>2. IsFiniteSet(U)
    BY <1>4, <2>1, FS_Subset
  <2>3. s.instances = {instance[i] : i \in U} /\ DOMAIN instance = U
    BY <1>2 DEF U
  <2>4. \A i \in U : instance[i].name = i.name
    BY DEF NewSAPInstance
  <2>5. IsFiniteSet({instance[i] : i \in U})
    <3> HIDE DEF instance
    <3>1. QED
      BY <2>2, <2>3, FiniteImage
  <2> HIDE DEF instance
  <2>6. QED
    BY <1>4, <2>1, <2>3, <2>4, <2>5
<1>7. /\ DOMAIN s.profile = {l[1] : l \in Range(x.profile)}
      /\ IsFiniteSet(DOMAIN s.profile)
      /\ \A k \in DOMAIN s.profile :
           DOMAIN s.profile[k] \subseteq Nat \ {0} /\ 1 \in DOMAIN s.profile[k]
  BY <1>2, <1>3, Parameters
<1>8. \A k \in DOMAIN s.profile : k \in Seq(Words) /\ k # <<>>
  BY <1>3, <1>7
<1>9. \A k, m \in DOMAIN s.profile : \A n \in 1 .. Len(m) - 1 : k # SubSeq(m, 1, n)
  <2> TAKE k, m \in DOMAIN s.profile
  <2>1. PICK a \in Range(x.profile) : k = a[1]
    BY <1>7
  <2>2. PICK b \in Range(x.profile) : m = b[1]
    BY <1>7
  <2>3. QED
    BY <1>3, <2>1, <2>2
<1>10. QED
  BY <1>5, <1>6, <1>7, <1>8, <1>9 DEF Regular

(* What stands at a path of the tree of a system.                          *)
Sort(s, p) ==
  IF p = <<>> THEN "map"
  ELSE IF p[1] = Name("profile") THEN
         IF \E k \in DOMAIN s.profile :
              Front(p) = Parameter(k) \/ (p = Parameter(k) /\ Len(s.profile[k]) = 1)
           THEN "text"
           ELSE IF \E k \in DOMAIN s.profile : p = Parameter(k) THEN "list" ELSE "map"
  ELSE IF p[1] = Name("databases") THEN
         IF Len(p) = 1 THEN "list" ELSE IF Len(p) = 2 THEN "map" ELSE "text"
  ELSE IF p[1] = Name("instances") /\ Len(p) <= 2 THEN "map"
  ELSE "text"

IsOf(node, sort) ==
  \/ sort = "map" /\ node = Map
  \/ sort = "list" /\ node = List
  \/ sort = "text" /\ \E kind, value : Flagged(kind) /\ node = Scalar(kind, value)

Placed(s, v) == v[1] \in Seq(Nat) /\ IsOf(v[2], Sort(s, v[1]))

(* A value whose kind is that of its path is in its place.                 *)
LEMMA ValuesPlaced ==
  /\ \A p, s : p \in Seq(Nat) /\ Sort(s, p) = "map" => Placed(s, MapAt(p))
  /\ \A p, s, kind, value :
       p \in Seq(Nat) /\ Sort(s, p) = "text" /\ Flagged(kind) => Placed(s, <<p, Scalar(kind, value)>>)
  /\ \A p, s, value : p \in Seq(Nat) /\ Sort(s, p) = "text" => Placed(s, TextAt(p, value))
  /\ \A p, s : p \in Seq(Nat) /\ Sort(s, p) = "list" => Placed(s, <<p, List>>)
<1>1. ASSUME NEW p, NEW s, NEW kind, NEW value, p \in Seq(Nat), Sort(s, p) = "text", Flagged(kind)
      PROVE  Placed(s, <<p, Scalar(kind, value)>>)
  <2>1. IsOf(Scalar(kind, value), "text")
    BY <1>1 DEF IsOf
  <2>2. QED
    BY <1>1, <2>1 DEF Placed
<1>2. Flagged("string")
  BY DEF Flagged
<1>3. ASSUME NEW p, NEW s, NEW value, p \in Seq(Nat), Sort(s, p) = "text"
      PROVE  Placed(s, TextAt(p, value))
  BY <1>1, <1>2, <1>3 DEF TextAt
<1>4. ASSUME NEW p, NEW s, p \in Seq(Nat), Sort(s, p) = "map" PROVE Placed(s, MapAt(p))
  <2>1. IsOf(Map, "map")
    BY DEF IsOf
  <2>2. QED
    BY <1>4, <2>1 DEF Placed, MapAt
<1>5. ASSUME NEW p, NEW s, p \in Seq(Nat), Sort(s, p) = "list" PROVE Placed(s, <<p, List>>)
  <2>1. IsOf(List, "list")
    BY DEF IsOf
  <2>2. QED
    BY <1>5, <2>1 DEF Placed
<1>6. QED
  BY <1>1, <1>3, <1>4, <1>5

(* Paths of up to three segments.                                          *)
LEMMA PathsOfThree ==
  ASSUME NEW a \in Nat, NEW b \in Nat, NEW c \in Nat
  PROVE  /\ <<>> \in Seq(Nat)
         /\ <<a>> \in Seq(Nat) /\ <<a>> # <<>> /\ Len(<<a>>) = 1 /\ <<a>>[1] = a /\ Front(<<a>>) = <<>>
         /\ <<a, b>> \in Seq(Nat) /\ <<a, b>> # <<>> /\ Len(<<a, b>>) = 2 /\ <<a, b>>[1] = a
         /\ Front(<<a, b>>) = <<a>> /\ Last(<<a, b>>) = b /\ Append(<<a>>, b) = <<a, b>>
         /\ Append(<<a, b>>, c) \in Seq(Nat) /\ Append(<<a, b>>, c) # <<>>
         /\ Len(Append(<<a, b>>, c)) = 3 /\ Append(<<a, b>>, c)[1] = a
         /\ Front(Append(<<a, b>>, c)) = <<a, b>>
<1>1. <<>> \in Seq(Nat) /\ <<a>> \in Seq(Nat) /\ <<a, b>> \in Seq(Nat)
  OBVIOUS
<1>2. Append(<<>>, a) = <<a>>
  <2>1. Append(<<>>, a) \in Seq(Nat) /\ Len(Append(<<>>, a)) = 1 /\ Append(<<>>, a)[1] = a
    BY <1>1, AppendProperties
  <2>2. Len(<<a>>) = 1 /\ <<a>>[1] = a
    OBVIOUS
  <2>3. \A i \in 1 .. Len(<<a>>) : Append(<<>>, a)[i] = <<a>>[i]
    BY <2>1, <2>2
  <2>4. QED
    BY <1>1, <2>1, <2>2, <2>3, SeqEqual
<1>3. Append(<<a>>, b) = <<a, b>>
  <2>1. /\ Append(<<a>>, b) \in Seq(Nat) /\ Len(Append(<<a>>, b)) = 2
        /\ Append(<<a>>, b)[1] = a /\ Append(<<a>>, b)[2] = b
    BY <1>1, AppendProperties
  <2>2. Len(<<a, b>>) = 2 /\ <<a, b>>[1] = a /\ <<a, b>>[2] = b
    OBVIOUS
  <2>3. \A i \in 1 .. Len(<<a, b>>) : Append(<<a>>, b)[i] = <<a, b>>[i]
    BY <2>1, <2>2
  <2>4. QED
    BY <1>1, <2>1, <2>2, <2>3, SeqEqual
<1>4. Front(<<a>>) = <<>>
  BY <1>1, <1>2, Element
<1>5. Front(<<a, b>>) = <<a>> /\ Last(<<a, b>>) = b
  BY <1>1, <1>3, Element
<1>6. Append(<<a, b>>, c) \in Seq(Nat) /\ Append(<<a, b>>, c) # <<>> /\ Front(Append(<<a, b>>, c)) = <<a, b>>
  BY <1>1, Element
<1>7. /\ <<a>> # <<>> /\ Len(<<a>>) = 1 /\ <<a>>[1] = a
      /\ <<a, b>> # <<>> /\ Len(<<a, b>>) = 2 /\ <<a, b>>[1] = a
  OBVIOUS
<1>8. Len(Append(<<a, b>>, c)) = 3 /\ Append(<<a, b>>, c)[1] = a
  BY <1>1, <1>7, AppendProperties
<1>9. QED
  BY <1>1, <1>3, <1>4, <1>5, <1>6, <1>7, <1>8

(* The names of the fields, which differ.                                  *)
LEMMA FieldsDiffer ==
  /\ \A a \in Fields : Name(a) \in Nat
  /\ \A a, b \in Fields : Name(a) = Name(b) => a = b
BY NamesDiffer, NamesAssumption DEF Words

(* The fields of the system itself are in their place.                     *)
LEMMA TopPlaced ==
  ASSUME NEW s, Regular(s)
  PROVE  /\ \A v \in {MapAt(<<>>), TextAt(Path(<<"id">>), s.id), TextAt(Path(<<"sid">>), s.sid),
                      MapAt(Path(<<"profile">>))} : Placed(s, v)
         /\ Placed(s, <<Path(<<"type">>), Scalar("int", s.type)>>)
         /\ Sort(s, <<>>) = "map" /\ Sort(s, Path(<<"profile">>)) = "map"
<1>1. ASSUME NEW a \in Fields
      PROVE  /\ Path(<<a>>) = <<Name(a)>> /\ Path(<<a>>) \in Seq(Nat) /\ Path(<<a>>) # <<>>
             /\ Path(<<a>>)[1] = Name(a) /\ Front(Path(<<a>>)) = <<>> /\ Len(Path(<<a>>)) = 1
  <2>1. Path(<<a>>) = <<Name(a)>>
    BY ShortPaths, NamesAssumption DEF Words
  <2>2. QED
    BY <2>1, FieldsDiffer, PathsOfThree
<1>2. ASSUME NEW a \in {"id", "sid", "type"} PROVE Sort(s, Path(<<a>>)) = "text"
  <2>1. a \in Fields /\ "profile" \in Fields /\ "databases" \in Fields /\ "instances" \in Fields
    BY DEF Fields
  <2>2. Name(a) # Name("profile") /\ Name(a) # Name("databases") /\ Name(a) # Name("instances")
    BY <2>1, FieldsDiffer
  <2>3. QED
    BY <1>1, <2>1, <2>2 DEF Sort
<1>3. Sort(s, Path(<<"profile">>)) = "map"
  <2>1. "profile" \in Fields
    BY DEF Fields
  <2>2. \A k \in DOMAIN s.profile : k \in Seq(Words) /\ k # <<>>
    BY DEF Regular
  <2>3. \A k \in DOMAIN s.profile : Parameter(k) # <<>> /\ Parameter(k) # Path(<<"profile">>)
    <3> TAKE k \in DOMAIN s.profile
    <3>1. /\ Parameter(k) # <<>> /\ Len(Parameter(k)) = Len(k) + 1 /\ Len(k) \in Nat
      BY <2>2, ParameterPaths
    <3>2. Len(k) # 0
      BY <2>2, EmptySeq
    <3>3. Len(Path(<<"profile">>)) = 1
      BY <1>1, <2>1
    <3>4. Len(Parameter(k)) # 1
      BY <3>1, <3>2
    <3>5. QED
      BY <3>1, <3>3, <3>4
  <2>4. QED
    BY <1>1, <2>1, <2>3 DEF Sort
<1>4. Sort(s, <<>>) = "map"
  BY DEF Sort
<1>5. \A a \in Fields : Path(<<a>>) \in Seq(Nat)
  BY <1>1
<1>6. Placed(s, MapAt(<<>>)) /\ Placed(s, MapAt(Path(<<"profile">>)))
  <2>1. <<>> \in Seq(Nat) /\ Path(<<"profile">>) \in Seq(Nat)
    BY <1>5 DEF Fields
  <2>2. QED
    BY <1>3, <1>4, <2>1, ValuesPlaced
<1>7. Placed(s, TextAt(Path(<<"id">>), s.id)) /\ Placed(s, TextAt(Path(<<"sid">>), s.sid))
  BY <1>2, <1>5, ValuesPlaced DEF Fields
<1>8. Flagged("int")
  BY DEF Flagged
<1>9. Placed(s, <<Path(<<"type">>), Scalar("int", s.type)>>)
  BY <1>2, <1>5, <1>8, ValuesPlaced DEF Fields
<1>10. QED
  BY <1>3, <1>4, <1>6, <1>7, <1>9

(* Above a value that some part of the tree has is a map of that part.     *)
LEMMA InstancesPlaced ==
  ASSUME NEW s, Regular(s), NEW i \in s.instances, NEW v \in InstanceValues(i)
  PROVE  /\ Placed(s, v) /\ v[1] # <<>> /\ Sort(s, Front(v[1])) = "map"
         /\ Front(v[1]) = <<>> \/ \E w \in InstanceValues(i) : w[1] = Front(v[1])
<1>1. /\ "instances" \in Fields /\ "profile" \in Fields /\ "databases" \in Fields
      /\ "host" \in Fields /\ "number" \in Fields
  BY DEF Fields
<1>2. PICK a \in Nat : a = Name("instances") /\ a # Name("profile") /\ a # Name("databases")
  BY <1>1, FieldsDiffer
<1>3. PICK b \in Nat : b = Name(i.name)
  BY NamesDiffer DEF Regular
<1>4. PICK c \in Nat : c = Name("host")
  BY <1>1, FieldsDiffer
<1>5. PICK d \in Nat : d = Name("number")
  BY <1>1, FieldsDiffer
<1>6. Path(<<"instances">>) = <<a>> /\ Path(<<"instances", i.name>>) = <<a, b>>
  BY <1>2, <1>3, FieldNames, ShortPaths DEF Regular
<1>7. PICK x, y : x = <<a>> /\ y = <<a, b>>
  OBVIOUS
<1>8. /\ x \in Seq(Nat) /\ x # <<>> /\ Front(x) = <<>>
      /\ y \in Seq(Nat) /\ y # <<>> /\ Front(y) = x
      /\ \A e \in Nat : Append(y, e) \in Seq(Nat) /\ Append(y, e) # <<>> /\ Front(Append(y, e)) = y
  BY <1>7, PathsOfThree
<1>9. InstanceValues(i) = {MapAt(x), MapAt(y), TextAt(Append(y, c), i.host),
                           TextAt(Append(y, d), i.number)}
  BY <1>4, <1>5, <1>6, <1>7 DEF InstanceValues
<1>10. /\ Sort(s, <<>>) = "map" /\ Sort(s, x) = "map" /\ Sort(s, y) = "map"
       /\ \A e \in Nat : Sort(s, Append(y, e)) = "text"
  <2>1. Sort(s, <<>>) = "map"
    BY DEF Sort
  <2>2. Sort(s, x) = "map" /\ Sort(s, y) = "map"
    BY <1>2, <1>7, PathsOfThree DEF Sort
  <2>3. ASSUME NEW e \in Nat PROVE Sort(s, Append(y, e)) = "text"
    <3> DEFINE q == Append(y, e)
    <3>1. q # <<>> /\ Len(q) = 3 /\ q[1] = a
      BY <1>7, PathsOfThree
    <3> HIDE DEF q
    <3>2. Sort(s, q) = "text"
      BY <1>2, <3>1 DEF Sort
    <3>3. QED
      BY <3>2 DEF q
  <2>4. QED
    BY <2>1, <2>2, <2>3
<1>11. \A q, value : MapAt(q)[1] = q /\ TextAt(q, value)[1] = q
  BY DEF MapAt, TextAt
<1>12. CASE v = MapAt(x)
  <2>1. v[1] = x
    BY <1>11, <1>12
  <2>2. Placed(s, v)
    BY <1>8, <1>10, <1>12, ValuesPlaced
  <2>3. QED
    BY <1>8, <1>10, <2>1, <2>2
<1>13. CASE v = MapAt(y)
  <2>1. v[1] = y /\ MapAt(x)[1] = x /\ MapAt(x) \in InstanceValues(i)
    BY <1>9, <1>11, <1>13
  <2>2. Placed(s, v)
    BY <1>8, <1>10, <1>13, ValuesPlaced
  <2>3. QED
    BY <1>8, <1>10, <2>1, <2>2
<1>14. ASSUME NEW e \in Nat, NEW value, v = TextAt(Append(y, e), value)
       PROVE  /\ Placed(s, v) /\ v[1] # <<>> /\ Sort(s, Front(v[1])) = "map"
              /\ \E w \in InstanceValues(i) : w[1] = Front(v[1])
  <2>1. v[1] = Append(y, e) /\ MapAt(y)[1] = y /\ MapAt(y) \in InstanceValues(i)
    BY <1>9, <1>11, <1>14
  <2>2. Placed(s, v)
    BY <1>8, <1>10, <1>14, ValuesPlaced
  <2>3. QED
    BY <1>8, <1>10, <2>1, <2>2
<1>15. QED
  BY <1>9, <1>12, <1>13, <1>14

(* Tenants are in a list, one after the other.                             *)
LEMMA TenantsPlaced ==
  ASSUME NEW s, Regular(s), NEW k \in DOMAIN s.databases,
         NEW v \in TenantValues(k, s.databases[k])
  PROVE  /\ Placed(s, v) /\ v[1] # <<>> /\ Sort(s, Front(v[1])) # "text"
         /\ Front(v[1]) = <<>> \/ \E w \in TenantValues(k, s.databases[k]) : w[1] = Front(v[1])
         /\ Sort(s, Front(v[1])) = "list" =>
              /\ Sort(s, v[1]) = "map" /\ Last(v[1]) < Names
              /\ \A n \in 0 .. Last(v[1]) - 1 :
                   /\ n + 1 \in DOMAIN s.databases
                   /\ \E w \in TenantValues(n + 1, s.databases[n + 1]) :
                        w[1] = Append(Front(v[1]), n)
<1>1. "profile" \in Fields /\ "databases" \in Fields /\ "host" \in Fields /\ "database" \in Fields
  BY DEF Fields
<1>2. PICK a \in Nat : a = Name("databases") /\ a # Name("profile")
  BY <1>1, FieldsDiffer
<1>3. DOMAIN s.databases = 1 .. Len(s.databases) /\ Len(s.databases) \in Nat /\ Len(s.databases) <= Names
  BY LenProperties DEF Regular
<1>4. PICK b \in Nat : b = k - 1 /\ b < Names
  <2>1. k - 1 \in Nat /\ k - 1 < Names
    BY <1>3 DEF Names
  <2>2. QED
    BY <2>1
<1>5. PICK c \in Nat : c = Name("host")
  BY <1>1, FieldsDiffer
<1>6. PICK d \in Nat : d = Name("database")
  BY <1>1, FieldsDiffer
<1>7. Path(<<"databases">>) = <<a>>
  BY <1>2, FieldNames, ShortPaths
<1> DEFINE t == s.databases[k]
<1>8. PICK x, y : x = <<a>> /\ y = <<a, b>>
  OBVIOUS
<1>9. /\ x \in Seq(Nat) /\ x # <<>> /\ Front(x) = <<>>
      /\ y \in Seq(Nat) /\ y # <<>> /\ Front(y) = x /\ Last(y) = b
      /\ \A e \in Nat : Append(y, e) \in Seq(Nat) /\ Append(y, e) # <<>> /\ Front(Append(y, e)) = y
  BY <1>8, PathsOfThree
<1>10. TenantValues(k, t) = {<<x, List>>, MapAt(y), TextAt(Append(y, d), t.database),
                             TextAt(Append(y, c), t.host)}
  BY <1>2, <1>4, <1>5, <1>6, <1>7, <1>8 DEF TenantValues
<1>11. \A n \in Nat : MapAt(Append(x, n)) \in TenantValues(n + 1, s.databases[n + 1])
  <2> TAKE n \in Nat
  <2>1. PICK m \in Nat : m = n + 1 /\ m - 1 = n
    OBVIOUS
  <2>2. MapAt(<<a, n>>) \in TenantValues(m, s.databases[m])
    BY <1>2, <2>1 DEF TenantValues
  <2>3. Append(x, n) = <<a, n>>
    BY <1>8, PathsOfThree
  <2>4. QED
    BY <2>1, <2>2, <2>3
<1>12. Sort(s, <<>>) = "map" /\ Sort(s, x) = "list" /\ Sort(s, y) = "map"
  <2>1. Sort(s, <<>>) = "map"
    BY DEF Sort
  <2>2. QED
    BY <1>2, <1>8, <2>1, PathsOfThree DEF Sort
<1>13. ASSUME NEW e \in Nat PROVE Sort(s, Append(y, e)) = "text"
  <2> DEFINE q == Append(y, e)
  <2>1. q # <<>> /\ Len(q) = 3 /\ q[1] = a
    BY <1>8, PathsOfThree
  <2> HIDE DEF q
  <2>2. Sort(s, q) = "text"
    BY <1>2, <2>1 DEF Sort
  <2>3. QED
    BY <2>2 DEF q
<1>14. \A q, value : MapAt(q)[1] = q /\ TextAt(q, value)[1] = q /\ <<q, value>>[1] = q
  BY DEF MapAt, TextAt
<1>15. CASE v = <<x, List>>
  <2>1. v[1] = x
    BY <1>14, <1>15
  <2>2. Placed(s, v)
    BY <1>9, <1>12, <1>15, ValuesPlaced
  <2>3. QED
    BY <1>9, <1>12, <2>1, <2>2
<1>16. CASE v = MapAt(y)
  <2>1. <<x, List>> \in TenantValues(k, t) /\ <<x, List>>[1] = x
    BY <1>10, <1>14
  <2>2. v[1] = y /\ Front(v[1]) = x /\ Last(v[1]) = b
    BY <1>9, <1>14, <1>16
  <2>3. Placed(s, v) /\ v[1] # <<>>
    BY <1>9, <1>12, <1>16, <2>2, ValuesPlaced
  <2>4. ASSUME NEW n \in 0 .. b - 1
        PROVE  /\ n + 1 \in DOMAIN s.databases
               /\ \E w \in TenantValues(n + 1, s.databases[n + 1]) : w[1] = Append(x, n)
    <3>1. n \in Nat /\ n + 1 \in 1 .. Len(s.databases)
      BY <1>3, <1>4
    <3>2. MapAt(Append(x, n))[1] = Append(x, n)
      BY <1>14
    <3>3. QED
      BY <1>3, <1>11, <3>1, <3>2
  <2>5. QED
    BY <1>4, <1>12, <2>1, <2>2, <2>3, <2>4
<1>17. ASSUME NEW e \in Nat, NEW value, v = TextAt(Append(y, e), value)
       PROVE  /\ Placed(s, v) /\ v[1] # <<>> /\ Sort(s, Front(v[1])) = "map"
              /\ \E w \in TenantValues(k, t) : w[1] = Front(v[1])
  <2>1. v[1] = Append(y, e) /\ MapAt(y)[1] = y /\ MapAt(y) \in TenantValues(k, t)
    BY <1>10, <1>14, <1>17
  <2>2. Placed(s, v)
    BY <1>9, <1>13, <1>17, ValuesPlaced
  <2>3. QED
    BY <1>9, <1>12, <2>1, <2>2
<1>18. QED
  BY <1>10, <1>15, <1>16, <1>17

(* The directories above a parameter.                                      *)
LEMMA PartOfPart ==
  ASSUME NEW S, NEW k \in Seq(S), NEW n \in 1 .. Len(k)
  PROVE  /\ SubSeq(k, 1, n) \in Seq(S) /\ Len(SubSeq(k, 1, n)) = n /\ SubSeq(k, 1, n) # <<>>
         /\ SubSeq(SubSeq(k, 1, n), 1, n - 1) = SubSeq(k, 1, n - 1)
<1>1. Len(k) \in Nat /\ n \in 0 .. Len(k) /\ n - 1 \in 0 .. Len(k) /\ n - 1 \in 0 .. n /\ n # 0
  BY LenProperties
<1> DEFINE a == SubSeq(k, 1, n)
           b == SubSeq(k, 1, n - 1)
           c == SubSeq(a, 1, n - 1)
<1>2. a \in Seq(S) /\ Len(a) = n /\ \A i \in 1 .. n : a[i] = k[i]
  BY <1>1, Beginning
<1>3. b \in Seq(S) /\ Len(b) = n - 1 /\ \A i \in 1 .. n - 1 : b[i] = k[i]
  BY <1>1, Beginning
<1> HIDE DEF a
<1>4. c \in Seq(S) /\ Len(c) = n - 1 /\ \A i \in 1 .. n - 1 : c[i] = a[i]
  BY <1>1, <1>2, Beginning
<1> HIDE DEF b, c
<1>5. \A i \in 1 .. n - 1 : i \in 1 .. n
  BY <1>1
<1>6. c = b
  BY <1>2, <1>3, <1>4, <1>5, SeqEqual
<1>7. a # <<>>
  BY <1>1, <1>2, EmptySeq
<1>8. QED
  BY <1>2, <1>6, <1>7 DEF a, b, c

(* A path below the profile that is neither a parameter's nor an           *)
(* element's is a directory.                                               *)
LEMMA DirectorySort ==
  ASSUME NEW s, Regular(s), NEW q \in Seq(Words),
         \A m \in DOMAIN s.profile : m # q /\ (q # <<>> => m # SubSeq(q, 1, Len(q) - 1))
  PROVE  Sort(s, Parameter(q)) = "map"
<1> DEFINE p == Parameter(q)
<1>1. p # <<>> /\ p[1] = Name("profile")
  BY ParameterPaths
<1>2. ASSUME NEW k \in DOMAIN s.profile PROVE Front(p) # Parameter(k) /\ p # Parameter(k)
  <2>1. k \in Seq(Words) /\ Parameter(k) # <<>>
    BY ParameterPaths DEF Regular
  <2>2. p # Parameter(k)
    BY <2>1, ParametersDiffer
  <2>3. CASE q = <<>>
    <3>1. p = <<Name("profile")>>
      BY <2>3, ParameterOfNoName, ShortPaths, FieldNames
    <3>2. Name("profile") \in Nat
      BY FieldNames, NamesDiffer
    <3> HIDE DEF p
    <3>3. Front(p) = <<>>
      BY <3>1, <3>2, PathsOfThree
    <3>4. QED
      BY <2>1, <2>2, <3>3
  <2>4. CASE q # <<>>
    <3>1. /\ SubSeq(q, 1, Len(q) - 1) \in Seq(Words)
          /\ Front(p) = Parameter(SubSeq(q, 1, Len(q) - 1))
      BY <2>4, FrontOfParameter
    <3>2. k # SubSeq(q, 1, Len(q) - 1)
      BY <2>4
    <3>3. Parameter(k) # Parameter(SubSeq(q, 1, Len(q) - 1))
      BY <2>1, <3>1, <3>2, ParametersDiffer
    <3>4. QED
      BY <2>2, <3>1, <3>3
  <2>5. QED
    BY <2>3, <2>4
<1> HIDE DEF p
<1>3. Sort(s, p) = "map"
  BY <1>1, <1>2 DEF Sort
<1>4. QED
  BY <1>3 DEF p

(* The directories above a parameter are no parameters.                    *)
LEMMA DirectoriesOf ==
  ASSUME NEW s, Regular(s), NEW k \in DOMAIN s.profile, NEW n \in 0 .. Len(k) - 1
  PROVE  /\ SubSeq(k, 1, n) \in Seq(Words) /\ Parameter(SubSeq(k, 1, n)) \in Seq(Nat)
         /\ Sort(s, Parameter(SubSeq(k, 1, n))) = "map"
         /\ \A m \in DOMAIN s.profile : m # SubSeq(k, 1, n)
<1>1. k \in Seq(Words) /\ Len(k) \in Nat /\ n \in 0 .. Len(k) /\ n \in Nat
  BY LenProperties DEF Regular
<1> DEFINE q == SubSeq(k, 1, n)
<1>2. q \in Seq(Words) /\ Len(q) = n
  BY <1>1, Beginning
<1>3. ASSUME NEW m \in DOMAIN s.profile PROVE m # q
  <2>1. CASE n = 0
    <3>1. q = <<>>
      BY <1>2, <2>1, EmptySeq
    <3>2. QED
      BY <3>1 DEF Regular
  <2>2. CASE n # 0
    <3>1. n \in 1 .. Len(k) - 1
      BY <1>1, <2>2
    <3>2. QED
      BY <3>1 DEF Regular
  <2>3. QED
    BY <2>1, <2>2
<1>4. ASSUME NEW m \in DOMAIN s.profile, q # <<>> PROVE m # SubSeq(q, 1, Len(q) - 1)
  <2>1. n # 0
    BY <1>2, <1>4, EmptySeq
  <2>2. n \in 1 .. Len(k)
    BY <1>1, <2>1
  <2>3. SubSeq(q, 1, Len(q) - 1) = SubSeq(k, 1, n - 1)
    BY <1>1, <1>2, <2>2, PartOfPart
  <2>4. CASE n = 1
    <3>1. SubSeq(k, 1, n - 1) = <<>>
      <4>1. n - 1 \in 0 .. Len(k) /\ n - 1 = 0
        BY <1>1, <2>4, <2>2
      <4>2. SubSeq(k, 1, n - 1) \in Seq(Words) /\ Len(SubSeq(k, 1, n - 1)) = n - 1
        BY <1>1, <4>1, Beginning
      <4>3. QED
        BY <4>1, <4>2, EmptySeq
    <3>2. QED
      BY <2>3, <3>1 DEF Regular
  <2>5. CASE n # 1
    <3>1. n - 1 \in 1 .. Len(k) - 1
      BY <1>1, <2>1, <2>5
    <3>2. m # SubSeq(k, 1, n - 1)
      BY <3>1 DEF Regular
    <3>3. QED
      BY <2>3, <3>2
  <2>6. QED
    BY <2>4, <2>5
<1> HIDE DEF q
<1>5. Parameter(q) \in Seq(Nat) /\ Sort(s, Parameter(q)) = "map"
  BY <1>2, <1>3, <1>4, DirectorySort, ParameterPaths
<1>6. QED
  BY <1>2, <1>3, <1>5 DEF q

(* A parameter that is given once is text, any other is a list of text.    *)
LEMMA ParameterSort ==
  ASSUME NEW s, Regular(s), NEW k \in DOMAIN s.profile
  PROVE  /\ Parameter(k) \in Seq(Nat) /\ Parameter(k) # <<>>
         /\ Front(Parameter(k)) = Parameter(SubSeq(k, 1, Len(k) - 1))
         /\ Sort(s, Parameter(k)) = IF Len(s.profile[k]) = 1 THEN "text" ELSE "list"
         /\ \A n \in Nat : /\ Append(Parameter(k), n) \in Seq(Nat) /\ Append(Parameter(k), n) # <<>>
                           /\ Front(Append(Parameter(k), n)) = Parameter(k)
                           /\ Sort(s, Append(Parameter(k), n)) = "text"
<1> DEFINE p == Parameter(k)
           given == s.profile[k]
<1>1. k \in Seq(Words) /\ k # <<>> /\ Len(k) \in Nat
  BY LenProperties DEF Regular
<1>2. /\ p \in Seq(Nat) /\ p # <<>> /\ p[1] = Name("profile")
      /\ Len(p) = Len(k) + 1 /\ Front(p) = Parameter(SubSeq(k, 1, Len(k) - 1))
  BY <1>1, ParameterPaths, FrontOfParameter
<1>3. Len(k) - 1 \in 0 .. Len(k) - 1
  <2>1. Len(k) # 0
    BY <1>1, EmptySeq
  <2>2. QED
    BY <1>1, <2>1
<1>4. ASSUME NEW m \in DOMAIN s.profile PROVE Front(p) # Parameter(m) /\ (p = Parameter(m) => m = k)
  <2>1. m \in Seq(Words)
    BY DEF Regular
  <2>2. SubSeq(k, 1, Len(k) - 1) \in Seq(Words) /\ m # SubSeq(k, 1, Len(k) - 1)
    BY <1>3, DirectoriesOf
  <2>3. QED
    BY <1>1, <1>2, <2>1, <2>2, ParametersDiffer
<1> HIDE DEF p
<1>5. Sort(s, p) = IF Len(given) = 1 THEN "text" ELSE "list"
  <2>1. p = Parameter(k)
    BY DEF p
  <2>2. CASE Len(given) = 1
    BY <1>2, <2>1, <2>2 DEF Sort
  <2>3. CASE Len(given) # 1
    <3>1. ~\E m \in DOMAIN s.profile :
              Front(p) = Parameter(m) \/ (p = Parameter(m) /\ Len(s.profile[m]) = 1)
      BY <1>4, <2>3
    <3>2. QED
      BY <1>2, <2>1, <2>3, <3>1 DEF Sort
  <2>4. QED
    BY <2>2, <2>3
<1>6. ASSUME NEW n \in Nat
      PROVE  /\ Append(p, n) \in Seq(Nat) /\ Append(p, n) # <<>> /\ Front(Append(p, n)) = p
             /\ Sort(s, Append(p, n)) = "text"
  <2> DEFINE q == Append(p, n)
  <2>1. q \in Seq(Nat) /\ q # <<>> /\ Front(q) = p
    BY <1>2, Element
  <2>2. q[1] = Name("profile")
    <3>1. 1 \in 1 .. Len(p)
      BY <1>1, <1>2
    <3>2. q[1] = p[1]
      BY <1>2, <3>1, AppendProperties
    <3>3. QED
      BY <1>2, <3>2
  <2> HIDE DEF q
  <2>3. Sort(s, q) = "text"
    BY <2>1, <2>2 DEF Sort, p
  <2>4. QED
    BY <2>1, <2>3 DEF q
<1>7. QED
  BY <1>2, <1>5, <1>6 DEF p

(* The values of a parameter are in their place, below its directories.    *)
LEMMA ParametersPlaced ==
  ASSUME NEW s, Regular(s), NEW k \in DOMAIN s.profile,
         NEW v \in ParameterValues(k, s.profile[k])
  PROVE  /\ Placed(s, v) /\ v[1] # <<>> /\ Sort(s, Front(v[1])) # "text"
         /\ Len(s.profile[k]) = 1 => Sort(s, Front(v[1])) = "map"
         /\ \/ Front(v[1]) = Path(<<"profile">>)
            \/ \E w \in ParameterValues(k, s.profile[k]) : w[1] = Front(v[1])
<1> DEFINE given == s.profile[k]
           values == ParameterValues(k, given)
           above(n) == Parameter(SubSeq(k, 1, n))
           p == Parameter(k)
<1>1. k \in Seq(Words) /\ k # <<>> /\ Len(k) \in Nat /\ DOMAIN given \subseteq Nat \ {0}
  BY LenProperties DEF Regular
<1>2. Len(k) - 1 \in 0 .. Len(k) - 1
  <2>1. Len(k) # 0
    BY <1>1, EmptySeq
  <2>2. QED
    BY <1>1, <2>1
<1>3. \A q, value : MapAt(q)[1] = q /\ TextAt(q, value)[1] = q /\ <<q, value>>[1] = q
  BY DEF MapAt, TextAt
<1>4. ASSUME NEW n \in 0 .. Len(k) - 1
      PROVE  /\ above(n) \in Seq(Nat) /\ Sort(s, above(n)) = "map"
             /\ above(n) = Path(<<"profile">>) \/ \E w \in values : w[1] = above(n)
  <2>1. above(n) \in Seq(Nat) /\ Sort(s, above(n)) = "map"
    BY DirectoriesOf
  <2>2. CASE n = 0
    <3>1. 0 \in 0 .. Len(k)
      BY <1>1
    <3>2. SubSeq(k, 1, n) = <<>>
      BY <1>1, <2>2, <3>1, Beginning, EmptySeq
    <3>3. QED
      BY <2>1, <3>2, ParameterOfNoName
  <2>3. CASE n # 0
    <3>1. n \in 1 .. Len(k) - 1
      BY <1>1, <2>3
    <3>2. MapAt(above(n)) \in values
      BY <3>1 DEF ParameterValues
    <3>3. QED
      BY <1>3, <2>1, <3>2
  <2>4. QED
    BY <2>2, <2>3
<1>5. /\ p \in Seq(Nat) /\ p # <<>> /\ Front(p) = above(Len(k) - 1)
      /\ Sort(s, p) = IF Len(given) = 1 THEN "text" ELSE "list"
      /\ \A n \in Nat : /\ Append(p, n) \in Seq(Nat) /\ Append(p, n) # <<>>
                        /\ Front(Append(p, n)) = p /\ Sort(s, Append(p, n)) = "text"
  BY ParameterSort
<1>6. CASE \E n \in 1 .. Len(k) - 1 : v = MapAt(above(n))
  <2>1. PICK n \in 1 .. Len(k) - 1 : v = MapAt(above(n))
    BY <1>6
  <2>2. n \in 0 .. Len(k) - 1 /\ n - 1 \in 0 .. Len(k) - 1 /\ n \in 1 .. Len(k)
    BY <1>1
  <2> DEFINE q == SubSeq(k, 1, n)
  <2>3. q \in Seq(Words) /\ Len(q) = n /\ q # <<>> /\ SubSeq(q, 1, n - 1) = SubSeq(k, 1, n - 1)
    BY <1>1, <2>2, PartOfPart
  <2> HIDE DEF q
  <2>4. Front(Parameter(q)) = above(n - 1) /\ Parameter(q) # <<>>
    BY <2>3, FrontOfParameter, ParameterPaths
  <2>5. v[1] = Parameter(q) /\ v = MapAt(Parameter(q))
    BY <1>3, <2>1 DEF q
  <2>6. Parameter(q) \in Seq(Nat) /\ Sort(s, Parameter(q)) = "map"
    BY <1>4, <2>2 DEF q
  <2>7. Placed(s, v)
    BY <2>5, <2>6, ValuesPlaced
  <2>8. Front(v[1]) = above(n - 1) /\ v[1] # <<>>
    BY <2>4, <2>5
  <2> HIDE DEF above, values
  <2>9. QED
    BY <1>4, <2>2, <2>7, <2>8 DEF values
<1>7. ASSUME v[1] = p, Placed(s, v)
      PROVE  /\ v[1] # <<>> /\ Sort(s, Front(v[1])) = "map"
             /\ Front(v[1]) = Path(<<"profile">>) \/ \E w \in values : w[1] = Front(v[1])
  <2> HIDE DEF above, values, p
  <2>1. QED
    BY <1>2, <1>4, <1>5, <1>7
<1>8. CASE Len(given) = 1 /\ v = TextAt(p, given[1])
  <2>1. v[1] = p
    BY <1>3, <1>8
  <2>2. Placed(s, v)
    BY <1>5, <1>8, ValuesPlaced
  <2>3. QED
    BY <1>7, <2>1, <2>2
<1>9. CASE Len(given) # 1 /\ v = <<p, List>>
  <2>1. v[1] = p
    BY <1>3, <1>9
  <2>2. Placed(s, v)
    BY <1>5, <1>9, ValuesPlaced
  <2>3. QED
    BY <1>7, <2>1, <2>2
<1>10. CASE Len(given) # 1 /\ \E n \in DOMAIN given : v = TextAt(Append(p, n - 1), given[n])
  <2>1. PICK n \in DOMAIN given : v = TextAt(Append(p, n - 1), given[n])
    BY <1>10
  <2>2. PICK m \in Nat : m = n - 1
    BY <1>1
  <2>3. v[1] = Append(p, m) /\ v = TextAt(Append(p, m), given[n])
    BY <1>3, <2>1, <2>2
  <2>4. Placed(s, v)
    BY <1>5, <2>3, ValuesPlaced
  <2>5. <<p, List>> \in values
    BY <1>10 DEF ParameterValues
  <2>6. Front(v[1]) = p /\ v[1] # <<>> /\ Sort(s, p) # "text"
    BY <1>5, <1>10, <2>3
  <2>7. <<p, List>>[1] = p
    BY <1>3
  <2> HIDE DEF p, values
  <2>8. QED
    BY <1>10, <2>4, <2>5, <2>6, <2>7 DEF values
<1>11. \/ \E n \in 1 .. Len(k) - 1 : v = MapAt(above(n))
       \/ Len(given) = 1 /\ v = TextAt(p, given[1])
       \/ Len(given) # 1 /\ v = <<p, List>>
       \/ Len(given) # 1 /\ \E n \in DOMAIN given : v = TextAt(Append(p, n - 1), given[n])
  BY DEF ParameterValues
<1>12. QED
  BY <1>6, <1>8, <1>9, <1>10, <1>11

(* The whole tree of a system.                                             *)
Once(s) == \A k \in DOMAIN s.profile : Len(s.profile[k]) = 1

Has(s, p) == \E v \in Values(s) : v[1] = p

(* Every value of a system is in its place, below a map or a list that     *)
(* the tree has; a list whose elements are maps has all those before       *)
(* each of them.                                                           *)
LEMMA AllPlaced ==
  ASSUME NEW s, Regular(s), NEW v \in Values(s)
  PROVE  /\ Placed(s, v)
         /\ v[1] # <<>> =>
              /\ Has(s, Front(v[1])) /\ Sort(s, Front(v[1])) # "text"
              /\ Once(s) /\ Sort(s, Front(v[1])) = "list" =>
                   /\ Sort(s, v[1]) = "map" /\ Last(v[1]) < Names
                   /\ \A n \in 0 .. Last(v[1]) - 1 : Has(s, Append(Front(v[1]), n))
<1> DEFINE top == {MapAt(<<>>), TextAt(Path(<<"id">>), s.id), TextAt(Path(<<"sid">>), s.sid),
                   MapAt(Path(<<"profile">>))}
           type == <<Path(<<"type">>), Scalar("int", s.type)>>
<1>1. top \subseteq Values(s)
  BY ValuesAre
<1>2. Has(s, <<>>) /\ Has(s, Path(<<"profile">>))
  <2>1. MapAt(<<>>) \in Values(s) /\ MapAt(Path(<<"profile">>)) \in Values(s)
    BY <1>1
  <2>2. MapAt(<<>>)[1] = <<>> /\ MapAt(Path(<<"profile">>))[1] = Path(<<"profile">>)
    BY DEF MapAt
  <2>3. QED
    BY <2>1, <2>2 DEF Has
<1>3. \A x \in top : Placed(s, x)
  BY TopPlaced
<1>4. Placed(s, type) /\ Sort(s, <<>>) = "map" /\ Sort(s, Path(<<"profile">>)) = "map"
  BY TopPlaced
<1>5. CASE v \in top \/ v = type
  <2>1. Placed(s, v)
    BY <1>3, <1>4, <1>5
  <2>2. v[1] = <<>> \/ \E a \in Fields : v[1] = Path(<<a>>)
    BY <1>5 DEF MapAt, TextAt, Fields
  <2>3. ASSUME NEW a \in Fields PROVE Front(Path(<<a>>)) = <<>>
    <3>1. PICK b \in Nat : b = Name(a)
      BY FieldsDiffer
    <3>2. Path(<<a>>) = <<b>>
      BY <3>1, ShortPaths, NamesAssumption DEF Words
    <3>3. QED
      BY <3>2, PathsOfThree
  <2>4. v[1] # <<>> => Front(v[1]) = <<>>
    BY <2>2, <2>3
  <2> HIDE DEF top, type
  <2>5. QED
    BY <1>2, <1>4, <2>1, <2>4
<1>6. CASE \E i \in s.instances : v \in InstanceValues(i)
  <2>1. PICK i \in s.instances : v \in InstanceValues(i)
    BY <1>6
  <2>2. InstanceValues(i) \subseteq Values(s)
    BY ValuesAre
  <2>3. /\ Placed(s, v) /\ v[1] # <<>> /\ Sort(s, Front(v[1])) = "map"
        /\ Front(v[1]) = <<>> \/ \E w \in InstanceValues(i) : w[1] = Front(v[1])
    BY <2>1, InstancesPlaced
  <2>4. Has(s, Front(v[1]))
    BY <1>2, <2>2, <2>3 DEF Has
  <2>5. QED
    BY <2>3, <2>4
<1>7. CASE \E k \in DOMAIN s.profile : v \in ParameterValues(k, s.profile[k])
  <2>1. PICK k \in DOMAIN s.profile : v \in ParameterValues(k, s.profile[k])
    BY <1>7
  <2>2. ParameterValues(k, s.profile[k]) \subseteq Values(s)
    BY ValuesAre
  <2>3. /\ Placed(s, v) /\ v[1] # <<>> /\ Sort(s, Front(v[1])) # "text"
        /\ Len(s.profile[k]) = 1 => Sort(s, Front(v[1])) = "map"
        /\ \/ Front(v[1]) = Path(<<"profile">>)
           \/ \E w \in ParameterValues(k, s.profile[k]) : w[1] = Front(v[1])
    BY <2>1, ParametersPlaced
  <2>4. Has(s, Front(v[1]))
    BY <1>2, <2>2, <2>3 DEF Has
  <2>5. Once(s) => Sort(s, Front(v[1])) = "map"
    BY <2>3 DEF Once
  <2>6. QED
    BY <2>3, <2>4, <2>5
<1>8. CASE \E k \in DOMAIN s.databases : v \in TenantValues(k, s.databases[k])
  <2>1. PICK k \in DOMAIN s.databases : v \in TenantValues(k, s.databases[k])
    BY <1>8
  <2>2. \A m \in DOMAIN s.databases : TenantValues(m, s.databases[m]) \subseteq Values(s)
    BY ValuesAre
  <2>3. /\ Placed(s, v) /\ v[1] # <<>> /\ Sort(s, Front(v[1])) # "text"
        /\ Front(v[1]) = <<>> \/ \E w \in TenantValues(k, s.databases[k]) : w[1] = Front(v[1])
        /\ Sort(s, Front(v[1])) = "list" =>
             /\ Sort(s, v[1]) = "map" /\ Last(v[1]) < Names
             /\ \A n \in 0 .. Last(v[1]) - 1 :
                  /\ n + 1 \in DOMAIN s.databases
                  /\ \E w \in TenantValues(n + 1, s.databases[n + 1]) :
                       w[1] = Append(Front(v[1]), n)
    BY <2>1, TenantsPlaced
  <2>4. Has(s, Front(v[1]))
    BY <1>2, <2>2, <2>3 DEF Has
  <2>5. ASSUME Sort(s, Front(v[1])) = "list", NEW n \in 0 .. Last(v[1]) - 1
        PROVE  Has(s, Append(Front(v[1]), n))
    <3>1. PICK m \in DOMAIN s.databases :
                 \E w \in TenantValues(m, s.databases[m]) : w[1] = Append(Front(v[1]), n)
      BY <2>3, <2>5
    <3>2. QED
      BY <2>2, <3>1 DEF Has
  <2>6. QED
    BY <2>3, <2>4, <2>5
<1>9. QED
  BY <1>5, <1>6, <1>7, <1>8, ValuesAre

(* The nodes of the tree are the values of the system.                     *)
LEMMA TreeNodes ==
  ASSUME NEW s, Regular(s)
  PROVE  /\ AsTree(s) = [p \in DOMAIN AsTree(s) |-> AsTree(s)[p]]
         /\ \A p : p \in DOMAIN AsTree(s) <=> Has(s, p)
         /\ \A p \in DOMAIN AsTree(s) : p \in Seq(Nat) /\ IsOf(AsTree(s)[p], Sort(s, p))
<1> DEFINE D == {v[1] : v \in Values(s)}
           tree == AsTree(s)
           at(p) == CHOOSE v \in Values(s) : v[1] = p
<1>1. tree = [p \in D |-> at(p)[2]]
  BY DEF AsTree
<1>2. \A p : p \in D <=> Has(s, p)
  BY DEF Has
<1>3. ASSUME NEW p \in D PROVE at(p) \in Values(s) /\ at(p)[1] = p
  <2>1. \E v \in Values(s) : v[1] = p
    OBVIOUS
  <2>2. QED
    BY <2>1
<1> HIDE DEF at, tree, D
<1>4. tree = [p \in DOMAIN tree |-> tree[p]] /\ DOMAIN tree = D /\ \A p \in D : tree[p] = at(p)[2]
  BY <1>1
<1>5. ASSUME NEW p \in D PROVE p \in Seq(Nat) /\ IsOf(tree[p], Sort(s, p))
  <2>1. Placed(s, at(p))
    BY <1>3, AllPlaced
  <2>2. QED
    BY <1>3, <1>4, <2>1 DEF Placed
<1>6. QED
  BY <1>2, <1>4, <1>5 DEF tree

(* Finitely many finite sets have finitely many elements.                  *)
LEMMA FiniteUnion ==
  ASSUME NEW S, IsFiniteSet(S), NEW f, DOMAIN f = S, \A x \in S : IsFiniteSet(f[x])
  PROVE  IsFiniteSet(UNION {f[x] : x \in S})
<1> DEFINE T == {f[x] : x \in S}
<1>1. IsFiniteSet(T)
  BY FiniteImage
<1>2. \A t \in T : IsFiniteSet(t)
  OBVIOUS
<1> HIDE DEF T
<1>3. IsFiniteSet(UNION T)
  BY <1>1, <1>2, FS_UNION
<1>4. QED
  BY <1>3 DEF T

(* The tree of a system is finite.                                         *)
LEMMA ValuesAreFinite ==
  ASSUME NEW s, Regular(s), Once(s)
  PROVE  IsFiniteSet(DOMAIN AsTree(s))
<1> DEFINE I == [i \in s.instances |-> InstanceValues(i)]
           P == [k \in DOMAIN s.profile |-> ParameterValues(k, s.profile[k])]
           T == [k \in DOMAIN s.databases |-> TenantValues(k, s.databases[k])]
           A == UNION {I[i] : i \in s.instances}
           B == UNION {P[k] : k \in DOMAIN s.profile}
           C == UNION {T[k] : k \in DOMAIN s.databases}
           top == {MapAt(<<>>), TextAt(Path(<<"id">>), s.id), TextAt(Path(<<"sid">>), s.sid),
                   MapAt(Path(<<"profile">>))}
           type == <<Path(<<"type">>), Scalar("int", s.type)>>
<1>1. IsFiniteSet(s.instances) /\ IsFiniteSet(DOMAIN s.profile) /\ IsFiniteSet(DOMAIN s.databases)
  <2>1. DOMAIN s.databases = 1 .. Len(s.databases) /\ Len(s.databases) \in Nat
    BY LenProperties DEF Regular
  <2>2. PICK n \in Nat : DOMAIN s.databases = 1 .. n
    BY <2>1
  <2>3. IsFiniteSet(DOMAIN s.databases)
    BY <2>2, FS_Interval
  <2>4. IsFiniteSet(s.instances) /\ IsFiniteSet(DOMAIN s.profile)
    BY DEF Regular
  <2>5. QED
    BY <2>3, <2>4
<1>2. \A a, b, c, d : IsFiniteSet({a, b, c, d}) /\ IsFiniteSet({a})
  <2> SUFFICES ASSUME NEW a, NEW b, NEW c, NEW d PROVE IsFiniteSet({a, b, c, d}) /\ IsFiniteSet({a})
    OBVIOUS
  <2>1. IsFiniteSet({a}) /\ IsFiniteSet({b}) /\ IsFiniteSet({c}) /\ IsFiniteSet({d})
    BY FS_Singleton
  <2>2. IsFiniteSet({a} \cup {b} \cup {c} \cup {d})
    BY <2>1, FS_Union
  <2>3. {a} \cup {b} \cup {c} \cup {d} = {a, b, c, d}
    OBVIOUS
  <2>4. QED
    BY <2>1, <2>2, <2>3
<1>3. IsFiniteSet(A)
  <2>1. \A i \in s.instances : IsFiniteSet(I[i])
    BY <1>2 DEF InstanceValues
  <2> HIDE DEF I
  <2>2. DOMAIN I = s.instances
    BY DEF I
  <2>3. QED
    BY <1>1, <2>1, <2>2, FiniteUnion
<1>4. IsFiniteSet(B)
  <2>1. ASSUME NEW k \in DOMAIN s.profile PROVE IsFiniteSet(P[k])
    <3> DEFINE N == 1 .. Len(k) - 1
               above == [n \in N |-> MapAt(Parameter(SubSeq(k, 1, n)))]
               value == TextAt(Parameter(k), s.profile[k][1])
    <3>1. Len(k) \in Nat
      BY LenProperties DEF Regular
    <3>2. IsFiniteSet(N)
      BY <3>1, FS_Interval
    <3>3. IsFiniteSet({above[n] : n \in N})
      <4> HIDE DEF N
      <4>1. DOMAIN above = N
        OBVIOUS
      <4> HIDE DEF above
      <4>2. QED
        BY <3>2, <4>1, FiniteImage
    <3>4. P[k] = {above[n] : n \in N} \cup {value}
      <4>1. Len(s.profile[k]) = 1
        BY DEF Once
      <4>2. P[k] = {MapAt(Parameter(SubSeq(k, 1, n))) : n \in N} \cup {value}
        BY <4>1 DEF ParameterValues
      <4>3. {MapAt(Parameter(SubSeq(k, 1, n))) : n \in N} = {above[n] : n \in N}
        OBVIOUS
      <4>4. QED
        BY <4>2, <4>3
    <3> HIDE DEF above, N, value
    <3>5. IsFiniteSet({value})
      BY FS_Singleton
    <3>6. IsFiniteSet({above[n] : n \in N} \cup {value})
      BY <3>3, <3>5, FS_Union
    <3> HIDE DEF P
    <3>7. QED
      BY <3>4, <3>6
  <2> HIDE DEF P
  <2>2. DOMAIN P = DOMAIN s.profile
    BY DEF P
  <2>3. QED
    BY <1>1, <2>1, <2>2, FiniteUnion
<1>5. IsFiniteSet(C)
  <2>1. \A k \in DOMAIN s.databases : IsFiniteSet(T[k])
    BY <1>2 DEF TenantValues
  <2> HIDE DEF T
  <2>2. DOMAIN T = DOMAIN s.databases
    BY DEF T
  <2>3. QED
    BY <1>1, <2>1, <2>2, FiniteUnion
<1>6. IsFiniteSet(top) /\ IsFiniteSet({type})
  BY <1>2
<1> DEFINE all == top \cup {type} \cup A \cup B \cup C
<1>7. \A v \in Values(s) : v \in all
  <2> TAKE v \in Values(s)
  <2>1. \/ v \in top \/ v = type
        \/ \E i \in s.instances : v \in InstanceValues(i)
        \/ \E k \in DOMAIN s.profile : v \in ParameterValues(k, s.profile[k])
        \/ \E k \in DOMAIN s.databases : v \in TenantValues(k, s.databases[k])
    BY ValuesAre
  <2> HIDE DEF top, type
  <2>2. QED
    BY <2>1
<1> HIDE DEF A, B, C, top, type
<1>8. IsFiniteSet(all)
  BY <1>3, <1>4, <1>5, <1>6, FS_Union
<1> HIDE DEF all
<1> DEFINE path == [v \in all |-> v[1]]
<1>9. IsFiniteSet({path[v] : v \in all})
  <2>1. DOMAIN path = all
    OBVIOUS
  <2> HIDE DEF path
  <2>2. QED
    BY <1>8, <2>1, FiniteImage
<1>10. DOMAIN AsTree(s) \in SUBSET {path[v] : v \in all}
  <2>1. ASSUME NEW p \in DOMAIN AsTree(s) PROVE p \in {path[v] : v \in all}
    <3>1. PICK v \in Values(s) : v[1] = p
      BY TreeNodes DEF Has
    <3>2. QED
      BY <1>7, <3>1
  <2>2. QED
    BY <2>1
<1>11. QED
  BY <1>9, <1>10, FS_Subset

(* The tree of a system whose parameters are given once is as PutMap and   *)
(* ListMap expect one.                                                     *)
LEMMA TreeIsWellFormed ==
  ASSUME NEW s, Regular(s), Once(s)
  PROVE  WellFormed(AsTree(s))
<1> DEFINE tree == AsTree(s)
<1>1. /\ tree = [p \in DOMAIN tree |-> tree[p]]
      /\ \A p : p \in DOMAIN tree <=> Has(s, p)
      /\ \A p \in DOMAIN tree : p \in Seq(Nat) /\ IsOf(tree[p], Sort(s, p))
  BY TreeNodes
<1>2. IsFiniteSet(DOMAIN tree)
  BY ValuesAreFinite
<1> HIDE DEF tree
<1>3. \A p \in DOMAIN tree :
        /\ Sort(s, p) = "map" => tree[p] = Map
        /\ tree[p] = List => Sort(s, p) = "list"
        /\ Sort(s, p) # "text" => tree[p] \in {Map, List}
        /\ \/ tree[p] \in {Map, List}
           \/ \E kind, value : Flagged(kind) /\ tree[p] = Scalar(kind, value)
  <2> TAKE p \in DOMAIN tree
  <2>1. CASE Sort(s, p) = "map" /\ tree[p] = Map
    BY <2>1, Nodes
  <2>2. CASE Sort(s, p) = "list" /\ tree[p] = List
    BY <2>2, Nodes
  <2>3. CASE Sort(s, p) = "text" /\ \E kind, value : Flagged(kind) /\ tree[p] = Scalar(kind, value)
    <3>1. tree[p] # List
      BY <2>3, Nodes
    <3>2. QED
      BY <2>3, <3>1
  <2>4. QED
    BY <1>1, <2>1, <2>2, <2>3 DEF IsOf
<1>4. <<>> \in DOMAIN tree /\ tree[<<>>] = Map
  <2>1. MapAt(<<>>) \in Values(s) /\ MapAt(<<>>)[1] = <<>>
    BY ValuesAre DEF MapAt
  <2>2. <<>> \in DOMAIN tree
    BY <1>1, <2>1 DEF Has
  <2>3. Sort(s, <<>>) = "map"
    BY DEF Sort
  <2>4. QED
    BY <1>3, <2>2, <2>3
<1>5. ASSUME NEW p \in DOMAIN tree \ {<<>>}
      PROVE  /\ Front(p) \in DOMAIN tree /\ tree[Front(p)] \in {Map, List}
             /\ tree[Front(p)] = List =>
                  /\ tree[p] = Map /\ Last(p) < Names
                  /\ \A n \in 0 .. Last(p) - 1 : Append(Front(p), n) \in DOMAIN tree
  <2>1. PICK v \in Values(s) : v[1] = p
    BY <1>1 DEF Has
  <2>2. /\ Has(s, Front(p)) /\ Sort(s, Front(p)) # "text"
        /\ Sort(s, Front(p)) = "list" =>
             /\ Sort(s, p) = "map" /\ Last(p) < Names
             /\ \A n \in 0 .. Last(p) - 1 : Has(s, Append(Front(p), n))
    BY <2>1, AllPlaced
  <2>3. Front(p) \in DOMAIN tree /\ tree[Front(p)] \in {Map, List}
    BY <1>1, <1>3, <2>2
  <2>4. ASSUME tree[Front(p)] = List
        PROVE  /\ tree[p] = Map /\ Last(p) < Names
               /\ \A n \in 0 .. Last(p) - 1 : Append(Front(p), n) \in DOMAIN tree
    <3>1. Sort(s, Front(p)) = "list"
      BY <1>3, <2>3, <2>4
    <3>2. QED
      BY <1>1, <1>3, <2>2, <3>1
  <2>5. QED
    BY <2>3, <2>4
<1>6. DOMAIN tree \subseteq Seq(Nat)
  BY <1>1
<1>7. WellFormed(tree)
  BY <1>1, <1>2, <1>3, <1>4, <1>5, <1>6 DEF WellFormed
<1>8. QED
  BY <1>7 DEF tree

(* A parameter that is given twice is a list of scalars.                   *)
LEMMA TwiceIsScalars ==
  ASSUME NEW s, Regular(s), ~Once(s)
  PROVE  HasScalarsInLists(AsTree(s))
<1> DEFINE tree == AsTree(s)
<1>1. /\ \A p : p \in DOMAIN tree <=> Has(s, p)
      /\ \A p \in DOMAIN tree : p \in Seq(Nat) /\ IsOf(tree[p], Sort(s, p))
  BY TreeNodes
<1> HIDE DEF tree
<1>2. PICK k \in DOMAIN s.profile : Len(s.profile[k]) # 1
  BY DEF Once
<1> DEFINE given == s.profile[k]
           q == Parameter(k)
           p == Append(q, 0)
<1>3. /\ q \in Seq(Nat) /\ Sort(s, q) = "list"
      /\ p # <<>> /\ Front(p) = q /\ Sort(s, p) = "text"
  BY <1>2, ParameterSort
<1>4. ParameterValues(k, given) \subseteq Values(s)
  BY ValuesAre
<1>5. <<q, List>> \in ParameterValues(k, given) /\ TextAt(p, given[1]) \in ParameterValues(k, given)
  <2>1. 1 \in DOMAIN given /\ 1 - 1 = 0
    BY DEF Regular
  <2>2. QED
    BY <1>2, <2>1 DEF ParameterValues
<1>6. <<q, List>>[1] = q /\ TextAt(p, given[1])[1] = p
  BY DEF TextAt
<1> HIDE DEF p, q, given
<1>7. Has(s, p) /\ Has(s, q)
  BY <1>4, <1>5, <1>6 DEF Has
<1>8. p \in DOMAIN tree /\ q \in DOMAIN tree /\ tree[q] = List
  BY <1>1, <1>3, <1>7 DEF IsOf
<1>9. PICK kind, value : Flagged(kind) /\ tree[p] = Scalar(kind, value)
  BY <1>1, <1>3, <1>8 DEF IsOf
<1>10. InList(tree, p)
  BY <1>3, <1>8, Nodes DEF InList
<1>11. IsScalar(tree[p])
  <2>1. tree[p].kind = kind /\ kind # "map" /\ kind # "list"
    BY <1>9, Nodes
  <2>2. QED
    BY <2>1 DEF IsScalar
<1>12. HasScalarsInLists(tree)
  BY <1>8, <1>10, <1>11 DEF HasScalarsInLists
<1>13. QED
  BY <1>12 DEF tree

(* A reader gets what the agent stored: from what may be found on a host.  *)
LEMMA FoundIsReloaded ==
  ASSUME NEW h \in HostSet, NEW s \in SystemsOf(h)
  PROVE  s \in Reloaded \cup WithScalarLists
<1>1. Regular(s)
  BY FoundAreRegular
<1>2. s \in AllSystems
  BY DEF SystemsOf, AllSystems, Installable
<1>3. CASE Once(s)
  <2>1. Reloads(AsTree(s))
    BY <1>1, <1>3, TreeIsWellFormed, PutMapReloads
  <2>2. QED
    BY <1>2, <2>1 DEF Reloaded
<1>4. CASE ~Once(s)
  <2>1. HasScalarsInLists(AsTree(s))
    BY <1>1, <1>4, TwiceIsScalars
  <2>2. QED
    BY <1>2, <2>1 DEF WithScalarLists
<1>5. QED
  BY <1>3, <1>4

(* kv.go:104-277, sapsystem_kvstore.go:29-105: what a reader gets is the   *)
(* tree the agent put, but for empty values and lists of scalars, whatever *)
(* is installed on the hosts.                                              *)
THEOREM StoredIsReloaded == Spec => []TreesAreReloaded
<1>1. SystemsInv => TreesAreReloaded
  <2> SUFFICES ASSUME SystemsInv, NEW h \in HostSet, NEW id \in DOMAIN trees[h]
               PROVE  trees[h][id] \in Reloaded \cup WithScalarLists
    BY DEF TreesAreReloaded
  <2>1. trees[h][id] \in SystemsOf(h)
    BY DEF SystemsInv, HostInv, TreesInv
  <2>2. QED
    BY <2>1, FoundIsReloaded
<1>2. QED
  BY <1>1, SystemsInvHolds, PTL

=============================================================================
