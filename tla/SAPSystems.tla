----------------------------- MODULE SAPSystems -----------------------------
(***************************************************************************)
(* SAP systems from the disks of the hosts to the pages.  An agent looks   *)
(* at what is installed below /usr/sap and asks the sapcontrol service of  *)
(* each instance (internal/sapsystem), stores the tree of each system and  *)
(* then the metadata of the host in Consul, and publishes the systems      *)
(* (agent/discovery/sapsystem.go), from which the projector upserts one    *)
(* row per instance.  The pages are made of all the hosts' trees and of    *)
(* their metadata (web/sapsystems.go, web/services/sapsystems.go).         *)
(*                                                                         *)
(* A Store under its lock is one step here (see ClustersStore), and a      *)
(* published discovery is projected at once or later (see DataPipeline).   *)
(***************************************************************************)
EXTENDS Integers, Sequences, SequencesExt, Functions, KeyValue, Lists

CONSTANTS
  Hosts,       (* in the order of Consul's catalog                           *)
  Disks,       (* of each host, what may be installed on it                  *)
  Address,     (* of each host, the address in its metadata                  *)
  Texts,       (* pairs <<a, b>> of addresses where a is a part of the text b*)
  Resolve,     (* the addresses of the names that can be resolved            *)
  KeyNames,    (* the keys and names of instances and parameters             *)
  NoProfile,   (* the default profile cannot be read                         *)
  NoId,        (* an identifier that cannot be determined                    *)
  Unreadable,  (* a file that cannot be read                                 *)
  None,        (* nothing                                                    *)
  MaxChanges,  (* bound: how often what is installed changes                 *)
  MaxFailures  (* bound: how many steps of the agents fail                   *)

HostSet == Range(Hosts)

(* What may be on a host at one time or another.                           *)
Installable(h) == UNION {Range(d) : d \in Disks[h]}

ASSUME SAPSystemsAssumption ==
  /\ Hosts \in Seq(HostSet)
  /\ DOMAIN Disks = HostSet /\ DOMAIN Address = HostSet
  /\ \A h \in HostSet : \A d \in Disks[h] : d \in Seq(Installable(h))
  /\ \A h \in HostSet : <<Address[h], Address[h]>> \in Texts
  /\ MaxChanges \in Nat /\ MaxFailures \in Nat

(* The id that HANA gives to a landscape, or the profile of an             *)
(* application, is of no other system: getUniqueIdHana and                 *)
(* getUniqueIdApplication hash what identifies one.                        *)
ASSUME IdentifiersAssumption ==
  /\ \A g, h \in HostSet : \A x \in Installable(g), y \in Installable(h) :
       x.unique = y.unique /\ x.unique # NoId => x.kind = y.kind
  /\ \A h \in HostSet : \A x \in Installable(h) : x.unique # "-"
  /\ \A h \in HostSet : \A d \in Disks[h] : \A i, j \in DOMAIN d :
       d[i].unique = d[j].unique /\ d[i].unique # NoId => i = j

(* An instance that answers is of a database or of an application          *)
(* (sapsystem.go:409-413), and no two of a system have the same number.    *)
ASSUME InstancesAssumption ==
  \A h \in HostSet : \A x \in Installable(h) :
    /\ x.kind \in {"Database", "Application"}
    /\ \A i, j \in x.instances : i.number = j.number /\ i.number # "" => i = j

(* What is in Consul below a system has these names, and a directory of    *)
(* instances and a file of tenants are finite.  A profile has no parameter *)
(* whose name is that of another's directory: SAP's names have none.       *)
Fields == {"id", "sid", "type", "profile", "instances", "databases", "host", "number", "database"}

ASSUME NamesAssumption ==
  /\ KeyNames \in Seq(Range(KeyNames)) /\ Fields \subseteq Range(KeyNames)
  /\ \A h \in HostSet : \A x \in Installable(h) :
       /\ IsFiniteSet(x.instances) /\ \A i \in x.instances : i.name \in Range(KeyNames)
       /\ x.tenants # Unreadable =>
            x.tenants \in Seq(Range(x.tenants)) /\ Len(x.tenants) <= Names
       /\ x.profile # NoProfile =>
            /\ x.profile \in Seq(Range(x.profile))
            /\ \A l \in Range(x.profile) : l[1] \in Seq(Range(KeyNames)) /\ l[1] # <<>>
            /\ \A l, m \in Range(x.profile) : \A n \in 1 .. Len(m[1]) - 1 :
                 l[1] # SubSeq(m[1], 1, n)

VARIABLES
  disk,      (* what is installed on each host                               *)
  trees,     (* of each host, the systems in Consul by their identifiers     *)
  metadata,  (* of each host, the SIDs, identifiers and types in Consul      *)
  rows,      (* sap_system_instances: from its primary key to the rest       *)
  pc,        (* of each agent: idle, storing, publishing         *)
  found,     (* of each agent, the systems of its last discovery             *)
  stored,    (* of each agent, how many of these it has stored               *)
  complete,  (* of each agent, whether that discovery stored everything      *)
  torn,      (* of each host, the ids whose last Store failed half-way       *)
  published, (* of each agent, a discovery that is still to be projected     *)
  projected, (* of each agent, the discovery that was projected last         *)
  changes, failures

vars == <<disk, trees, metadata, rows, pc, found, stored, complete, torn,
          published, projected, changes, failures>>

-----------------------------------------------------------------------------
(* Discovery: what the agent makes of an installation.                     *)

Up(x) == {i \in x.instances : i.up}

(* The type is that of the instances that answer.                          *)
Type(x) == IF Up(x) = {} THEN "Unknown" ELSE x.kind

(* The parameters of a file, each with all the values it is given.         *)
FindMatches(lines) ==
  [k \in {l[1] : l \in Range(lines)} |->
     LET given == Kept(lines, {l \in Range(lines) : l[1] = k}) IN [i \in DOMAIN given |-> given[i][2]]]

(* Without an instance that answers the type is unknown, and so is the id. *)
setSystemId(x) == IF Type(x) = "Unknown" THEN "-" ELSE x.unique

getDatabases(x) == IF Type(x) = "Database" /\ x.tenants # Unreadable THEN x.tenants ELSE <<>>

NewSAPInstance(h, i, type) ==
  [name |-> i.name, number |-> i.number, features |-> i.features, type |-> type, host |-> h]

NewSAPSystem(h, x) ==
  [id |-> setSystemId(x), sid |-> x.sid, type |-> Type(x), profile |-> FindMatches(x.profile),
   instances |-> {NewSAPInstance(h, i, Type(x)) : i \in Up(x)},
   databases |-> getDatabases(x)]

(* What is listed of each content of a disk.  A system whose profile or id *)
(* cannot be read is left out.                                             *)
Discoverable(x) == x.profile # NoProfile /\ setSystemId(x) # NoId

SystemsOn ==
  [h \in HostSet |-> [d \in Disks[h] |->
     LET readable == Kept(d, {x \in Range(d) : Discoverable(x)})
     IN  [i \in DOMAIN readable |-> NewSAPSystem(h, readable[i])]]]
NewSAPSystemsList(h) == SystemsOn[h][disk[h]]

(* The data Store puts below the id of a system, as PutMap sees it.        *)
Name(s) == Names + CHOOSE i \in DOMAIN KeyNames : KeyNames[i] = s
Path(names) == [i \in DOMAIN names |-> Name(names[i])]

TextAt(path, value) == <<path, Scalar("string", value)>>
MapAt(path) == <<path, Map>>

InstanceValues(i) ==
  LET path == Path(<<"instances", i.name>>)
  IN  {MapAt(Path(<<"instances">>)), MapAt(path),
       TextAt(Append(path, Name("host")), i.host), TextAt(Append(path, Name("number")), i.number)}

(* A parameter found twice in the profile is a list; the slashes in the    *)
(* name of one make maps of it.  Empty fields are left out.                *)
Parameter(k) == Path(<<"profile">> \o k)
ParameterValues(k, given) ==
  {MapAt(Parameter(SubSeq(k, 1, n))) : n \in 1 .. Len(k) - 1}
    \cup (IF Len(given) = 1 THEN {TextAt(Parameter(k), given[1])}
          ELSE {<<Parameter(k), List>>}
                 \cup {TextAt(Append(Parameter(k), n - 1), given[n]) : n \in DOMAIN given})

TenantValues(k, tenant) ==
  LET path == <<Name("databases"), k - 1>>
  IN  {<<Path(<<"databases">>), List>>, MapAt(path),
       TextAt(Append(path, Name("database")), tenant.database),
       TextAt(Append(path, Name("host")), tenant.host)}

Values(s) ==
  {MapAt(<<>>), TextAt(Path(<<"id">>), s.id), TextAt(Path(<<"sid">>), s.sid),
   MapAt(Path(<<"profile">>))}
    \cup (IF s.type = "Unknown" THEN {} ELSE {<<Path(<<"type">>), Scalar("int", s.type)>>})
    \cup (UNION {InstanceValues(i) : i \in s.instances})
    \cup (UNION {ParameterValues(k, s.profile[k]) : k \in DOMAIN s.profile})
    \cup (UNION {TenantValues(k, s.databases[k]) : k \in DOMAIN s.databases})

AsTree(s) == [p \in {v[1] : v \in Values(s)} |-> (CHOOSE v \in Values(s) : v[1] = p)[2]]

-----------------------------------------------------------------------------
(* Steps.                                                                  *)

NoMetadata == [sids |-> <<>>, ids |-> <<>>, types |-> <<>>]

Init ==
  /\ disk \in {d \in [HostSet -> UNION {Disks[h] : h \in HostSet}] :
                 \A h \in HostSet : d[h] \in Disks[h]}
  /\ trees = [h \in HostSet |-> [id \in {} |-> None]]
  /\ metadata = [h \in HostSet |-> NoMetadata]
  /\ rows = [key \in {} |-> None]
  /\ pc = [h \in HostSet |-> "idle"]
  /\ found = [h \in HostSet |-> <<>>]
  /\ stored = [h \in HostSet |-> 0]
  /\ complete = [h \in HostSet |-> FALSE]
  /\ torn = [h \in HostSet |-> {}]
  /\ published = [h \in HostSet |-> None]
  /\ projected = [h \in HostSet |-> None]
  /\ changes = 0 /\ failures = 0

(* Systems are installed, removed and reconfigured; instances stop.        *)
Change(h) ==
  /\ changes < MaxChanges
  /\ \E d \in Disks[h] \ {disk[h]} : disk' = [disk EXCEPT ![h] = d]
  /\ changes' = changes + 1
  /\ UNCHANGED <<trees, metadata, rows, pc, found, stored, complete, torn, published, projected, failures>>

Discover(h) ==
  /\ pc[h] = "idle"
  /\ pc' = [pc EXCEPT ![h] = "storing"]
  /\ found' = [found EXCEPT ![h] = NewSAPSystemsList(h)]
  /\ stored' = [stored EXCEPT ![h] = 0]
  /\ complete' = [complete EXCEPT ![h] = FALSE]
  /\ UNCHANGED <<disk, trees, metadata, rows, torn, published, projected, changes, failures>>

(* Store replaces the tree of this id and no other.  X_... is X with a     *)
(* mistake in it.                                                          *)
With(f, k, v) == [x \in DOMAIN f \cup {k} |-> IF x = k THEN v ELSE f[x]]

Merged(s, t) == [s EXCEPT !.instances = @ \cup {i \in t.instances : \A j \in s.instances : j.name # i.name}]
Stored_NoDelete(of, s) == With(of, s.id, IF s.id \in DOMAIN of THEN Merged(s, of[s.id]) ELSE s)
Stored(of, s) == With(of, s.id, s)

Store(h) ==
  /\ pc[h] = "storing" /\ stored[h] < Len(found[h])
  /\ LET s == found[h][stored[h] + 1]
     IN  /\ trees' = [trees EXCEPT ![h] = Stored(@, s)]
         /\ torn' = [torn EXCEPT ![h] = @ \ {s.id}]
  /\ stored' = [stored EXCEPT ![h] = @ + 1]
  /\ UNCHANGED <<disk, metadata, rows, pc, found, complete, published, projected, changes, failures>>

(* A discovery that fails ends there, until the next tick: before it has   *)
(* the lock, or after the tree was deleted.                                *)
Abandon(h) == failures < MaxFailures /\ failures' = failures + 1 /\ pc' = [pc EXCEPT ![h] = "idle"]

StoreFails(h) ==
  /\ pc[h] = "storing" /\ stored[h] < Len(found[h])
  /\ Abandon(h)
  /\ LET id == found[h][stored[h] + 1].id
     IN  \/ UNCHANGED <<trees, torn>>
         \/ /\ trees' = [trees EXCEPT ![h] = [x \in DOMAIN @ \ {id} |-> @[x]]]
            /\ torn' = [torn EXCEPT ![h] = @ \cup {id}]
  /\ UNCHANGED <<disk, metadata, rows, found, stored, complete, published, projected, changes>>

(* Empty values are not put, and what was there before stays.  Three puts, *)
(* in any order, one of which may fail.                                    *)
Metadata(h) ==
  [sids |-> Column(found[h], "sid"), ids |-> Column(found[h], "id"), types |-> Column(found[h], "type")]
Put(h, fields) ==
  [f \in DOMAIN NoMetadata |->
     IF f \in fields /\ found[h] # <<>> THEN Metadata(h)[f] ELSE metadata[h][f]]

AllStored_Early(h) == TRUE
AllStored(h) == stored[h] = Len(found[h])

StoreMetadata(h) ==
  /\ pc[h] = "storing" /\ AllStored(h)
  /\ metadata' = [metadata EXCEPT ![h] = Put(h, DOMAIN NoMetadata)]
  /\ pc' = [pc EXCEPT ![h] = "publishing"]
  /\ complete' = [complete EXCEPT ![h] = TRUE]
  /\ UNCHANGED <<disk, trees, rows, found, stored, torn, published, projected, changes, failures>>

StoreMetadataFails(h) ==
  /\ pc[h] = "storing" /\ AllStored(h)
  /\ Abandon(h)
  /\ \E put \in SUBSET DOMAIN NoMetadata : metadata' = [metadata EXCEPT ![h] = Put(h, put)]
  /\ UNCHANGED <<disk, trees, rows, found, stored, complete, torn, published, projected, changes>>

(* The discovery returns when all is stored. *)
Publish_Not(h) ==
  /\ pc[h] = "publishing"
  /\ pc' = [pc EXCEPT ![h] = "idle"]
  /\ UNCHANGED <<disk, trees, metadata, rows, found, stored, complete, torn, published, projected, changes, failures>>

Publish(h) ==
  /\ pc[h] = "publishing" /\ published[h] = None
  /\ published' = [published EXCEPT ![h] = found[h]]
  /\ pc' = [pc EXCEPT ![h] = "idle"]
  /\ UNCHANGED <<disk, trees, metadata, rows, found, stored, complete, torn, projected, changes, failures>>

PublishFails(h) ==
  /\ pc[h] = "publishing"
  /\ Abandon(h)
  /\ UNCHANGED <<disk, trees, metadata, rows, found, stored, complete, torn, published, projected, changes>>

(* One row for each instance whose number is known; an upsert that finds   *)
(* the row leaves its database host as it is.  What is printed of the      *)
(* parameter is its value, the list of its values, or that it has none.    *)
DBHost(s) == IF <<"SAPDBHOST">> \in DOMAIN s.profile THEN s.profile[<<"SAPDBHOST">>] ELSE <<"<nil>">>
Row(s, i, old) ==
  [sid |-> s.sid, type |-> s.type, features |-> i.features,
   dbHost |-> IF old # None THEN old.dbHost
              ELSE IF s.type = "Application" THEN DBHost(s) ELSE <<"">>]
RowKey_NoNumber(h, s, i) == <<h, s.id, "">>

RowKey(h, s, i) == <<h, s.id, i.number>>

storeSAPInstance(h, table, s) ==
  LET numbered == {i \in s.instances : i.number # ""}
      keys == {RowKey(h, s, i) : i \in numbered}
  IN  [k \in DOMAIN table \cup keys |->
         IF k \in keys
           THEN Row(s, CHOOSE i \in numbered : RowKey(h, s, i) = k,
                    IF k \in DOMAIN table THEN table[k] ELSE None)
           ELSE table[k]]

Upserted(h, table, list) ==
  LET upserted[n \in 0 .. Len(list)] ==
        IF n = 0 THEN table ELSE storeSAPInstance(h, upserted[n - 1], list[n])
  IN  upserted[Len(list)]

Project(h) ==
  /\ published[h] # None
  /\ rows' = Upserted(h, rows, published[h])
  /\ projected' = [projected EXCEPT ![h] = published[h]]
  /\ published' = [published EXCEPT ![h] = None]
  /\ UNCHANGED <<disk, trees, metadata, pc, found, stored, complete, torn, changes, failures>>

Tick(h) == Discover(h) \/ Store(h) \/ StoreMetadata(h) \/ Publish(h)
Failure(h) == StoreFails(h) \/ StoreMetadataFails(h) \/ PublishFails(h)

Next == \E h \in HostSet : Change(h) \/ Tick(h) \/ Failure(h) \/ Project(h)

(* Agents tick for ever, and what was published is projected.              *)
Fairness == \A h \in HostSet : WF_vars(Tick(h)) /\ WF_vars(Project(h))

Spec == Init /\ [][Next]_vars /\ Fairness

=============================================================================
