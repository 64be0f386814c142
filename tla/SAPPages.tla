------------------------------ MODULE SAPPages ------------------------------
(***************************************************************************)
(* The pages of SAP systems and HANA databases (web/sapsystems.go) and the *)
(* lookups behind them (web/services/sapsystems.go, hosts.go), as          *)
(* functions of what Consul has.  A page is of all the hosts' trees, old   *)
(* and new, of whatever the agents have stored so far.                     *)
(***************************************************************************)
EXTENDS SAPSystems

(* What the services find, host after host in the order of the catalog.    *)
GetSAPSystemsById(id) ==
  LET having == Kept(Hosts, {h \in HostSet : id \in DOMAIN trees[h]})
  IN  [i \in DOMAIN having |-> trees[having[i]][id]]

GetSAPSystemsByType(type) ==
  {s \in UNION {Range(trees[h]) : h \in HostSet} : s.type = type}

(* A filter of the catalog compares text: an address is also contained in  *)
(* one that is longer.                                                     *)
HostsWithAddress(address) == {h \in HostSet : <<address, Address[h]>> \in Texts}

(* Where the application's profile has a parameter, in slash-separated     *)
(* segments.  Loaded again, each but the last is a map; the lookup takes   *)
(* one for granted, and the request fails in it either way.  A parameter   *)
(* given twice is a list: no text for the host, and no tenant's name.      *)
HasDatabaseData(s) ==
  /\ <<"dbs", "hdb", "dbname">> \in DOMAIN s.profile
  /\ <<"SAPDBHOST">> \in DOMAIN s.profile /\ Len(DBHost(s)) = 1
  /\ DBHost(s)[1] \in DOMAIN Resolve

GetAttachedDatabases(s) ==
  LET names == HostsWithAddress(Resolve[DBHost(s)[1]])
      dbname == s.profile[<<"dbs", "hdb", "dbname">>]
      Matches(d) == \E k \in DOMAIN d.databases :
                      <<d.databases[k].database>> = dbname /\ d.databases[k].host \in names
      On(h) == {id \in DOMAIN trees[h] : trees[h][id].type = "Database" /\ Matches(trees[h][id])}
      matching == Kept(Hosts, {h \in HostSet : On(h) # {}})
  IN  IF matching = <<>> THEN {} ELSE On(Last(matching))   \* the last match is taken

(* The page of all systems fails with the lookup of any of them.           *)
Apps == {GetSAPSystemsById(s.id)[1] : s \in GetSAPSystemsByType("Application")}
ListFails == \E s \in Apps : ~HasDatabaseData(s)

(* The instances in the row of a system: those on every host, and of every *)
(* tree of the attached database the one that is put last under the number *)
(* of the tree.  Maps have no order, so there may be several such tables.  *)
TableIds(type) == {s.id : s \in GetSAPSystemsByType(type)}

OwnInstances(id) == UNION {s.instances : s \in Range(GetSAPSystemsById(id))}

OneOfEach(sets) == {Range(f) : f \in {g \in [DOMAIN sets -> UNION Range(sets)] :
                                        \A k \in DOMAIN sets : g[k] \in sets[k]}}

AttachedInstances(id) ==
  LET database == GetSAPSystemsById(id)
      running == Kept(database, {s \in Range(database) : s.instances # {}})
  IN  OneOfEach([k \in DOMAIN running |-> running[k].instances])

Tables(id, type) ==
  LET attached == IF type = "Application" THEN GetAttachedDatabases(GetSAPSystemsById(id)[1]) ELSE {}
  IN  IF attached = {} THEN {OwnInstances(id)}
      ELSE {OwnInstances(id) \cup picked : picked \in UNION {AttachedInstances(d) : d \in attached}}

(* The hosts whose metadata has the id.  The lookup filters on the meta of *)
(* the Consul node, which follows the metadata the agent stores only once  *)
(* consul-template has run (module Agent); here it has.                    *)
GetHostsBySystemId(id) == {h \in HostSet : id \in Range(metadata[h].ids)}

(* The page of one system, of the first of its trees, if it is found.      *)
ResourcePage(id) ==
  IF GetSAPSystemsById(id) = <<>> THEN {}
  ELSE {[system |-> Head(GetSAPSystemsById(id)), hosts |-> GetHostsBySystemId(id)]}

-----------------------------------------------------------------------------
(* Properties.                                                             *)

(* Once a discovery has stored what it found, the page lists each of its   *)
(* systems that has an instance that answers, with the instances it has    *)
(* now on that host and no others, whatever the trees of other hosts and   *)
(* of former systems are (sapsystem_kvstore.go:29-53, sapsystems.go:54-139).*)
DiscoveryIsShown ==
  ~ListFails =>
    \A h \in HostSet : complete[h] =>
      \A s \in Range(found[h]) : s.type # "Unknown" =>
        /\ s.id \in TableIds(s.type)
        /\ \A table \in Tables(s.id, s.type) :
             {i \in table : i.host = h /\ i.type = s.type} = s.instances

(* Every system the metadata of a host lead to has a page, and each host   *)
(* that it names has the tree of that system, unless a Store of it failed  *)
(* after the old one was deleted: trees are stored before the metadata     *)
(* that lead to them (sapsystem.go:40-52, web/sapsystems.go:331-363).      *)
HostsHaveTheirSystem ==
  \A h \in HostSet : \A id \in Range(metadata[h].ids) \ torn[h] :
    \E page \in ResourcePage(id) :
      \A g \in page.hosts : id \in DOMAIN trees[g] \cup torn[g]

(* When pages and read model were made from the same discovery, every      *)
(* instance on the page whose number is known has its row, with the same   *)
(* SID, type and features (sap_systems_projector.go:29-71).                *)
RowsCoverPages ==
  \A h \in HostSet : complete[h] /\ projected[h] # None /\ projected[h] = found[h] =>
    \A s \in Range(found[h]) : \A i \in trees[h][s.id].instances : i.number # "" =>
      LET key == <<h, s.id, i.number>>
      IN  key \in DOMAIN rows /\ rows[key].sid = s.sid /\ rows[key].type = s.type
                              /\ rows[key].features = i.features

(* What a discovery can find, and which of it Consul gives back as it was  *)
(* put but for empty values (kv.go:104-277).                               *)
AllSystems ==
  UNION {{NewSAPSystem(h, x) : x \in UNION {Range(d) : d \in Disks[h]}} : h \in HostSet}
Reloaded == {s \in AllSystems : Reloads(AsTree(s))}
WithScalarLists == {s \in AllSystems : HasScalarsInLists(AsTree(s))}

(* A reader gets the tree the agent stored.                                *)
TreesAreReloaded ==
  \A h \in HostSet : \A id \in DOMAIN trees[h] : trees[h][id] \in Reloaded \cup WithScalarLists

(* When nothing changes and fails any more, the trees, the identifiers in  *)
(* the metadata and the rows are those of what is installed, but that an   *)
(* empty list leaves the metadata as they were, and that systems without   *)
(* an id share the last one's tree.                                        *)
Current(h) ==
  LET now == NewSAPSystemsList(h)
  IN  /\ now # <<>> => metadata[h].ids = Column(now, "id")
      /\ \A s \in Range(now) : s.id # "-" =>
           /\ s.id \in DOMAIN trees[h] /\ trees[h][s.id] = s
           /\ \A i \in s.instances : i.number # "" => <<h, s.id, i.number>> \in DOMAIN rows

PagesCatchUp == <>[](\A h \in HostSet : Current(h))

=============================================================================
