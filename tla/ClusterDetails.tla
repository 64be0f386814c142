--------------------------- MODULE ClusterDetails ---------------------------
(***************************************************************************)
(* What Trento shows of a cluster, computed twice from what crm_mon says:  *)
(* the page of the web application loads it from Consul (web/clusters.go), *)
(* and the clusters projector makes the row that is to replace it from the *)
(* event (web/datapipeline/clusters_projector.go), to be read as a model   *)
(* of the cluster (web/entities, web/models).  The one began as a copy of  *)
(* the other: code that is still the same in both is one operator.         *)
(*                                                                         *)
(* The steps are those of the cluster: resources start, stop and fail,     *)
(* HANA changes sides, the SBD devices and their configuration change, the *)
(* tools that report of it work or do not.  NewCluster is what the agent   *)
(* would discover then (internal/cluster), Row and Page what would be made *)
(* of that.                                                                *)
(***************************************************************************)
EXTENDS Integers, Sequences, Functions, Lists

CONSTANTS Nodes,      (* in the order of crm_mon's node attributes           *)
          Layouts,    (* the resources a cluster may have, where they start  *)
          Topologies, (* the SID attributes of its SAPHanaTopology clones    *)
          HanaSID,    (* the SID of the system the attributes are of         *)
          Site,       (* of each node, hana_<sid>_site                       *)
          Addresses,  (* what an IPaddr2 resource has for a first attribute  *)
          NoAddress,  (* it has none                                         *)
          Nowhere,    (* the node of a resource that is stopped              *)
          Configs,    (* the SBD_DEVICE lines, each a sequence of devices, of *)
                      (* an SBD configuration                                *)
          NoFile,     (* there is none                                       *)
          MaxFailures,(* bound: how often the one resource that fails does    *)
          MaxChanges  (* bound: the steps there are                          *)

Parts == {"resource", "group", "clone"}
NodeSet == Range(Nodes)

ASSUME ClusterDetailsAssumption ==
  /\ Nodes \in Seq(STRING \ {""}) /\ Nodes # <<>>
  /\ \A l \in Layouts :
       l \in Seq([id : STRING, agent : STRING, part : Parts, node : NodeSet])
  /\ HanaSID \in STRING \ {""}
  /\ Site \in [NodeSet -> STRING \ {""}]
  /\ \A t \in Topologies : t \in Seq(STRING \ {""})
  /\ \A c \in Configs \ {NoFile} : c \in Seq(Seq(STRING \ {""}))
  /\ MaxFailures \in Nat /\ MaxChanges \in Nat

VARIABLES
  crm,      (* the resources: id, agent, part of the tree, node and flags    *)
  sids,     (* the SIDs in the CIB                                           *)
  address,  (* the first attribute of the IPaddr2 resources in the CIB       *)
  roles,    (* of each node, the first two fields of hana_<sid>_roles, or    *)
            (* NoRoles: then none of its HANA attributes is set              *)
  sync,     (* of each node, hana_<sid>_sync_state                           *)
  failures, (* the fail count of each resource on each node                  *)
  tools,    (* whether cibadmin, crm_mon and the corosync key can be read    *)
  config,   (* /etc/sysconfig/sbd                                            *)
  answers,  (* to sbd dump and sbd list on each device: the whole, or an     *)
            (* error after a part of it, or after nothing                    *)
  changes

detailsVars == <<crm, sids, address, roles, sync, failures, tools, config, answers, changes>>
discovery == <<tools, config, answers>>

Devices == UNION {UNION {Range(c[i]) : i \in DOMAIN c} : c \in Configs \ {NoFile}}
Tools == {"cibadmin", "crm_mon", "key"}

Primary == [health |-> "4", side |-> "P"]
Secondary == [health |-> "4", side |-> "S"]
WarningPrimary == [health |-> "2", side |-> "P"]
DownSecondary == [health |-> "1", side |-> "S"]
Neither == [health |-> "0", side |-> "N"]
NoRoles == [health |-> "", side |-> ""]

-----------------------------------------------------------------------------
(* The cluster.                                                            *)

DetailsInit ==
  /\ \E l \in Layouts :
       /\ crm = [i \in DOMAIN l |->
                   [id |-> l[i].id, agent |-> l[i].agent, part |-> l[i].part,
                    node |-> l[i].node, flags |-> {"active"}]]
       /\ failures = [n \in NodeSet |-> [r \in {l[i].id : i \in DOMAIN l} |-> 0]]
  /\ sids \in Topologies
  /\ address \in Addresses
  /\ roles = [n \in NodeSet |-> IF n = Nodes[1] THEN Primary ELSE Secondary]
  /\ sync = [n \in NodeSet |-> IF n = Nodes[1] THEN "PRIM" ELSE "SOK"]
  /\ tools = Tools
  /\ config \in Configs
  /\ answers = [d \in Devices |-> [c \in {"dump", "list"} |-> "whole"]]
  /\ changes = 0

Change == changes < MaxChanges /\ changes' = changes + 1

(* crm_mon names no node for a resource that is stopped.                   *)
Stop(i) ==
  /\ Change
  /\ crm[i].node # Nowhere
  /\ crm' = [crm EXCEPT ![i].node = Nowhere, ![i].flags = {}]
  /\ UNCHANGED <<sids, address, roles, sync, failures, discovery>>

StartOn(i, n) ==
  /\ Change
  /\ crm[i].node = Nowhere
  /\ \A j \in DOMAIN crm : crm[j].id = crm[i].id => crm[j].node # n
  /\ crm' = [crm EXCEPT ![i].node = n, ![i].flags = {"active"}]
  /\ UNCHANGED <<sids, address, roles, sync, failures, discovery>>

FailOn(i, flags) ==
  LET n == crm[i].node
  IN  /\ Change
      /\ n # Nowhere
      /\ failures[n][crm[i].id] < MaxFailures
      /\ \A m \in NodeSet : \A r \in DOMAIN failures[m] :
           failures[m][r] > 0 => m = n /\ r = crm[i].id
      /\ crm' = [crm EXCEPT ![i].flags = flags]
      /\ failures' = [failures EXCEPT ![n][crm[i].id] = @ + 1]
      /\ UNCHANGED <<sids, address, roles, sync, discovery>>

(* SAPHanaSR sets the attributes of a node.                                *)
SetAttributes(n, r, s) ==
  /\ Change
  /\ roles' = [roles EXCEPT ![n] = r]
  /\ sync' = [sync EXCEPT ![n] = s]
  /\ UNCHANGED <<crm, sids, address, failures, discovery>>

(* Pacemaker is stopped or started, a file is lost or comes back.          *)
ToolChanges(t) ==
  /\ Change
  /\ tools' = IF t \in tools THEN tools \ {t} ELSE tools \cup {t}
  /\ UNCHANGED <<crm, sids, address, roles, sync, failures, config, answers>>

ConfigChanges ==
  /\ Change
  /\ \E c \in Configs : config' = c
  /\ UNCHANGED <<crm, sids, address, roles, sync, failures, tools, answers>>

DeviceChanges(d) ==
  /\ Change
  /\ \E c \in {"dump", "list"} : \E a \in {"whole", "part", "nothing"} :
       answers' = [answers EXCEPT ![d][c] = a]
  /\ UNCHANGED <<crm, sids, address, roles, sync, failures, tools, config>>

(* All the changes there may be are done.                                  *)
Terminating == changes = MaxChanges /\ UNCHANGED detailsVars

DetailsNext ==
  \/ Terminating
  \/ \E i \in DOMAIN crm :
       \/ Stop(i)
       \/ \E n \in NodeSet : StartOn(i, n)
       \/ \E f \in {{"active", "failed"}, {"blocked", "failed"}} :
            FailOn(i, f)
  \/ \E n \in NodeSet :
       \/ SetAttributes(n, Primary, "PRIM")
       \/ SetAttributes(n, Secondary, "SOK")
       \/ SetAttributes(n, DownSecondary, "SFAIL")
       \/ SetAttributes(n, WarningPrimary, "PRIM")
       \/ SetAttributes(n, Neither, "SFAIL")
       \/ SetAttributes(n, NoRoles, "")
  \/ \E t \in Tools : ToolChanges(t)
  \/ ConfigChanges
  \/ \E d \in Devices : DeviceChanges(d)

DetailsSpec == DetailsInit /\ [][DetailsNext]_detailsVars

-----------------------------------------------------------------------------
(* What both compute.                                                      *)

Part(part) == Kept(crm, {r \in Range(crm) : r.part = part})

detectClusterType ==
  LET Has(agent) == \E i \in DOMAIN crm : crm[i].part = "clone" /\ crm[i].agent = agent
  IN  IF ~Has("SAPHanaTopology") THEN "Unknown"
      ELSE IF Has("SAPHana") THEN "HANA scale-up"
      ELSE IF Has("SAPHanaController") THEN "HANA scale-out" ELSE "Unknown"

IsHANA == detectClusterType # "Unknown"

(* Everything that may run on a node, in the order it is shown.            *)
Resources == Part("resource") \o Part("group") \o Part("clone")

Status(r) ==
  LET set == Kept(<<"active", "blocked", "failed", "failure_ignored", "orphaned">>, r.flags)
  IN  IF set = <<>> THEN "" ELSE Head(set)

(* The name of the node of a resource that is not running: Consul has an   *)
(* empty directory for the nil pointer, from which an empty Node is loaded *)
(* again; the payload of an event has null.                                *)
NodeName(r) == IF r.node = Nowhere THEN "" ELSE r.node

ResourcesOn(n) ==
  LET here == Kept(Resources, {r \in Range(Resources) : NodeName(r) = n})
  IN  [i \in DOMAIN here |-> [id |-> here[i].id, type |-> here[i].agent,
                              status |-> Status(here[i]),
                              failCount |-> failures[n][here[i].id]]]

IPsOn(n) ==
  Kept(Resources, {r \in Range(Resources) : NodeName(r) = n /\ r.agent = "IPaddr2"})
VirtualIPs(n) == [i \in DOMAIN IPsOn(n) |-> address]

(* The attributes are named after the SID, in lower case.                  *)
HasAttributes(n, sid) == sid = HanaSID /\ roles[n] # NoRoles

-----------------------------------------------------------------------------
(* What the agent discovers.                                               *)

Fencing ==
  LET resources == Part("resource")
  IN  Kept(resources, {r \in Range(resources) : r.agent = "stonith:external/sbd"})

FencingType == IF Fencing = <<>> THEN "notconfigured" ELSE "external/sbd"

IsFencingSBD == FencingType = "external/sbd"

(* getSBDConfig: an entry that is there more than once is a list.          *)
SBDDeviceEntries == IF config = NoFile THEN <<>> ELSE config

(* What a field is looked for in.  It is left empty when it is not there.  *)
Printed(d, command) == IF answers[d][command] = "nothing" THEN "" ELSE answers[d][command]

assignPatternResult(text, part) ==
  IF text = "whole" \/ (text = "part" /\ part = "first") THEN part ELSE ""

sbdDump(d) ==
  [header |-> assignPatternResult(Printed(d, "dump"), "first"),
   timeouts |-> assignPatternResult(Printed(d, "dump"), "last"),
   error |-> answers[d]["dump"] # "whole"]

(* A line for each node that has a slot; lines that are no such are left.  *)
sbdList(d) ==
  [list |-> CASE Printed(d, "list") = "whole" -> Nodes
              [] Printed(d, "list") = "part"  -> <<Nodes[1]>>
              [] OTHER                        -> <<>>,
   error |-> answers[d]["list"] # "whole"]

NewSBDDevice(d) == [device |-> d, status |-> "unknown", dump |-> <<>>, list |-> <<>>, error |-> FALSE]

(* The status is that of the dump; a device either command fails on is an  *)
(* error, even if it has printed something.                                *)
LoadDeviceData(s) ==
  LET dump == sbdDump(s.device)
      list == sbdList(s.device)
  IN  [s EXCEPT !.status = IF dump.error THEN "unhealthy" ELSE "healthy",
                !.dump = <<dump.header, dump.timeouts>>, !.list = list.list,
                !.error = dump.error \/ list.error]

(* NewSBD leaves out the devices with an error.                            *)
SBDDevices ==
  LET names == SBDDeviceEntries[1]
      loaded == [i \in DOMAIN names |-> LoadDeviceData(NewSBDDevice(names[i]))]
  IN  Kept(loaded, {d \in Range(loaded) : ~d.error})

(* The tool fails, as it does when Pacemaker is stopped, or what it prints *)
(* is no XML of the kind.                                                  *)
cibParseFails == "cibadmin" \notin tools
crmmonParseFails == "crm_mon" \notin tools
getCorosyncAuthkeyMd5Fails == "key" \notin tools

NewSBDFails == SBDDeviceEntries = <<>>

NewClusterFails ==
  \/ cibParseFails \/ crmmonParseFails \/ getCorosyncAuthkeyMd5Fails
  \/ IsFencingSBD /\ NewSBDFails

(* NewSBD takes the list of devices for a string.                          *)
NewClusterPanics == tools = Tools /\ IsFencingSBD /\ Len(SBDDeviceEntries) > 1

(* Any error of NewCluster is the same as no cluster.                      *)
Discovered == ~NewClusterFails /\ ~NewClusterPanics

-----------------------------------------------------------------------------
(* The page.                                                               *)

getHanaSID == IF sids = <<>> THEN "" ELSE sids[1]

GetHanaAttribute(n, value) == IF HasAttributes(n, getHanaSID) THEN value ELSE "-"

HANAHealthState(n) == GetHanaAttribute(n, roles[n].health)

HANAStatus(n) ==
  GetHanaAttribute(n, CASE roles[n].side = "P" -> "Primary"
                        [] roles[n].side = "S" -> "Secondary"
                        [] OTHER               -> "-")

HANASecondarySyncState ==
  LET synced == Kept(Nodes, {n \in NodeSet : HANAStatus(n) = "Secondary"})
  IN  IF synced = <<>> THEN "-" ELSE sync[Head(synced)]

(* The modes of the first node, which has them with its other attributes.  *)
HANASystemReplicationMode == GetHanaAttribute(Nodes[1], "sync")

GroupBySite ==
  LET sited == {n \in NodeSet : HasAttributes(n, getHanaSID)}
  IN  [site \in {Site[n] : n \in sited} |->
         Kept(Nodes, {n \in sited : Site[n] = site})]

stoppedResources ==
  LET resources == Part("resource")
      stopped == {r \in Range(resources) : r.node = Nowhere /\ "active" \notin r.flags}
  IN  Column(Kept(resources, stopped), "id")

(* It indexes the attributes of an IPaddr2 resource without looking.       *)
NewNodesFails == address = NoAddress /\ \E n \in NodeSet : IPsOn(n) # <<>>

(* The template asks for a field that a node does not have.                *)
TemplateFails == HANAHealthState(Nodes[1]) \in {"2", "3"}

PageFails == IsHANA /\ (NewNodesFails \/ TemplateFails)

NewNodes ==
  [k \in DOMAIN Nodes |->
     [name |-> Nodes[k], resources |-> ResourcesOn(Nodes[k]),
      virtualIPs |-> VirtualIPs(Nodes[k]), status |-> HANAStatus(Nodes[k])]]

Page ==
  [type |-> detectClusterType,
   sid |-> getHanaSID,
   health |-> HANAHealthState(Nodes[1]),
   mode |-> HANASystemReplicationMode,
   secondary |-> HANASecondarySyncState,
   fencing |-> FencingType,
   sbd |-> IF IsFencingSBD THEN SBDDevices ELSE <<>>,
   stopped |-> stoppedResources,
   nodes |-> NewNodes,
   sites |-> GroupBySite]

-----------------------------------------------------------------------------
(* The row.  X_... is X with a plausible mistake in it.                    *)

(* A system that was added last is taken for the cluster's. *)
rowSID_Last == IF sids = <<>> THEN "" ELSE sids[Len(sids)]

rowSID == IF sids = <<>> THEN "" ELSE sids[1]

(* parseClusterNodes dereferences the node of every resource; the worker   *)
(* it panics in is a goroutine nothing recovers.                           *)
RowPanics == IsHANA /\ \E i \in DOMAIN crm : crm[i].node = Nowhere

parseHANAAttribute(n, value) == IF HasAttributes(n, rowSID) THEN value ELSE ""

parseHANAStatus(n) ==
  CASE HasAttributes(n, rowSID) /\ roles[n].side = "P" -> "Primary"
    [] HasAttributes(n, rowSID) /\ roles[n].side = "S" -> "Secondary"
    [] OTHER -> ""

parseHANAHealthState(n) == parseHANAAttribute(n, roles[n].health)

parseHANASecondarySyncState ==
  LET synced == Kept(Nodes, {n \in NodeSet : parseHANAStatus(n) = "Secondary"})
  IN  IF synced = <<>> THEN "" ELSE sync[Head(synced)]

parseClusterFencingType == IF Fencing = <<>> THEN "" ELSE "external/sbd"

parseClusterStoppedResources ==
  LET resources == Part("resource")
      stopped == {r \in Range(resources) : r.node = Nowhere /\ "active" \notin r.flags}
  IN  Column(Kept(resources, stopped), "id")

(* The devices that were discovered, by name.                              *)
parseSBDDevices ==
  LET devices == IF IsFencingSBD THEN SBDDevices ELSE <<>>
  IN  Column(devices, "device")

parseClusterNodes ==
  LET Node(n) ==
        [name |-> n, resources |-> ResourcesOn(n),
         virtualIPs |-> IF address = NoAddress THEN <<>> ELSE VirtualIPs(n),
         status |-> IF sids = <<>> THEN "" ELSE parseHANAStatus(n),
         site |-> IF sids = <<>> THEN "" ELSE parseHANAAttribute(n, Site[n])]
  IN  [k \in DOMAIN Nodes |-> Node(Nodes[k])]

Details ==
  [health |-> parseHANAHealthState(Nodes[1]),
   mode |-> parseHANAAttribute(Nodes[1], "sync"),
   secondary |-> parseHANASecondarySyncState,
   fencing |-> parseClusterFencingType,
   sbd |-> parseSBDDevices,
   stopped |-> parseClusterStoppedResources,
   nodes |-> parseClusterNodes]

ClusterRow == [type |-> detectClusterType, SIDs |-> sids, details |-> Details]

(* What is made of the details that were stored: addresses and health come *)
(* from elsewhere.  A node that has no site is grouped under an empty one. *)
NodeToModel(n) ==
  [name |-> n.name, site |-> n.site, resources |-> n.resources, status |-> n.status,
   virtualIPs |-> n.virtualIPs, IPAddresses |-> <<>>, health |-> ""]

DetailsToModel(d) == [d EXCEPT !.nodes = [k \in DOMAIN @ |-> NodeToModel(@[k])]]

GroupNodesBySite(nodes) ==
  [site \in {nodes[k].site : k \in DOMAIN nodes} |->
     Column(Kept(nodes, {n \in Range(nodes) : n.site = site}), "name")]

-----------------------------------------------------------------------------
(* Properties.                                                             *)

(* A cell with a dash, or with notconfigured, is one with nothing in it.   *)
Undashed(s) == IF s \in {"-", "notconfigured"} THEN "" ELSE s

(* The row says of a cluster what the page says, as long as everything     *)
(* runs somewhere, whichever sides HANA takes, whichever attributes are    *)
(* missing and whichever devices fail, and neither has a device that is    *)
(* not healthy or that was read in part (clusters_projector.go:51-337 and  *)
(* entities/cluster.go:75-134 against clusters.go:45-275, sbd.go:61-217).  *)
RowAgreesWithPage ==
  Discovered /\ IsHANA /\ ~PageFails /\ ~RowPanics =>
    LET details == DetailsToModel(ClusterRow.details)
        sites == GroupNodesBySite(details.nodes)
    IN  /\ ClusterRow.type = Page.type
        /\ ClusterRow.SIDs # <<>> => Page.sid = ClusterRow.SIDs[1]
        /\ \A f \in {"health", "mode", "secondary", "fencing"} : details[f] = Undashed(Page[f])
        /\ details.stopped = Page.stopped
        /\ details.sbd = Column(Page.sbd, "device")
        /\ \A i \in DOMAIN Page.sbd :
             LET device == Page.sbd[i]
             IN  device.status = "healthy" /\ "" \notin Range(device.dump) /\ device.list = Nodes
        /\ \A k \in DOMAIN Nodes :
             /\ \A f \in {"name", "resources", "virtualIPs"} :
                  details.nodes[k][f] = Page.nodes[k][f]
             /\ details.nodes[k].status = Undashed(Page.nodes[k].status)
        /\ Restrict(sites, DOMAIN sites \ {""}) = Page.sites

(* clusters_projector.go:310: a row has all the stopped resources of its   *)
(* cluster; here, those that are part of no clone or group.                *)
StoppedResourcesAreListed ==
  Discovered /\ IsHANA => /\ ~RowPanics
            /\ \A i \in DOMAIN crm :
                 crm[i].part = "resource" /\ crm[i].node = Nowhere
                   => crm[i].id \in Range(parseClusterStoppedResources)

=============================================================================
