----------------------------- MODULE ReadModels -----------------------------
(***************************************************************************)
(* The static part of the data pipeline of Trento's web application: the   *)
(* discovery events the agents publish, the projectors that consume them,  *)
(* and which cells of the read-model tables a projector writes for an      *)
(* event (web/datapipeline/*_projector.go).                                *)
(*                                                                         *)
(* A cell is what one event overwrites as a unit: a group of columns of a  *)
(* row, a row, or all the rows of an agent.  The payload of an event is    *)
(* abstracted to what decides which cells it reaches: the cluster id, the  *)
(* SAP instances, and whether the strict JSON decoder accepts it.          *)
(***************************************************************************)
EXTENDS Integers

CONSTANTS Agents,       (* the agents, identified by AgentID                *)
          Clusters,     (* the cluster ids a payload may carry              *)
          NoCluster,    (* the empty cluster id                             *)
          SAPInstances, (* (system id, instance number) pairs               *)
          Events        (* the DataCollectedEvents, with their database ids *)

DiscoveryTypes == {"host", "cloud", "cluster", "subscription", "sapsystem"}

EventType == [id        : Nat \ {0},
              agent     : Agents,
              type      : DiscoveryTypes,
              cluster   : Clusters \cup {NoCluster},
              instances : SUBSET SAPInstances,
              valid     : BOOLEAN]

ASSUME EventsAssumption ==
  /\ NoCluster \notin Clusters
  /\ Events \subseteq EventType
  /\ \A e, f \in Events : e.id = f.id => e = f

-----------------------------------------------------------------------------
(* The registry and the handlers each projector registers.                 *)

Handlers ==
  [clusters           |-> {"cluster"},
   hosts              |-> {"host", "cloud", "cluster"},
   host_telemetry     |-> {"host", "cloud"},
   sles_subscriptions |-> {"subscription"},
   sapsystems         |-> {"sapsystem"}]

ProjectorIDs == DOMAIN Handlers

ProjectorsRegistry ==
  <<"clusters", "hosts", "host_telemetry", "sles_subscriptions", "sapsystems">>

(* The calls of Project, as <<projector, event>>, that do anything:        *)
(* without a handler for the type of the event Project returns at once and *)
(* no state changes.                                                       *)
Calls(projectors) ==
  {c \in projectors \X Events : c[2].type \in Handlers[c[1]]}

(* The primary key of the subscriptions table: one cursor per projector    *)
(* and agent.                                                              *)
SubscriptionKeys == ProjectorIDs \X Agents
KeyOf(c) == <<c[1], c[2].agent>>

-----------------------------------------------------------------------------
(* The cells of the read models, as <<table, owner, part>>.  The rows of   *)
(* the clusters table belong to a cluster, every other row to an agent.    *)

ClusterCells == {"clusters"} \X Clusters \X {"row"}

AgentCells ==
  UNION {{"hosts"} \X Agents \X {"host", "cloud", "cluster"},
         {"host_telemetry"} \X Agents \X {"host", "cloud"},
         {"sles_subscriptions"} \X Agents \X {"rows"},
         {"sap_system_instances"} \X Agents \X SAPInstances}

Cells == ClusterCells \cup AgentCells

(* The handler returns an error: the payload does not decode, or the       *)
(* clusters projector finds no cluster id in it.                           *)
HandlerFails(c) ==
  ~c[2].valid \/ (c[1] = "clusters" /\ c[2].cluster = NoCluster)

(* What each handler upserts.  storeHost and storeHostTelemetry update the *)
(* columns of the event's discovery type and leave the others alone;       *)
(* the subscriptions of an agent are deleted and inserted anew; the SAP    *)
(* instances in the payload are upserted and no other row is touched.      *)
ClustersWrites(e)      == {<<"clusters", e.cluster, "row">>}
HostsWrites(e)         == {<<"hosts", e.agent, e.type>>}
HostTelemetryWrites(e) == {<<"host_telemetry", e.agent, e.type>>}
SlesWrites(e)          == {<<"sles_subscriptions", e.agent, "rows">>}
SAPSystemsWrites(e)    == {<<"sap_system_instances", e.agent, i>> : i \in e.instances}

WritesOf(c) ==
  CASE c[1] = "clusters"           -> ClustersWrites(c[2])
    [] c[1] = "hosts"              -> HostsWrites(c[2])
    [] c[1] = "host_telemetry"     -> HostTelemetryWrites(c[2])
    [] c[1] = "sles_subscriptions" -> SlesWrites(c[2])
    [] c[1] = "sapsystems"         -> SAPSystemsWrites(c[2])

=============================================================================
