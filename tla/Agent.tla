-------------------------------- MODULE Agent --------------------------------
(***************************************************************************)
(* The agent of a host (agent/agent.go), from its registration with Consul *)
(* to the copies its discoveries leave: the trees and the metadata in the  *)
(* key-value store of Consul, the meta-data of the Consul node that        *)
(* consul-template renders from them (agent/consultemplate.go), and the    *)
(* read models of the web application, which the collector's client        *)
(* publishes to (agent/discovery/).  Its service in Consul has a check     *)
(* with a TTL of two discovery periods, which every tick updates.          *)
(*                                                                         *)
(* What a discovery finds is the version of its topic on the host.  A      *)
(* Store is one step here; its protocol is that of module ClustersStore.   *)
(* The data pipeline projects what was published in any order, skipping    *)
(* what is older than its cursor; its protocol is that of module           *)
(* DataPipeline, for an agent that has been projected before.  The         *)
(* heartbeat loop is module Heartbeat.                                     *)
(***************************************************************************)
EXTENDS Sequences, Functions, Discovery

CONSTANTS Discoveries,  (* the discoveries of a tick, in order                *)
          Projectors,   (* the projectors under study                         *)
          Absent,       (* the versions at which an optional topic is not on  *)
                        (* the host: no cluster, no SAP system, no cloud      *)
          CloudProvider,(* that of the host, when it is in a cloud            *)
          Fallible,     (* bound: the questions that may not be answered      *)
          MaxVersion,   (* bound: the versions a topic goes through           *)
          MaxPending,   (* bound: events of the agent in the data pipeline    *)
          MaxFaults     (* bound: errors, overruns, crashes and stops         *)

Topics == Range(Discoveries)
Versions == 1..MaxVersion

Optional     == {"cluster", "sapsystem", "cloud"}
WithTree     == {"cluster", "sapsystem", "cloud"}
WithMetadata == {"cluster", "sapsystem", "cloud", "host"}

(* The topics each projector has a handler for; one cursor orders them.    *)
Handlers == [clusters           |-> {"cluster"},
             hosts              |-> {"host", "cloud", "cluster"},
             host_telemetry     |-> {"host", "cloud"},
             sles_subscriptions |-> {"subscription"},
             sapsystems         |-> {"sapsystem"}]

ASSUME AgentAssumption ==
  /\ Discoveries \in Seq(Optional \cup {"host", "subscription"}) /\ Discoveries # <<>>
  /\ Projectors \subseteq DOMAIN Handlers
  /\ Absent \subseteq Versions \ {1}
  /\ CloudProvider \in {"azure", "aws", "gcp"}
  /\ Fallible \subseteq Questions \ (LeftEmpty(Questions) \cup Panics(Questions))
  /\ MaxVersion \in Nat \ {0} /\ MaxPending \in Nat \ {0} /\ MaxFaults \in Nat

VARIABLES
  fact,      (* the version of each topic on the host                        *)
  broken,    (* the questions the host does not answer                       *)
  pc,        (* where the agent is; "wait" is the select of Repeat           *)
  at,        (* the discovery of the tick it is at                           *)
  failed,    (* the status of the tick is no longer passing                  *)
  found,     (* the version the discovery has found                          *)
  ticker,    (* it exists, from the end of the first tick on                 *)
  due,       (* a tick waits in its channel                                  *)
  stopping,  (* the context is done                                          *)
  check,     (* the status of the service's check in Consul                  *)
  silent,    (* the periods since it was last updated                        *)
  tree, metadata,  (* the version of each topic in the key-value store       *)
  template,  (* the runner of consul-template                                *)
  file,      (* what it has rendered last                                    *)
  rendered,  (* the loop has not heard of it yet                             *)
  node,      (* the version of each topic in the meta-data of the node       *)
  late,      (* requests the agent has given up and the server has not seen  *)
  pending,   (* the events of each projector not projected yet, by id        *)
  shown,     (* the version of each topic each projector has written         *)
  excused,   (* history: since the last update a fault disturbed the ticks   *)
  trouble,   (* history: a discovery of the tick has returned an error       *)
  good,      (* history: the periods since the last tick without one         *)
  inherited, (* history: the check has its status from before the last start *)
  stale,     (* history: the last reload failed, or there is no more runner  *)
  faults

host == <<fact, broken>>
tick == <<at, failed, found, trouble>>
loop == <<pc, ticker, due, stopping>>
consul == <<check, silent>>
kv == <<tree, metadata>>
runner == <<template, file, rendered, stale>>
pipeline == <<late, pending, shown>>
history == <<excused, good, inherited>>
vars == <<host, loop, tick, consul, kv, runner, node, pipeline, history, faults>>

Topic == Discoveries[at]
There(t, v) == t \in Optional => v \notin Absent
InTick == pc \in {"discover", "store", "metadata", "publish", "update"}
Running == InTick \/ pc = "wait"
GoTo(l) == pc' = l

Fault == faults < MaxFaults /\ faults' = faults + 1

NotRendered == [t \in Topics |-> -1]

-----------------------------------------------------------------------------

Init ==
  /\ fact = [t \in Topics |-> 1] /\ broken = {}
  /\ pc = "down" /\ ticker = FALSE /\ due = FALSE /\ stopping = FALSE
  /\ at = 1 /\ failed = FALSE /\ found = 0 /\ trouble = FALSE
  /\ check = "none" /\ silent = 0
  /\ tree = [t \in Topics |-> 0] /\ metadata = [t \in Topics |-> 0]
  /\ template = "off" /\ file = NotRendered /\ rendered = FALSE /\ stale = FALSE
  /\ node = [t \in Topics |-> 0]
  /\ late = {}
  /\ pending = [p \in Projectors |-> <<>>]
  /\ shown = [p \in Projectors |-> [t \in Topics |-> 0]]
  /\ excused = FALSE /\ good = 3 /\ inherited = FALSE
  /\ faults = 0

(* The host.                                                               *)

Change(t) ==
  /\ fact[t] < MaxVersion
  /\ fact' = [fact EXCEPT ![t] = @ + 1]
  /\ UNCHANGED <<broken, loop, tick, consul, kv, runner, node, pipeline, history, faults>>

(* A command fails, a file or a service is gone, until it is put right.    *)
Break(question) ==
  /\ question \notin broken
  /\ Fault
  /\ broken' = broken \cup {question}
  /\ UNCHANGED <<fact, loop, tick, consul, kv, runner, node, pipeline, history>>

Repair(question) ==
  /\ question \in broken
  /\ broken' = broken \ {question}
  /\ UNCHANGED <<fact, loop, tick, consul, kv, runner, node, pipeline, history, faults>>

(* systemd starts the agent, or an administrator does.                     *)
Boot ==
  /\ pc = "down"
  /\ GoTo("register")
  /\ UNCHANGED <<host, ticker, due, stopping, tick, consul, kv, runner, node, pipeline,
                 history, faults>>

(* A period goes by.  Unless the tick overruns it, no tick is due while it *)
(* does, and the TTL has run out once it has done so twice.                *)
Elapse ==
  /\ pc = "wait" => ~due /\ ~stopping
  /\ silent = 2 => check \in {"none", "expired"}
  /\ IF InTick THEN Fault /\ excused' = TRUE ELSE UNCHANGED <<excused, faults>>
  /\ due' = ticker
  /\ silent' = IF silent = 2 THEN 2 ELSE silent + 1
  /\ good' = IF good = 3 THEN 3 ELSE good + 1
  /\ UNCHANGED <<host, pc, ticker, stopping, tick, check, kv, runner, node, pipeline,
                 inherited>>

(* Operators named X_... are X with a plausible mistake in it, which the   *)
(* properties have to notice.                                              *)

(* A TTL of one period. *)
Expire_OnePeriod ==
  /\ check \in {"warning", "passing", "critical"} /\ silent >= 1
  /\ check' = "expired"
  /\ UNCHANGED <<host, loop, tick, silent, kv, runner, node, pipeline, history, faults>>

Expire ==
  /\ check \in {"warning", "passing", "critical"} /\ silent = 2
  /\ check' = "expired"
  /\ UNCHANGED <<host, loop, tick, silent, kv, runner, node, pipeline, history, faults>>

-----------------------------------------------------------------------------
(* Start, Stop, and the loop of the ticks.                                 *)

NoTick == at' = 1 /\ failed' = FALSE /\ found' = 0 /\ trouble' = FALSE
BeginTick == GoTo("discover") /\ NoTick

(* The check is registered as warning; one that Consul knows already may   *)
(* keep its status.                                                        *)
Register ==
  /\ pc = "register"
  /\ \/ check' = "warning" /\ inherited' = FALSE
     \/ check # "none" /\ UNCHANGED check /\ inherited' = TRUE
  /\ silent' = 0
  /\ BeginTick
  /\ template' = "running"
  /\ UNCHANGED <<host, ticker, due, stopping, kv, file, rendered, stale, node, pipeline,
                 excused, good, faults>>

RegisterFails ==
  /\ pc = "register"
  /\ Fault
  /\ GoTo("down")
  /\ UNCHANGED <<host, ticker, due, stopping, tick, consul, kv, runner, node, pipeline,
                 history>>

Tick ==
  /\ pc = "wait" /\ due
  /\ due' = FALSE
  /\ BeginTick
  /\ UNCHANGED <<host, ticker, stopping, consul, kv, runner, node, pipeline, history,
                 faults>>

(* SIGTERM: the context is done, which the loops see when they wait.       *)
Stop ==
  /\ Running /\ ~stopping
  /\ Fault
  /\ stopping' = TRUE
  /\ UNCHANGED <<host, pc, ticker, due, tick, consul, kv, runner, node, pipeline, history>>

Gone(l) ==
  /\ GoTo(l) /\ ticker' = FALSE /\ due' = FALSE
  /\ template' = "off" /\ rendered' = FALSE /\ stale' = FALSE
  /\ file' = NotRendered

(* All loops have returned, the others before that of the discoveries.     *)
LoopsEnd ==
  /\ pc = "wait" /\ stopping
  /\ Gone("deregister")
  /\ UNCHANGED <<host, stopping, tick, consul, kv, node, pipeline, history, faults>>

Deregister ==
  /\ pc = "deregister"
  /\ \/ check' = "none" /\ UNCHANGED <<excused, faults>>
     \/ Fault /\ excused' = TRUE /\ UNCHANGED check
  /\ GoTo("down") /\ stopping' = FALSE
  /\ UNCHANGED <<host, ticker, due, tick, silent, kv, runner, node, pipeline, good,
                 inherited>>

(* Killed, or dead of a panic, as that of the host's discovery whose       *)
(* questions have no answer (Panics of Discovery): the service stays       *)
(* registered; a request on its way may still get to the server.           *)
Crash ==
  /\ pc # "down"
  /\ Fault
  /\ Gone("down") /\ stopping' = FALSE
  /\ NoTick
  /\ \/ pc = "publish" /\ late' = late \cup {[topic |-> Topic, version |-> found]}
     \/ UNCHANGED late
  /\ excused' = TRUE
  /\ UNCHANGED <<host, consul, kv, node, pending, shown, good, inherited>>

-----------------------------------------------------------------------------
(* A tick.                                                                 *)

(* The last discovery is left out. *)
NextDiscovery_OffByOne ==
  /\ found' = 0
  /\ IF at + 1 >= Len(Discoveries) THEN GoTo("update") /\ UNCHANGED at
                                    ELSE GoTo("discover") /\ at' = at + 1

NextDiscovery ==
  /\ found' = 0
  /\ IF at = Len(Discoveries) THEN GoTo("update") /\ UNCHANGED at
                              ELSE GoTo("discover") /\ at' = at + 1

(* The status is that of the last discovery. *)
Fail_Last == failed' = (at = Len(Discoveries)) /\ NextDiscovery

(* A discovery returns an error: the status of the tick is critical, and   *)
(* the next one is run.                                                    *)
Fail == failed' = TRUE /\ NextDiscovery

Fails == Fault /\ Fail /\ trouble' = TRUE

CannotLook ==
  LookFails(Topic, IF There("cloud", fact[Topic]) THEN CloudProvider ELSE None, broken)

LookAt(noMore) ==
  /\ pc = "discover" /\ ~CannotLook
  /\ IF noMore THEN NextDiscovery
     ELSE /\ found' = fact[Topic]
          /\ GoTo(IF Topic \notin WithMetadata THEN "publish"
                  ELSE IF Topic \in WithTree /\ (Topic = "cloud" \/ There(Topic, fact[Topic]))
                       THEN "store" ELSE "metadata")
          /\ UNCHANGED at
  /\ UNCHANGED <<host, ticker, due, stopping, failed, trouble, consul, kv, runner, node,
                 pipeline, history, faults>>

(* The topic is looked at.  Without a cluster nothing else is done, nor is *)
(* anything stored for no SAP system.                                      *)
Discover == LookAt(Topic = "cluster" /\ ~There(Topic, fact[Topic]))

(* It cannot be looked at; that of the cluster is taken for no cluster.    *)
DiscoverFails ==
  /\ pc = "discover" /\ CannotLook
  /\ IF Topic = "cluster" THEN NextDiscovery /\ UNCHANGED <<failed, trouble>>
                          ELSE Fail /\ trouble' = TRUE
  /\ UNCHANGED <<host, ticker, due, stopping, consul, kv, runner, node, pipeline,
                 history, faults>>

Store ==
  /\ pc = "store"
  /\ tree' = [tree EXCEPT ![Topic] = found]
  /\ GoTo("metadata")
  /\ UNCHANGED <<host, ticker, due, stopping, tick, consul, metadata, runner, node,
                 pipeline, history, faults>>

(* Before anything is written, or after the old tree has been deleted.     *)
StoreFails ==
  /\ pc = "store"
  /\ \/ UNCHANGED tree
     \/ tree' = [tree EXCEPT ![Topic] = 0]
  /\ Fails
  /\ UNCHANGED <<host, ticker, due, stopping, consul, metadata, runner, node,
                 pipeline, history>>

(* Fields without a value are left out, and what they had stays.           *)
StoreMetadata ==
  /\ pc = "metadata"
  /\ metadata' = IF There(Topic, found) THEN [metadata EXCEPT ![Topic] = found] ELSE metadata
  /\ GoTo("publish")
  /\ UNCHANGED <<host, ticker, due, stopping, tick, consul, tree, runner, node, pipeline,
                 history, faults>>

StoreMetadataFails ==
  /\ pc = "metadata"
  /\ Fails
  /\ UNCHANGED <<host, ticker, due, stopping, consul, kv, runner, node, pipeline,
                 history>>

(* The collector stores an event, with the next id, for the projectors.    *)
Collect(t, v, isLate) ==
  /\ \A p \in Projectors : t \in Handlers[p] => Len(pending[p]) < MaxPending
  /\ pending' = [p \in Projectors |->
                   IF t \in Handlers[p]
                   THEN Append(pending[p], [topic |-> t, version |-> v, late |-> isLate])
                   ELSE pending[p]]

GiveUp == late' = late \cup {[topic |-> Topic, version |-> found]}

(* The discovery goes on before the server has answered. *)
Publish_Async ==
  /\ pc = "publish"
  /\ pending' = [p \in Projectors |->
                   IF Topic \in Handlers[p] /\ Len(pending[p]) < MaxPending
                   THEN <<[topic |-> Topic, version |-> found, late |-> FALSE]>> \o pending[p]
                   ELSE pending[p]]
  /\ NextDiscovery
  /\ UNCHANGED <<host, ticker, due, stopping, failed, trouble, consul, kv, runner,
                 node, late, shown, history, faults>>

Publish ==
  /\ pc = "publish"
  /\ Collect(Topic, found, FALSE)
  /\ NextDiscovery
  /\ UNCHANGED <<host, ticker, due, stopping, failed, trouble, consul, kv, runner,
                 node, late, shown, history, faults>>

(* There is no answer, or one that is not 202: the event is not stored,    *)
(* has been, or may still be.                                              *)
PublishFails ==
  /\ pc = "publish"
  /\ \/ UNCHANGED <<late, pending>>
     \/ Collect(Topic, found, FALSE) /\ UNCHANGED late
     \/ GiveUp /\ UNCHANGED pending
  /\ Fails
  /\ UNCHANGED <<host, ticker, due, stopping, consul, kv, runner, node, shown,
                 history>>

AfterTick ==
  /\ GoTo("wait")
  /\ ticker' = TRUE
  /\ good' = IF trouble THEN good ELSE 0
  /\ NoTick

UpdateTTL ==
  /\ pc = "update"
  /\ check' = IF failed THEN "critical" ELSE "passing"
  /\ silent' = 0
  /\ excused' = FALSE /\ inherited' = FALSE
  /\ AfterTick
  /\ UNCHANGED <<host, due, stopping, kv, runner, node, pipeline, faults>>

UpdateTTLFails ==
  /\ pc = "update"
  /\ Fault
  /\ excused' = TRUE
  /\ AfterTick
  /\ UNCHANGED <<host, due, stopping, consul, kv, runner, node, pipeline, inherited>>

-----------------------------------------------------------------------------
(* consul-template: its runner renders the metadata of the host, once when *)
(* it starts and whenever they change, until it has failed to ask Consul   *)
(* too often; the agent's loop has the Consul agent reload the file.       *)

Render ==
  /\ template = "running"
  /\ file # metadata
  /\ file' = metadata /\ rendered' = TRUE
  /\ UNCHANGED <<host, loop, tick, consul, kv, template, stale, node, pipeline, history,
                 faults>>

RunnerGivesUp ==
  /\ template = "running"
  /\ Fault
  /\ template' = "gone" /\ stale' = TRUE
  /\ UNCHANGED <<host, loop, tick, consul, kv, file, rendered, node, pipeline, history>>

Reload ==
  /\ template # "off" /\ rendered
  /\ rendered' = FALSE
  /\ \/ node' = file /\ stale' = (template = "gone") /\ UNCHANGED faults
     \/ Fault /\ stale' = TRUE /\ UNCHANGED node
  /\ UNCHANGED <<host, loop, tick, consul, kv, template, file, pipeline, history>>

-----------------------------------------------------------------------------
(* The server.                                                             *)

LateArrives(r) ==
  /\ Collect(r.topic, r.version, TRUE)
  /\ late' = late \ {r}
  /\ UNCHANGED <<host, loop, tick, consul, kv, runner, node, shown, history, faults>>

(* A projector takes any of the events; those with lower ids are skipped   *)
(* from then on.  Without a SAP system in it no row is touched.            *)
Project(p, i) ==
  LET e == pending[p][i]
  IN  /\ shown' = IF e.topic = "sapsystem" /\ ~There(e.topic, e.version) THEN shown
                  ELSE [shown EXCEPT ![p][e.topic] = e.version]
      /\ pending' = [pending EXCEPT ![p] = SubSeq(@, i + 1, Len(@))]
      /\ UNCHANGED <<host, loop, tick, consul, kv, runner, node, late, history, faults>>

(* An event is lost with the process, or its transaction is rolled back.   *)
Lose(p, i) ==
  /\ Fault
  /\ pending' = [pending EXCEPT ![p] = SubSeq(@, 1, i - 1) \o SubSeq(@, i + 1, Len(@))]
  /\ UNCHANGED <<host, loop, tick, consul, kv, runner, node, late, shown, history>>

TickStep ==
  \/ Tick \/ Discover \/ DiscoverFails \/ Store \/ StoreMetadata \/ Publish \/ UpdateTTL

Next ==
  \/ \E t \in Topics : Change(t)
  \/ \E question \in Fallible : Break(question) \/ Repair(question)
  \/ Boot \/ Elapse \/ Expire
  \/ Register \/ RegisterFails \/ Stop \/ LoopsEnd \/ Deregister \/ Crash
  \/ TickStep \/ StoreFails \/ StoreMetadataFails \/ PublishFails
  \/ UpdateTTLFails
  \/ Render \/ RunnerGivesUp \/ Reload
  \/ \E r \in late : LateArrives(r)
  \/ \E p \in Projectors : \E i \in DOMAIN pending[p] : Project(p, i) \/ Lose(p, i)

Spec == Init /\ [][Next]_vars

FairSpec ==
  /\ Spec
  /\ WF_vars(Boot) /\ WF_vars(Register) /\ WF_vars(TickStep) /\ WF_vars(Elapse)
  /\ WF_vars(Expire) /\ WF_vars(LoopsEnd) /\ WF_vars(Deregister)
  /\ \A question \in Fallible : WF_vars(Repair(question))
  /\ WF_vars(Render) /\ WF_vars(Reload)
  /\ \A p \in Projectors : WF_vars(\E i \in DOMAIN pending[p] : Project(p, i))

-----------------------------------------------------------------------------
(* Properties.                                                             *)

(* The check of a host passes only if a tick without a single error ended  *)
(* within the last two periods, whatever the ticks since came to, and      *)
(* whether they could tell Consul (agent.go:139, 167-186); or Consul has   *)
(* kept the status of a process that died.                                 *)
PassingIsRecent == check = "passing" => good <= 2 \/ inherited

(* It never expires on an agent whose ticks stay within a period: two      *)
(* periods are enough for two ticks in a row to be told to Consul, from    *)
(* the first on, which comes before the ticker (agent.go:139,              *)
(* utils.go:103-106).                                                      *)
OnTimeNeverExpires == Running /\ check = "expired" => excused

(* What a projector shows of a topic goes back to an older version only    *)
(* by a request the agent had given up: the order of the discoveries is    *)
(* that of the ids, although they are projected in any order               *)
(* (client.go:91-102, projector.go:56).                                    *)
ShownGoesBackOnlyByLate ==
  [][\A p \in Projectors : \A t \in Topics :
       \/ shown'[p][t] >= shown[p][t]
       \/ \E i \in DOMAIN pending[p] :
            pending[p][i].late /\ pending[p][i].version = shown'[p][t]]_vars

(* Once the host and the faults rest, the key-value store has what there   *)
(* is on the host, the node's meta-data follow unless their last reload    *)
(* failed, and so does every read model with a cursor of its own.          *)
EveryCopyCatchesUp ==
  /\ \A t \in Topics :
       <>[](There(t, fact[t]) =>
              /\ t \in WithTree => tree[t] = fact[t]
              /\ t \in WithMetadata => metadata[t] = fact[t]
              /\ \A p \in Projectors : Handlers[p] = {t} => shown[p][t] = fact[t])
  /\ []<>(stale \/ node = metadata)

=============================================================================
