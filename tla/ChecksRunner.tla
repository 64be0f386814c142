---------------------------- MODULE ChecksRunner ----------------------------
(***************************************************************************)
(* The configuration checks, from what the user selects to the health that *)
(* is shown: the settings and the catalog the web application keeps        *)
(* (web/services/checks.go, web/checks_api.go), the runner that makes an   *)
(* ansible inventory of the selected checks and runs the playbook on each  *)
(* tick (runner/), the callback plugin that uploads the results to ARA     *)
(* (runner/ansible/callback_plugins/trento.py), and the health the web     *)
(* application aggregates from the newest record.                          *)
(*                                                                         *)
(* Ansible knows a host by its name only: a node name that two clusters    *)
(* share is one host in both groups, with the variables of the group the   *)
(* inventory lists last.                                                   *)
(***************************************************************************)
EXTENDS FiniteSets, Integers, Sequences, SequencesExt

CONSTANTS Clusters, Nodes,
          NodesOf,    (* the nodes of each cluster                           *)
          Users,      (* what may be entered for the nodes of each cluster,  *)
                      (* "" included                                         *)
          CloudUser,  (* of each node; root outside of Azure                 *)
          Shipped,    (* the checks each version of the runner brings along  *)
          Group,      (* the group of each check                             *)
          Outcomes,   (* what a check on a host can come to                  *)
          NoRecord, Unreachable, NoRow, NoAnswer, NoForm,
          MaxPosts,   (* bound: settings the user saves                      *)
          MaxFaults   (* bound: outages, errors and crashes                  *)

Versions == DOMAIN Shipped
Checks == UNION {Shipped[v] : v \in Versions}

(* What the API may answer for the settings of a cluster.                  *)
Answers(c) ==
  [checks : SUBSET Checks, users : UNION {[m -> Users[c]] : m \in SUBSET NodesOf[c]}]

ASSUME ChecksRunnerAssumption ==
  /\ NodesOf \in [Clusters -> SUBSET Nodes \ {{}}]
  /\ 1 \in Versions /\ Versions \subseteq Nat
  /\ Checks = DOMAIN Group
  /\ Outcomes \subseteq {"passing", "warning", "critical", "failed"}
  /\ \A v \in Versions : Unreachable \notin [Shipped[v] -> Outcomes \cup {"skipped"}]
  /\ \A c \in Clusters : NoRow \notin Users[c] /\ NoAnswer \notin Answers(c)
  /\ MaxPosts \in Nat /\ MaxFaults \in Nat

VARIABLES
  web, ara,  (* whether they answer                                          *)
  selected,  (* the selected_checks rows, a missing one being an empty one   *)
  users,     (* the connection_settings rows, by cluster and node            *)
  form,      (* the settings form a user has opened                          *)
  posting,   (* the requests that are saving settings                        *)
  catalog,   (* the ids of the checks table                                  *)
  version,   (* of the runner                                                *)
  pc,        (* where the runner is                                          *)
  todo,      (* the clusters NewClusterInventoryContent has still to ask for *)
  reading,   (* what its request for one of them has read so far             *)
  inventory, (* its groups, in the order they are listed                     *)
  answers,   (* of the API in this tick, for each cluster                    *)
  results,   (* of the playbook that has ended                               *)
  record,    (* the newest trento-results record of ARA                      *)
  posts, faults

vars == <<web, ara, selected, users, form, posting, catalog, version, pc, todo,
          reading, inventory, answers, results, record, posts, faults>>
settings == <<selected, users, form, posting, posts>>
servers == <<web, ara, settings, catalog, record>>
tick == <<todo, reading, inventory, answers, results>>

NoResults == [n \in Nodes |-> Unreachable]
NoAnswers == [c \in Clusters |-> NoAnswer]
NoReading == [cluster |-> NoAnswer, checks |-> {}]

(* Places in Start, before the loop, and in a tick of it.                  *)
Starting == {"start", "upsert", "delete", "loop"}
Ticking == {"selected", "users", "file", "ara", "playbook", "record"}
Gone == {"down", "panicked"}

Fault == faults < MaxFaults /\ faults' = faults + 1
GoTo(l) == pc' = l

(* Operators named X_... are X with a plausible mistake in it, which the   *)
(* properties have to notice.                                              *)

(* The inventory outlives the tick. *)
Leave_KeepsInventory(l) ==
  pc' = l /\ todo' = {} /\ reading' = NoReading /\ answers' = NoAnswers
  /\ results' = NoResults /\ UNCHANGED inventory

(* What a tick holds is gone with it.                                      *)
Leave(l) == pc' = l /\ todo' = {} /\ reading' = NoReading /\ inventory' = <<>>
                    /\ answers' = NoAnswers /\ results' = NoResults

-----------------------------------------------------------------------------
(* What the web application makes of a record.                             *)

GroupsOf(inv) == {inv[i].cluster : i \in DOMAIN inv}
InGroups(r) == IF r = NoRecord THEN {} ELSE GroupsOf(r.inventory)
ResultsOn(r, c, k) ==
  {r.results[n][k] : n \in {m \in NodesOf[c] :
                              r.results[m] # Unreachable /\ k \in DOMAIN r.results[m]}}

(* Only the value that does not decode is left out. *)
Decoded_Lenient(r) == InGroups(r)

(* mapstructure.Decode, whose error GetChecksResult drops: the result of a *)
(* failed task is the boolean false, which no string field takes; the maps *)
(* it is nested in are left without the entry, up to the cluster's.        *)
Decoded(r) ==
  {c \in InGroups(r) : \A k \in Checks : "failed" \notin ResultsOn(r, c, k)}

(* AggregatedCheckData.String: the worst result there is.                  *)
Worst(rs) ==
  IF "critical" \in rs THEN "critical"
  ELSE IF "warning" \in rs THEN "warning"
  ELSE IF "passing" \in rs THEN "passing" ELSE "undefined"

(* GetRecordList and GetRecord: the newest record, or an error.            *)
NewestRecord == IF ara THEN record ELSE NoRecord

(* GetChecksResultByCluster finds the cluster.                             *)
Found(c) == c \in Decoded(NewestRecord)

(* GetAggregatedChecksResultByHost and ...ByCluster.                       *)
HostHealth(c, n) ==
  IF Found(c) /\ record.results[n] # Unreachable
  THEN Worst({record.results[n][k] : k \in DOMAIN record.results[n]}) ELSE "undefined"

ClusterHealth(c) == Worst({HostHealth(c, n) : n \in NodesOf[c]})

(* GetChecksCatalog: a row of the checks table each.                       *)
GetChecksCatalog == catalog

(* GetChecksResultAndMetadataByCluster: the results of the checks the      *)
(* catalog knows.                                                          *)
ChecksOnPage(c) == {k \in GetChecksCatalog : ResultsOn(record, c, k) # {}}

(* The page of the results, or nothing when the handler answers an error.  *)
ResultsPage(c) ==
  IF Found(c) THEN [hosts |-> [n \in NodesOf[c] |-> record.results[n] # Unreachable],
                    checks |-> ChecksOnPage(c)]
              ELSE NoAnswer

-----------------------------------------------------------------------------
(* The settings and the catalog as the API answers them.                   *)

GetChecksCatalogByGroup ==
  {[group |-> g, checks |-> {k \in GetChecksCatalog : Group[k] = g}] :
     g \in {Group[k] : k \in GetChecksCatalog}}

(* A cluster without a row has no checks selected.                         *)
GetSelectedChecksById(c) == selected[c]

GetConnectionSettingsById(c) ==
  [n \in {m \in NodesOf[c] : users[c][m] # NoRow} |-> users[c][n]]

JSONChecksSettings(c, checks) == [checks |-> checks, users |-> GetConnectionSettingsById(c)]

-----------------------------------------------------------------------------

Init ==
  /\ web = TRUE /\ ara = TRUE
  /\ selected = [c \in Clusters |-> {}]
  /\ users = [c \in Clusters |-> [n \in NodesOf[c] |-> NoRow]]
  /\ form = NoForm /\ posting = {}
  /\ catalog = {}
  /\ version = 1
  /\ pc = "down"
  /\ todo = {} /\ reading = NoReading
  /\ inventory = <<>> /\ answers = NoAnswers
  /\ results = NoResults
  /\ record = NoRecord
  /\ posts = 0 /\ faults = 0

(* A user opens the settings of a cluster: the form has the groups of the  *)
(* catalog and what is selected, checks the catalog has lost included.     *)
OpenForm(c) ==
  /\ web /\ form = NoForm /\ posts < MaxPosts
  /\ form' = [cluster |-> c,
               offered |-> GetSelectedChecksById(c) \cup UNION {g.checks : g \in GetChecksCatalogByGroup}]
  /\ UNCHANGED <<web, ara, selected, users, posting, posts, catalog, version, pc, tick, record, faults>>

CreateSelectedChecks(c, checks) == selected' = [selected EXCEPT ![c] = checks]

(* It is saved, maybe much later (here, with one user for all the nodes):  *)
(* the request is bound and its checks are written.                        *)
CreateSettings ==
  /\ web /\ form # NoForm
  /\ posts' = posts + 1 /\ form' = NoForm
  /\ \E s \in SUBSET form.offered, u \in Users[form.cluster] :
       /\ CreateSelectedChecks(form.cluster, s)
       /\ posting' = posting \cup {[cluster |-> form.cluster, user |-> u,
                                     left |-> NodesOf[form.cluster], nr |-> posts]}
  /\ UNCHANGED <<web, ara, users, catalog, version, pc, tick, record, faults>>

(* CreateConnectionSettings: then the user of each node, a statement each, *)
(* in the order of a Go map.                                               *)
CreateConnectionSettings(p, n) ==
  /\ web
  /\ n \in p.left
  /\ users' = [users EXCEPT ![p.cluster][n] = p.user]
  /\ posting' = (posting \ {p}) \cup
                  (IF p.left = {n} THEN {} ELSE {[p EXCEPT !.left = @ \ {n}]})
  /\ UNCHANGED <<web, ara, selected, form, posts, catalog, version, pc, tick, record, faults>>

(* A statement fails: what is written stays, the rest is not.              *)
CreateSettingsFails(p) ==
  /\ \/ ~web /\ UNCHANGED faults
     \/ web /\ Fault
  /\ posting' = posting \ {p}
  /\ UNCHANGED <<web, ara, selected, users, form, posts, catalog, version, pc, tick, record>>

Outage ==
  /\ Fault
  /\ \/ web /\ web' = FALSE /\ UNCHANGED ara
     \/ ara /\ ara' = FALSE /\ UNCHANGED web
  /\ UNCHANGED <<settings, catalog, version, pc, tick, record>>

WebIsBack ==
  /\ ~web /\ web' = TRUE
  /\ UNCHANGED <<ara, settings, catalog, version, pc, tick, record, faults>>

AraIsBack ==
  /\ ~ara /\ ara' = TRUE
  /\ UNCHANGED <<web, settings, catalog, version, pc, tick, record, faults>>

(* The container of the runner is started, maybe with a newer version.     *)
Boot ==
  /\ pc \in Gone
  /\ \E v \in Versions : v >= version /\ version' = v
  /\ GoTo("start")
  /\ UNCHANGED <<servers, tick, faults>>

(* IsWebServerUp and IsAraServerUp.                                        *)
ServersUp == web /\ ara

(* Runner.Start lays out the ansible files, pings the web server and ARA,  *)
(* and exits without them.                                                 *)
Start ==
  /\ pc = "start"
  /\ GoTo(IF ServersUp THEN "upsert" ELSE "down")
  /\ UNCHANGED <<servers, version, tick, faults>>

(* The ansible files cannot be written.                                    *)
CreateAnsibleFilesFails ==
  /\ pc = "start"
  /\ Fault
  /\ GoTo("down")
  /\ UNCHANGED <<servers, version, tick>>

(* The plugins of ARA are not found: for the meta playbook, or for the one *)
(* of the checks, when the loop ends before its first tick.                *)
LoadAraPluginsFails ==
  /\ pc \in {"start", "loop"}
  /\ Fault
  /\ GoTo("down")
  /\ UNCHANGED <<servers, version, tick>>

(* The meta playbook puts the catalog; CreateChecksCatalog upserts it and, *)
(* in a second statement, deletes the entries that are not in it.          *)
UpsertCatalog ==
  /\ pc = "upsert" /\ web
  /\ catalog' = catalog \cup Shipped[version]
  /\ GoTo("delete")
  /\ UNCHANGED <<web, ara, settings, version, tick, record, faults>>

DeleteOldChecks ==
  /\ pc = "delete" /\ web
  /\ catalog' = catalog \cap Shipped[version]
  /\ GoTo("loop")
  /\ UNCHANGED <<web, ara, settings, version, tick, record, faults>>

(* The loop is entered although the catalog could not be put. *)
MetaFails_Ignored ==
  /\ pc \in {"upsert", "delete"}
  /\ \/ ~web /\ UNCHANGED faults
     \/ web /\ Fault
  /\ GoTo("loop")
  /\ UNCHANGED <<servers, version, tick>>

(* The request fails, and with it the playbook and Start.                  *)
MetaFails ==
  /\ pc \in {"upsert", "delete"}
  /\ \/ ~web /\ UNCHANGED faults
     \/ web /\ Fault
  /\ GoTo("down")
  /\ UNCHANGED <<servers, version, tick>>

EnterLoop ==
  /\ pc = "loop"
  /\ GoTo("select")
  /\ UNCHANGED <<servers, version, tick, faults>>

(* The loop over the clusters ends after the first. *)
Tick_One ==
  /\ pc = "select"
  /\ GoTo("selected")
  /\ \E c \in Clusters : todo' = {c}
  /\ UNCHANGED <<servers, version, reading, inventory, answers, results, faults>>

(* A tick: the first one at once, the others when the ticker fires.        *)
Tick ==
  /\ pc = "select"
  /\ GoTo("selected")
  /\ todo' = Clusters
  /\ UNCHANGED <<servers, version, reading, inventory, answers, results, faults>>

(* Consul does not answer: the tick is over.                               *)
GetClustersFails ==
  /\ pc = "selected" /\ todo = Clusters
  /\ Fault
  /\ Leave("select")
  /\ UNCHANGED <<servers, version>>

(* The runner asks for the settings of one more cluster, in the order of a *)
(* Go map. The handler reads the selection, whose error it only logs: it   *)
(* goes on with an empty one.  A cluster for whose nodes the handler fails *)
(* on every request is left out.                                           *)
ReadSelected(c) ==
  /\ pc = "selected" /\ c \in todo /\ web
  /\ \/ reading' = [cluster |-> c, checks |-> GetSelectedChecksById(c)] /\ UNCHANGED faults
     \/ GetSelectedChecksById(c) # {} /\ Fault /\ reading' = [cluster |-> c, checks |-> {}]
  /\ GoTo("users")
  /\ UNCHANGED <<servers, version, todo, inventory, answers, results>>

(* The user of a node without a row is root; an empty one leaves it to the *)
(* cloud data, if they can be loaded (when "cloud" is TRUE).               *)
UserOf(connection, n, cloud) ==
  IF n \notin DOMAIN connection THEN "root" ELSE IF connection[n] # "" THEN connection[n]
  ELSE IF cloud THEN CloudUser[n] ELSE ""

(* Then it reads the users, and the group is added to the inventory.       *)
ReadUsers ==
  /\ pc = "users" /\ web
  /\ LET c == reading.cluster
         answer == JSONChecksSettings(c, reading.checks)
         AddGroup(cloud) ==
           inventory' = Append(inventory, [cluster |-> c, checks |-> answer.checks,
             users |-> [n \in NodesOf[c] |-> UserOf(answer.users, n, cloud)]])
     IN  /\ \/ AddGroup(TRUE) /\ UNCHANGED faults
            \/ "" \in Range(answer.users) /\ AddGroup(FALSE) /\ Fault
         /\ answers' = [answers EXCEPT ![c] = answer]
         /\ todo' = todo \ {c}
  /\ GoTo("selected") /\ reading' = NoReading
  /\ UNCHANGED <<servers, version, results>>

(* Either part of the request ends with an error: the cluster is skipped.  *)
FetchError(c) ==
  /\ \/ pc = "selected" /\ c \in todo
     \/ pc = "users" /\ c = reading.cluster
  /\ web /\ Fault
  /\ todo' = todo \ {c}
  /\ GoTo("selected") /\ reading' = NoReading
  /\ UNCHANGED <<servers, version, inventory, answers, results>>

(* It does not answer at all: getJson reads the status of a response that  *)
(* is nil, and nothing recovers from that panic.                           *)
GetJsonPanics ==
  /\ ~web
  /\ \/ pc = "selected" /\ todo # {}
     \/ pc = "users"
  /\ Leave("panicked")
  /\ UNCHANGED <<servers, version, faults>>

(* CreateInventory writes the file.                                        *)
CreateInventory ==
  /\ pc = "selected" /\ todo = {}
  /\ GoTo("ara")
  /\ UNCHANGED <<servers, version, tick, faults>>

(* It cannot be created, and the tick is over; or it cannot be written to  *)
(* its end, an error CreateInventory does not return: the playbook has the *)
(* groups written by then (the model cuts between two groups).             *)
CreateInventoryFails ==
  /\ pc = "selected" /\ todo = {}
  /\ Fault
  /\ \/ Leave("select")
     \/ /\ \E i \in 0..Len(inventory) - 1 : inventory' = SubSeq(inventory, 1, i)
        /\ GoTo("ara")
        /\ UNCHANGED <<todo, reading, answers, results>>
  /\ UNCHANGED <<servers, version>>

(* Without ARA the tick is over.                                           *)
IsAraServerUp ==
  /\ pc = "ara"
  /\ IF ara THEN GoTo("playbook") /\ UNCHANGED tick ELSE Leave("select")
  /\ UNCHANGED <<servers, version, faults>>

(* What ansible knows of a host: the variables of the last group with it.  *)
GroupOf(inv, n) == inv[SelectLastInSeq(inv, LAMBDA g : n \in NodesOf[g.cluster])]

(* The callback plugin notes an outcome, or "skipped", for every check     *)
(* this version has.                                                       *)
RunOn(n) ==
  {[k \in Shipped[version] |-> IF k \in GroupOf(inventory, n).checks THEN o[k] ELSE "skipped"] :
     o \in [Shipped[version] -> Outcomes]}

(* The playbook runs the checks selected on each host it reaches.  A host  *)
(* is reached for all of them or for none: what the callback keeps of one  *)
(* that becomes unreachable on the way is left out.                        *)
RunPlaybook ==
  /\ pc = "playbook"
  /\ LET Hosts == UNION {NodesOf[c] : c \in GroupsOf(inventory)}
         On(n) == (IF n \in Hosts THEN RunOn(n) ELSE {}) \cup {Unreachable}
     IN  \E r \in [Nodes -> UNION {On(n) : n \in Nodes}] :
           (\A n \in Nodes : r[n] \in On(n)) /\ results' = r
  /\ GoTo("record")
  /\ UNCHANGED <<servers, version, todo, reading, inventory, answers, faults>>

(* ansible-playbook fails as a whole; the tick drops the error.            *)
PlaybookFails ==
  /\ pc = "playbook"
  /\ Fault
  /\ Leave("select")
  /\ UNCHANGED <<servers, version>>

NewRecord == [inventory |-> inventory, answers |-> answers, results |-> results,
              version |-> version]

(* v2_playbook_on_stats posts the record; the results are lost if ARA is   *)
(* down by then, and RunPlaybook's error is dropped by the tick.           *)
Record ==
  /\ pc = "record"
  /\ record' = IF ara THEN NewRecord ELSE record
  /\ Leave("select")
  /\ UNCHANGED <<web, ara, settings, catalog, version, faults>>

(* The container is stopped or killed, with the playbook it runs.          *)
Killed ==
  /\ pc \notin Gone
  /\ Fault
  /\ Leave("down")
  /\ UNCHANGED <<servers, version>>

RunnerStep ==
  \/ Boot \/ Start \/ UpsertCatalog \/ DeleteOldChecks \/ MetaFails \/ EnterLoop
  \/ Tick \/ (\E c \in Clusters : ReadSelected(c)) \/ ReadUsers
  \/ GetJsonPanics \/ CreateInventory \/ IsAraServerUp \/ RunPlaybook \/ Record

WebStep == \E p \in posting :
  CreateSettingsFails(p) \/ \E n \in Nodes : CreateConnectionSettings(p, n)

Next ==
  \/ CreateSettings
  \/ \E c \in Clusters : OpenForm(c) \/ FetchError(c)
  \/ WebStep
  \/ Outage \/ WebIsBack \/ AraIsBack
  \/ CreateAnsibleFilesFails \/ LoadAraPluginsFails \/ Killed
  \/ GetClustersFails \/ CreateInventoryFails \/ PlaybookFails
  \/ RunnerStep

Spec == Init /\ [][Next]_vars

(* The ticker of the loop, the requests the web application serves, the   *)
(* container runtime that starts the servers and the runner again.         *)
FairSpec == Spec /\ WF_vars(RunnerStep) /\ WF_vars(WebStep)
                 /\ WF_vars(WebIsBack) /\ WF_vars(AraIsBack)

-----------------------------------------------------------------------------
(* Properties.                                                             *)

(* Green is never the colour of a problem: a passing cluster has, in the   *)
(* newest record, a check that passed, and no result on a host it reached  *)
(* that is a warning, is critical, or is that of a task that failed        *)
(* (checks.go:162 and 214-256, trento.py:157-169).                         *)
GreenMeansNoProblem ==
  \A c \in Clusters : ClusterHealth(c) = "passing" =>
    LET found == UNION {ResultsOn(record, c, k) : k \in Checks}
    IN  "passing" \in found /\ found \cap {"warning", "critical", "failed"} = {}

(* What a record has on a host is what the settings of a cluster of that   *)
(* host said when this tick asked, no more and no less of it, obtained as  *)
(* the user they name, whatever the ticks before left behind and wherever  *)
(* the inventory was cut off; a host whose name two clusters share is      *)
(* visited for one of them in everything (inventory.go:102-160).           *)
ResultsAreOfTheSettings ==
  \A c \in InGroups(record) : \A n \in NodesOf[c] :
    record.results[n] # Unreachable =>
      \E d \in InGroups(record) :
        /\ n \in NodesOf[d] /\ record.answers[d] # NoAnswer
        /\ {k \in DOMAIN record.results[n] : record.results[n][k] # "skipped"}
             = record.answers[d].checks \cap Shipped[record.version]
        /\ \E cloud \in BOOLEAN :
             GroupOf(record.inventory, n).users[n] = UserOf(record.answers[d].users, n, cloud)

(* The page of the results explains the health that is shown: from the     *)
(* first tick of a runner on, every check that counts in a record of its   *)
(* version is on the page, with its metadata (runner.go:88-90,             *)
(* checks.go:129-138 and 181-212).                                         *)
PageExplainsHealth ==
  pc \in {"select"} \cup Ticking =>
    \A c \in Clusters : Found(c) /\ record.version = version =>
      ResultsPage(c).checks = {k \in Checks : ResultsOn(record, c, k) # {}}

(* Outages, errors and crashes over, the newest record is one of the       *)
(* settings as they are, obtained as the users they name.                  *)
SettingsTakeEffect ==
  \A c \in Clusters :
    <>[](/\ c \in InGroups(record)
         /\ record.answers[c] = JSONChecksSettings(c, GetSelectedChecksById(c)))

=============================================================================
