------------------------------- MODULE Console ------------------------------
(***************************************************************************)
(* The lists of the web console and the tags users give to what they list: *)
(* web/hosts.go, internal/hosts/hosts.go, web/clusters.go and              *)
(* services/clusters.go, web/hosts_next.go and services/hosts_next.go, the *)
(* tables of web/sapsystems.go, web/tags_api.go and services/tags.go.  A   *)
(* list is put together from many queries, to Consul and to PostgreSQL,    *)
(* while hosts, clusters and tags change between any two of them.          *)
(***************************************************************************)
EXTENDS Pagination, Lists, FiniteSets, SequencesExt

CONSTANTS
  Hosts,       \* the names of the hosts, in the order of Consul's catalog
  NodeStates,  \* what Consul may know of one: its SIDs and its aggregated health
  NodesBefore, \* what it may know at first
  Agents,      \* hosts of the read model, in the order PostgreSQL returns them: id, SIDs
  Clusters,    \* clusters by name and id: id, name, type, SIDs
  Systems,     \* SAP systems and databases by SID: id, kind, sid
  Values,      \* what a tag may say
  TagsBefore,  \* the tags there are at first
  Targets,     \* the identifiers users may try to tag
  Editors,     \* requests that change tags
  Questions,   \* requests for a list
  NotANumber,  \* what a page in a query may be
  Edits,       \* bound on the tags that are looked up
  Changes,     \* bound on what changes besides
  Faults       \* bound on queries that fail

Ops == {"hosts", "clusters", "hosts_next", "sapsystems", "databases", "tags"}
TagTypes == {"hosts", "clusters", "sapsystems", "databases"}

HostSet == Range(Hosts)

(* Names and identifiers are those of one thing.  The handlers of tags and *)
(* SAP systems do not look at a filter of health.                          *)
ASSUME ConsoleAssumption ==
  /\ Hosts \in Seq(STRING)
  /\ NodeStates \subseteq [sids : SUBSET STRING, health : STRING]
  /\ NodesBefore \subseteq [HostSet -> NodeStates]
  /\ Agents \in Seq([id : STRING, sids : SUBSET STRING])
  /\ Clusters \in Seq([id : STRING, name : STRING, type : STRING, sids : SUBSET STRING])
  /\ Systems \in Seq([id : STRING, kind : {"sapsystems", "databases"}, sid : STRING])
  /\ TagsBefore \subseteq [type : TagTypes, id : STRING, value : STRING]
  /\ LET lists == <<Hosts, Column(Clusters, "id"), Column(Agents, "id"), Column(Systems, "id")>>
     IN  \A k, m \in DOMAIN lists : \A i \in DOMAIN lists[k], j \in DOMAIN lists[m] :
           lists[k][i] = lists[m][j] => k = m /\ i = j
  /\ Questions \subseteq
       [op : Ops, sids : Seq(STRING), name : SUBSET STRING, type : SUBSET STRING, tags : SUBSET STRING,
        health : SUBSET STRING, page : Int \cup {NotANumber}, size : Int \cup {NotANumber}]
  /\ NotANumber \notin Int
  /\ \A q \in Questions : q.op \notin {"hosts", "clusters", "hosts_next"} => q.health = {}
  /\ Faults \in Nat

Ids(rows) == {r.id : r \in Range(rows)}
Row(rows, id) == CHOOSE r \in Range(rows) : r.id = id

VARIABLES
  nodes,     \* Consul's catalog: what is known of each host that is in it
  trees,     \* the clusters in Consul's key-value store
  rows,      \* the clusters in the read model
  results,   \* the aggregated check results of each cluster
  beats,     \* how old the heartbeat of each host of the read model is
  tags,      \* the rows of the tags table
  edit,      \* each editor's request
  asked, pc, \* the reader's request and how far it is
  todo,      \* what it is still to ask about
  list,      \* what it lists so far
  shown,     \* the tags it has read of each element
  loaded,    \* the SIDs it has read of each host of Consul
  counted,   \* the health it has read of each element
  offered,   \* the choices it offers to filter by: tags, SIDs, types
  answer,    \* what the reader gets: a status, the page, the rows the footer counts, the counters of health
  spent,     \* edits, changes and faults so far
  always, ever  \* history: facts that held during the whole request, and at any time of it

World == <<nodes, trees, rows, results, beats>>
reader == <<asked, pc, todo, list, shown, loaded, counted, offered, answer>>
vars == <<World, tags, edit, reader, spent, always, ever>>

Tag(type, id, value) == [type |-> type, id |-> id, value |-> value]
TagsOf(type, id) == {t.value : t \in {u \in tags : u.type = type /\ u.id = id}}

NoQuestion == [op |-> "none"]
Counters == {"passing", "warning", "critical"}
NoAnswer == [status |-> "none", page |-> <<>>, count |-> 0, health |-> [v \in Counters |-> 0]]
NoChoice == [tags |-> {}, sids |-> {}, types |-> {}]
NoFunction == [x \in {} |-> {}]

(* Whatever a list can tell of one of its elements.                        *)
Facts ==
  LET Of(id, sids, health) ==
        {<<"here", id, "">>, <<"health", id, health>>} \cup {<<"sid", id, s>> : s \in sids}
  IN  (UNION ({Of(h, nodes[h].sids, nodes[h].health) : h \in DOMAIN nodes}
        \cup {Of(c.id, c.sids, results[c.id]) : c \in {d \in Range(Clusters) : d.id \in rows}}
        \cup {Of(s.id, {s.sid}, "") : s \in Range(Systems)}
        \cup {Of(a.id, a.sids, beats[a.id]) : a \in Range(Agents)}))
       \cup {<<t.type, t.id, t.value>> : t \in tags}

Idle == pc \in {"idle", "done"}

(* After any step but a reader's, the last conjunct of it.                 *)
Witnessed ==
  /\ always' = IF Idle THEN always ELSE always \cap Facts'
  /\ ever' = IF Idle THEN ever ELSE ever \cup Facts'

Reset ==
  /\ asked' = NoQuestion /\ pc' = "idle" /\ todo' = <<>> /\ list' = <<>>
  /\ shown' = NoFunction /\ loaded' = NoFunction /\ counted' = NoFunction
  /\ offered' = NoChoice /\ answer' = NoAnswer

Init ==
  /\ nodes \in NodesBefore
  /\ trees = {c.id : c \in Range(Front(Clusters))} /\ rows = trees
  /\ results = [c \in Ids(Clusters) |-> "passing"]
  /\ beats = [a \in Ids(Agents) |-> "passing"]
  /\ tags = TagsBefore
  /\ edit = [e \in Editors |-> [pc |-> "idle"]]
  /\ asked = NoQuestion /\ pc = "idle" /\ todo = <<>> /\ list = <<>>
  /\ shown = NoFunction /\ loaded = NoFunction /\ counted = NoFunction
  /\ offered = NoChoice /\ answer = NoAnswer
  /\ spent = [edits |-> 0, changes |-> 0, faults |-> 0]
  /\ always = {} /\ ever = {}

-----------------------------------------------------------------------------
(* What changes: agents register and store metadata, nodes go, checks and  *)
(* heartbeats come in, a cluster is stored in Consul and then projected.   *)

Changed ==
  /\ spent.changes < Changes
  /\ spent' = [spent EXCEPT !.changes = @ + 1]
  /\ UNCHANGED <<tags, edit, reader>>
  /\ Witnessed

NodeChanges ==
  /\ \E h \in HostSet :
       \/ \E s \in NodeStates : nodes' = [x \in DOMAIN nodes \cup {h} |-> IF x = h THEN s ELSE nodes[x]]
       \/ nodes' = [x \in DOMAIN nodes \ {h} |-> nodes[x]]
  /\ UNCHANGED <<trees, rows, results, beats>> /\ Changed

ClusterComes ==
  /\ \/ \E c \in Ids(Clusters) \ trees : trees' = trees \cup {c} /\ rows' = rows
     \/ \E c \in trees \ rows : rows' = rows \cup {c} /\ trees' = trees
  /\ UNCHANGED <<nodes, results, beats>> /\ Changed

HealthChanges ==
  /\ \/ \E c \in rows, v \in {"passing", "critical"} : results' = [results EXCEPT ![c] = v] /\ beats' = beats
     \/ \E a \in Ids(Agents), v \in {"passing", "critical"} : beats' = [beats EXCEPT ![a] = v] /\ results' = results
  /\ UNCHANGED <<nodes, trees, rows>> /\ Changed

-----------------------------------------------------------------------------
(* Tags.  What is to be tagged is looked up first, in Consul; one that is  *)
(* not there is a 404.                                                     *)

LookUp(e, type, existing) ==
  /\ edit[e].pc = "idle" /\ spent.edits < Edits
  /\ \E op \in {"create", "delete"}, id \in Targets, value \in Values :
       /\ id \in existing
       /\ edit' = [edit EXCEPT ![e] = [pc |-> "found", op |-> op, tag |-> Tag(type, id, value)]]
  /\ spent' = [spent EXCEPT !.edits = @ + 1]
  /\ UNCHANGED <<World, tags, reader, always, ever>>

ApiHostTag(e) == LookUp(e, "hosts", DOMAIN nodes)
ApiClusterTag(e) == LookUp(e, "clusters", trees)
ApiSAPSystemTag(e) == LookUp(e, "sapsystems", Ids(Systems))   \* of either kind
ApiDatabaseTag(e) == LookUp(e, "databases", Ids(Systems))

Insert(e) ==
  /\ edit[e].pc = "found" /\ edit[e].op = "create"
  /\ edit[e].tag \notin tags              \* or the primary key makes it a 500
  /\ tags' = tags \cup {edit[e].tag}

Delete(e) ==
  /\ edit[e].pc = "found" /\ edit[e].op = "delete"
  /\ tags' = tags \ {edit[e].tag}

(* A body that is no tag, a tag that is there or a failure: an error.      *)
Refuse(e) == edit[e].pc = "found" /\ tags' = tags

WriteTag(e) ==
  /\ Insert(e) \/ Delete(e) \/ Refuse(e)
  /\ edit' = [edit EXCEPT ![e] = [pc |-> "idle"]]
  /\ UNCHANGED <<World, reader, spent>>
  /\ Witnessed

-----------------------------------------------------------------------------
(* Requests for a list.                                                    *)

Others == <<World, tags, edit>>
NoFault == spent' = spent
Fault == spent.faults < Faults /\ spent' = [spent EXCEPT !.faults = @ + 1]

(* The numbers of a query are text; what is no number is the default.      *)
Atoi(text, default) == IF text = NotANumber THEN default ELSE text

Ask ==
  /\ pc = "idle"
  /\ \E q \in Questions : asked' = [q EXCEPT !.page = Atoi(@, 1), !.size = Atoi(@, 10)]
  /\ pc' = "load" /\ always' = Facts /\ ever' = Facts
  /\ UNCHANGED <<Others, spent, todo, list, shown, loaded, counted, offered, answer>>

(* Any of these queries may fail; ErrorHandler answers with the error.     *)
Fail ==
  /\ pc \in {"load", "tags", "preload", "types", "sids", "offer", "count"} /\ Fault
  /\ answer' = [NoAnswer EXCEPT !.status = "error"] /\ pc' = "done"
  /\ UNCHANGED <<Others, asked, todo, list, shown, loaded, counted, offered, always, ever>>

Forget == pc = "done" /\ Reset /\ always' = {} /\ ever' = {} /\ UNCHANGED <<Others, spent>>

Step == NoFault /\ UNCHANGED <<Others, asked, always, ever>>

(* CreateFilterMetaQuery: every value but those equal to the last is       *)
(* followed by an "or"; one that repeats the last makes it no filter.      *)
Malformed(values) == \E i \in 1 .. Len(values) - 1 : values[i] = Last(values)

HasSID(sids) == asked.sids = <<>> \/ sids \cap Range(asked.sids) # {}
HasTag(values) == asked.tags = {} \/ values \cap asked.tags # {}
HasHealth(health) == asked.health = {} \/ health \in asked.health

LoadHosts ==
  /\ pc = "load" /\ asked.op = "hosts"
  /\ IF Malformed(asked.sids)
     THEN answer' = [NoAnswer EXCEPT !.status = "error"] /\ pc' = "done" /\ UNCHANGED <<todo, list, loaded>>
     ELSE /\ loaded' = [h \in DOMAIN nodes |-> nodes[h].sids]
          /\ todo' = Kept(Hosts, {h \in DOMAIN nodes : HasSID(nodes[h].sids)})
          /\ IF asked.health = {} THEN list' = todo' /\ pc' = "tags" ELSE list' = <<>> /\ pc' = "health"
          /\ answer' = answer
  /\ Step /\ UNCHANGED <<shown, counted, offered>>

(* A node without checks is passing; so is one whose query failed.         *)
HostHealth(h) ==
  \/ NoFault /\ counted' = Updated(counted, h, IF h \in DOMAIN nodes THEN nodes[h].health ELSE "passing")
  \/ Fault /\ counted' = Updated(counted, h, "passing")

AskHealth ==
  /\ pc = "health" /\ todo # <<>>
  /\ HostHealth(Head(todo))
  /\ list' = IF HasHealth(counted'[Head(todo)]) THEN Append(list, Head(todo)) ELSE list
  /\ todo' = Tail(todo)
  /\ UNCHANGED <<Others, asked, pc, shown, loaded, offered, answer, always, ever>>

HealthAsked ==
  /\ pc = "health" /\ todo = <<>>
  /\ pc' = "tags" /\ todo' = list
  /\ Step /\ UNCHANGED <<list, shown, loaded, counted, offered, answer>>

LoadSystems ==
  /\ pc = "load" /\ asked.op \in {"sapsystems", "databases"}
  /\ todo' = Kept(Column(Systems, "id"), {s.id : s \in {t \in Range(Systems) : t.kind = asked.op}})
  /\ list' = todo' /\ pc' = "tags"
  /\ Step /\ UNCHANGED <<shown, loaded, counted, offered, answer>>

(* Databases are asked for as the SAP systems they are, too. *)
ReadTags_OneKind ==
  /\ pc = "tags" /\ todo # <<>>
  /\ shown' = Updated(shown, Head(todo), TagsOf(IF asked.op = "hosts" THEN "hosts" ELSE "sapsystems", Head(todo)))
  /\ todo' = Tail(todo)
  /\ Step /\ UNCHANGED <<pc, list, loaded, counted, offered, answer>>

ReadTags ==
  /\ pc = "tags" /\ todo # <<>>
  /\ shown' = Updated(shown, Head(todo), TagsOf(asked.op, Head(todo)))
  /\ todo' = Tail(todo)
  /\ Step /\ UNCHANGED <<pc, list, loaded, counted, offered, answer>>

filterHostsByTags ==
  /\ pc = "tags" /\ todo = <<>> /\ asked.op = "hosts"
  /\ list' = Kept(list, {h \in Range(list) : HasTag(shown[h])})
  /\ offered' = [NoChoice EXCEPT !.tags = UNION Range(shown),
                                  !.sids = UNION {loaded[h] : h \in Range(list')}]
  /\ pc' = "counters" /\ todo' = list'
  /\ Step /\ UNCHANGED <<shown, loaded, counted, answer>>

(* SAPSystemsTable.filter; the page takes the choices from what is left.   *)
FilterSystems ==
  /\ pc = "tags" /\ todo = <<>> /\ asked.op # "hosts"
  /\ list' = Kept(list, {s \in Range(list) : HasSID({Row(Systems, s).sid}) /\ HasTag(shown[s])})
  /\ offered' = [NoChoice EXCEPT !.tags = UNION {shown[s] : s \in Range(list')},
                                  !.sids = {Row(Systems, s).sid : s \in Range(list')}]
  /\ answer' = [NoAnswer EXCEPT !.status = "ok", !.page = list', !.count = Len(list')] /\ pc' = "done"
  /\ Step /\ UNCHANGED <<todo, shown, loaded, counted>>

(* NewHostsHealthContainer asks every host again, and the page is cut.     *)
CountHealth ==
  /\ pc = "counters" /\ todo # <<>>
  /\ HostHealth(Head(todo)) /\ todo' = Tail(todo)
  /\ UNCHANGED <<Others, asked, pc, list, shown, loaded, offered, answer, always, ever>>

(* What is none of these, such as undefined, is not counted.               *)
HealthContainer_Page ==
  [v \in Counters |-> Cardinality({x \in Range(Slice(list, asked.page, asked.size)) : counted[x] = v})]

HealthContainer == [v \in Counters |-> Cardinality({x \in Range(list) : counted[x] = v})]

CutPage ==
  /\ pc = "counters" /\ todo = <<>>
  /\ answer' = IF SliceFails(Len(list), asked.page, asked.size)
               THEN [NoAnswer EXCEPT !.status = "panic"]
               ELSE [status |-> "ok", page |-> Slice(list, asked.page, asked.size),
                     count |-> Len(list), health |-> HealthContainer]
  /\ pc' = "done"
  /\ Step /\ UNCHANGED <<todo, list, shown, loaded, counted, offered>>

(* clusters.GetAll: each filter but that of tags starts a new query, so    *)
(* the last of them counts, and paging and the tags' preload are gone.     *)
Plain == asked.name = {} /\ asked.type = {} /\ asked.sids = <<>>

(* The filter of types starts its query, without its condition.            *)
Applied_NoType(c) ==
  IF asked.sids # <<>> THEN HasSID(c.sids)
  ELSE asked.type = {} /\ asked.name # {} => c.name \in asked.name

Applied(c) ==
  IF asked.sids # <<>> THEN HasSID(c.sids)
  ELSE IF asked.type # {} THEN c.type \in asked.type
  ELSE asked.name # {} => c.name \in asked.name

FindClusters ==
  /\ pc = "load" /\ asked.op = "clusters"
  /\ LET found == Kept(Column(Clusters, "id"),
                        {c \in rows : Applied(Row(Clusters, c)) /\ HasTag(TagsOf("clusters", c))})
     IN  list' = IF Plain THEN Paginate(found, asked.page, asked.size) ELSE found
  /\ pc' = "preload"
  /\ Step /\ UNCHANGED <<todo, shown, loaded, counted, offered, answer>>

FindHosts ==   \* hosts_next: whatever the page is, all rows
  /\ pc = "load" /\ asked.op = "hosts_next"
  /\ list' = Kept(Column(Agents, "id"),
                   {a \in Ids(Agents) : HasSID(Row(Agents, a).sids) /\ HasTag(TagsOf("hosts", a))})
  /\ pc' = "preload"
  /\ Step /\ UNCHANGED <<todo, shown, loaded, counted, offered, answer>>

Preload ==
  /\ pc = "preload"
  /\ shown' = [x \in Range(list) |-> CASE asked.op = "hosts_next" -> TagsOf("hosts", x)
                                       [] asked.op = "clusters" /\ Plain -> TagsOf("clusters", x)
                                       [] OTHER -> {}]
  /\ todo' = list /\ pc' = "enrich"
  /\ Step /\ UNCHANGED <<list, loaded, counted, offered, answer>>

(* enrichClusterData drops the error of the results, which leaves them     *)
(* undefined; computeHealth is of the heartbeat that was preloaded.        *)
Enrich ==
  /\ pc = "enrich" /\ todo # <<>>
  /\ \/ /\ NoFault
        /\ counted' = Updated(counted, Head(todo),
                              IF asked.op = "clusters" THEN results[Head(todo)] ELSE beats[Head(todo)])
     \/ Fault /\ asked.op = "clusters" /\ counted' = Updated(counted, Head(todo), "undefined")
  /\ todo' = Tail(todo)
  /\ UNCHANGED <<Others, asked, pc, list, shown, loaded, offered, answer, always, ever>>

filterByHealth ==
  /\ pc = "enrich" /\ todo = <<>>
  /\ list' = Kept(list, {x \in Range(list) : HasHealth(counted[x])})
  /\ pc' = IF asked.op = "clusters" THEN "types" ELSE "sids"
  /\ Step /\ UNCHANGED <<todo, shown, loaded, counted, offered, answer>>

(* GetAllTags: the model's resource type does not filter.                  *)
GetAllTags == {t.value : t \in tags}

GetAllClusterTypes == {Row(Clusters, c).type : c \in rows}
GetAllSIDs ==
  IF asked.op = "clusters" THEN UNION {Row(Clusters, c).sids : c \in rows}
                           ELSE UNION {a.sids : a \in Range(Agents)}

(* The choices are a query each, and of all rows, whatever the filter is.  *)
Offer ==
  /\ \/ pc = "types" /\ offered' = [offered EXCEPT !.types = GetAllClusterTypes] /\ pc' = "sids"
     \/ pc = "sids" /\ offered' = [offered EXCEPT !.sids = GetAllSIDs] /\ pc' = "offer"
     \/ pc = "offer" /\ offered' = [offered EXCEPT !.tags = GetAllTags] /\ pc' = "count"
  /\ Step /\ UNCHANGED <<todo, list, shown, loaded, counted, answer>>

GetCount == Cardinality(rows)

Count ==
  /\ pc = "count"
  /\ answer' = [status |-> "ok", page |-> list, health |-> HealthContainer,
                count |-> IF asked.op = "clusters" THEN GetCount ELSE Len(Agents)]
  /\ pc' = "done"
  /\ Step /\ UNCHANGED <<todo, list, shown, loaded, counted, offered>>

ApiListTag ==
  /\ pc = "load" /\ asked.op = "tags"
  /\ offered' = [NoChoice EXCEPT !.tags =
                   {t.value : t \in {u \in tags : asked.type = {} \/ u.type \in asked.type}}]
  /\ answer' = [NoAnswer EXCEPT !.status = "ok"] /\ pc' = "done"
  /\ Step /\ UNCHANGED <<todo, list, shown, loaded, counted>>

Next ==
  \/ NodeChanges \/ ClusterComes \/ HealthChanges
  \/ \E e \in Editors : ApiHostTag(e) \/ ApiClusterTag(e) \/ ApiSAPSystemTag(e) \/ ApiDatabaseTag(e) \/ WriteTag(e)
  \/ Ask \/ Fail \/ Forget
  \/ LoadHosts \/ AskHealth \/ HealthAsked \/ filterHostsByTags \/ CountHealth \/ CutPage
  \/ LoadSystems \/ ReadTags \/ FilterSystems
  \/ FindClusters \/ FindHosts \/ Preload \/ Enrich \/ filterByHealth \/ Offer \/ Count \/ ApiListTag

Spec == Init /\ [][Next]_vars

-----------------------------------------------------------------------------
(* Properties, of a list that has been answered.                           *)

Answered == pc = "done" /\ answer.status = "ok"
IsList == asked.op # "tags"
Kind == IF asked.op = "hosts_next" THEN "hosts" ELSE asked.op   \* what its tags are tags of
Everything == CASE asked.op = "hosts" -> HostSet
                [] asked.op = "clusters" -> Ids(Clusters)
                [] asked.op = "hosts_next" -> Ids(Agents)
                [] OTHER -> {s.id : s \in {t \in Range(Systems) : t.kind = asked.op}}

(* Meeting the filter of SIDs and tags, and of health, by the facts given. *)
Meets(x, facts) ==
  /\ <<"here", x, "">> \in facts
  /\ asked.sids = <<>> \/ \E s \in Range(asked.sids) : <<"sid", x, s>> \in facts
  /\ asked.tags = {} \/ \E v \in asked.tags : <<Kind, x, v>> \in facts
MeetsCluster(x) ==
  asked.op = "clusters" =>
    /\ asked.name # {} => Row(Clusters, x).name \in asked.name
    /\ asked.type # {} => Row(Clusters, x).type \in asked.type
Healthy(x, facts) ==
  asked.health = {} \/ \E v \in asked.health : <<"health", x, v>> \in facts

(* A page of the query is only sure to have what stays in its window.      *)
Before(x, facts) ==
  {c \in Ids(Clusters) : Meets(c, facts) /\
     \E i, j \in DOMAIN Clusters : i <= j /\ Clusters[i].id = c /\ Clusters[j].id = x}
InWindow(x) ==
  asked.op = "clusters" /\ Plain =>
    /\ Offset(asked.page, asked.size) < Cardinality(Before(x, always))
    /\ asked.size > 0 =>
         Cardinality(Before(x, ever)) <= Offset(asked.page, asked.size) + asked.size

(* Of the filters of name, type and SIDs the last that is given, in this   *)
(* order, is met; that of SIDs is a fact that changes.                     *)
MeetsLast(x) ==
  asked.op = "clusters" /\ asked.sids = <<>> =>
    /\ asked.type # {} => Row(Clusters, x).type \in asked.type
    /\ asked.type = {} /\ asked.name # {} => Row(Clusters, x).name \in asked.name

(* What meets all filters during the whole request is listed, whatever is  *)
(* changed between the queries.  What is listed met, at some time of it,   *)
(* those of tags and health and that of SIDs; of name, type and SIDs only  *)
(* the last one given, because each starts a new query, so that a list by  *)
(* several of them may have more than was asked for (services/clusters.go: *)
(* 47-60, hosts.go:37-98, services/hosts_next.go:41-81, sapsystems.go:     *)
(* 186-216).  The tags shown of an element are those it had, if any are.   *)
(* Health is as it was, unless the host is gone or a query for it failed:  *)
(* both are passing.                                                       *)
ListIsRegular ==
  Answered /\ IsList =>
    \A x \in Everything :
      /\ Meets(x, always) /\ MeetsCluster(x) /\ Healthy(x, always) /\ InWindow(x) /\ spent.faults = 0
           => x \in Range(list)
      /\ x \in Range(list) =>
           /\ <<"here", x, "">> \in ever
           /\ asked.sids # <<>> => \E s \in Range(asked.sids) : <<"sid", x, s>> \in ever
           /\ MeetsLast(x)
           /\ asked.tags # {} => \E v \in asked.tags : <<Kind, x, v>> \in ever
           /\ spent.faults = 0 /\ <<"here", x, "">> \in always => Healthy(x, ever)
           /\ \A v \in shown[x] : <<Kind, x, v>> \in ever

(* A tag that may be offered: of something the list is of, or of the type  *)
(* asked for.  The lists of clusters and of hosts_next ask for the tags of *)
(* their own type too, but as a field of the model, which is no condition: *)
(* they offer the tags of everything, also those that find nothing there   *)
(* (services/clusters.go:131, services/hosts_next.go:111).                 *)
MayOffer(f) ==
  /\ f[1] \in TagTypes
  /\ asked.op \in {"hosts", "sapsystems", "databases"} => f[1] = asked.op /\ f[2] \in Everything
  /\ asked.op = "tags" /\ asked.type # {} => f[1] \in asked.type

(* The tags, SIDs and types a list offers to filter by are of what it is a *)
(* list of, at some time of the request, but for the two lists above,      *)
(* whose tags are only sure to be tags; and among them are those that an   *)
(* element it shows had all the time, so that each element can be found    *)
(* again (services/hosts_next.go:90-124, services/clusters.go:96-142,      *)
(* hosts.go:100-136, sapsystems.go:186-216, tags_api.go).                  *)
ChoicesAreRegular ==
  Answered =>
    /\ \A v \in offered.tags : \E f \in ever : MayOffer(f) /\ f[3] = v
    /\ \A s \in offered.sids : \E f \in ever : f[1] = "sid" /\ f[2] \in Everything /\ f[3] = s
    /\ \A t \in offered.types : \E c \in Range(Clusters) : c.type = t /\ <<"here", c.id, "">> \in ever
    /\ IsList => \A x \in Range(list) :
         /\ \A v \in Values : <<Kind, x, v>> \in always => v \in offered.tags
         /\ \A f \in always : f[1] = "sid" /\ f[2] = x => f[3] \in offered.sids
         /\ asked.op = "clusters" => Row(Clusters, x).type \in offered.types

(* web/pagination.go:78: with a positive size no page fails, the page of   *)
(* hosts is the one the footer marks, the one asked for if there is one,   *)
(* and has every host of the list that belongs on it.                      *)
PageIsTheWindow ==
  pc = "done" /\ asked.op = "hosts" /\ asked.size > 0 =>
    /\ answer.status # "panic"
    /\ answer.status = "ok" =>
         LET pageOf(i) == ((i - 1) \div asked.size) + 1
             lastPage == IF list = <<>> THEN 1 ELSE pageOf(Len(list))
             marked == IF asked.page < 1 THEN 1 ELSE Least(asked.page, lastPage)
         IN  /\ answer.page = Kept(list, {list[i] : i \in {j \in DOMAIN list : pageOf(j) = marked}})
             /\ list # <<>> => marked \in GetCurrentPages(Len(list), marked, asked.size)

(* The footer counts the rows after the list was read, without its         *)
(* filters: it has a link for the page that is shown, whatever is added    *)
(* meanwhile (web/clusters.go:341-351).  The counters of health beside it  *)
(* are of the list, and of the health its elements had; a host that is     *)
(* gone counts as passing (hosts.go:22-35, clusters.go:277-290).           *)
FooterCoversTheList ==
  Answered /\ asked.op \in {"hosts", "clusters", "hosts_next"} =>
    /\ Len(list) <= answer.count
    /\ spent.faults = 0 => \A v \in Counters :
         LET With(facts) == {x \in Range(list) : <<"health", x, v>> \in facts}
             gone == {x \in Range(list) : <<"here", x, "">> \notin always}
         IN  answer.health[v] \in Cardinality(With(always)) .. Cardinality(With(ever) \cup gone)
    /\ Plain /\ asked.size > 0 /\ asked.page > 0 /\ asked.op = "clusters" /\ list # <<>> =>
         asked.page \in GetCurrentPages(answer.count, asked.page, asked.size)

=============================================================================
