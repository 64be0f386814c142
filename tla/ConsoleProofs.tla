---------------------------- MODULE ConsoleProofs ---------------------------
(***************************************************************************)
(* What a list of the console says, for any hosts, clusters, systems, tags,*)
(* questions, editors, changes and faults; and, at the end, what the page  *)
(* and the row of a cluster say, for any nodes, resources and devices.     *)
(***************************************************************************)
EXTENDS Console, ClusterDetails, ListProofs

-----------------------------------------------------------------------------
(* The invariant.                                                          *)

Places == {"idle", "load", "health", "tags", "counters", "preload", "enrich",
           "types", "sids", "offer", "count", "done"}
Reading == pc \notin {"idle", "done"}

(* What there is of hosts, clusters and tags, and the request.             *)
WorldTypes ==
  /\ DOMAIN nodes \subseteq HostSet
  /\ rows \subseteq Ids(Clusters) /\ trees \subseteq Ids(Clusters)
  /\ \A t \in tags : t.type \in TagTypes
  /\ \A e \in Editors : edit[e].pc = "found" => edit[e].tag.type \in TagTypes
  /\ edit = [e \in Editors |-> edit[e]]
  /\ spent.faults \in Nat /\ DOMAIN spent = {"edits", "changes", "faults"}

RequestTypes ==
  /\ pc \in Places
  /\ pc # "idle" =>
       /\ asked.op \in Ops /\ asked.sids \in Seq(STRING)
       /\ asked.page \in Int /\ asked.size \in Int
       /\ asked.op \notin {"hosts", "clusters", "hosts_next"} => asked.health = {}
  /\ Reading => always \subseteq Facts /\ Facts \subseteq ever

(* Which places a request for a list comes by.                             *)
Way ==
  CASE asked.op = "hosts" -> {"load", "health", "tags", "counters"}
    [] asked.op = "clusters" -> {"load", "preload", "enrich", "types", "sids", "offer", "count"}
    [] asked.op = "hosts_next" -> {"load", "preload", "enrich", "sids", "offer", "count"}
    [] asked.op \in {"sapsystems", "databases"} -> {"load", "tags"}
    [] OTHER -> {"load"}

(* At first nothing is read.                                               *)
Blank ==
  /\ todo = <<>> /\ list = <<>> /\ offered = NoChoice
  /\ shown = NoFunction /\ loaded = NoFunction /\ counted = NoFunction

Listed == Range(list)
ToDo == Range(todo)

ListTypes ==
  /\ list \in Seq(Everything) /\ IsInjective(list)
  /\ todo \in Seq(Everything) /\ IsInjective(todo)
  /\ IF pc = "health" THEN Listed \cap ToDo = {} ELSE ToDo \subseteq Listed

(* What is sure of an element that is listed.                              *)
HasBeenHere(x) ==
  /\ <<"here", x, "">> \in ever
  /\ asked.op \in {"hosts", "clusters", "hosts_next"} /\ asked.sids # <<>> =>
       \E s \in Range(asked.sids) : <<"sid", x, s>> \in ever
  /\ MeetsLast(x)
HasBeenTagged(x) == asked.tags # {} => \E v \in asked.tags : <<Kind, x, v>> \in ever
HasBeenHealthy(x) == spent.faults = 0 /\ <<"here", x, "">> \in always => Healthy(x, ever)

ListIsSound ==
  /\ \A x \in Listed \cup ToDo : HasBeenHere(x)
  /\ pc \notin {"load", "health", "tags"} => \A x \in Listed : HasBeenTagged(x)
  /\ pc \notin {"load", "preload", "enrich"} => \A x \in Listed : HasBeenHealthy(x)

(* What is sure of an element that is not.                                 *)
Wanted(x) ==
  /\ Meets(x, always) /\ MeetsCluster(x) /\ Healthy(x, always) /\ InWindow(x)
  /\ spent.faults = 0
ListIsComplete ==
  pc # "load" => \A x \in Everything : Wanted(x) => x \in Listed \/ (pc = "health" /\ x \in ToDo)

(* What has been read of an element.                                       *)
ShownIsSound ==
  /\ DOMAIN shown \subseteq Everything
  /\ \A x \in DOMAIN shown :
       /\ \A v \in shown[x] : <<Kind, x, v>> \in ever
       /\ asked.op \in {"hosts", "sapsystems", "databases"} =>
            \A v : <<Kind, x, v>> \in always => v \in shown[x]
LoadedIsSound ==
  asked.op = "hosts" =>
    \A x \in DOMAIN loaded :
      /\ \A s \in loaded[x] : <<"sid", x, s>> \in ever
      /\ \A s : <<"sid", x, s>> \in always => s \in loaded[x]
CountedIsSound ==
  spent.faults = 0 =>
    \A x \in DOMAIN counted :
      /\ <<"health", x, counted[x]>> \in ever \/ <<"here", x, "">> \notin always
      /\ \A v : <<"health", x, v>> \in always => counted[x] = v

AllIsRead ==
  /\ pc \in {"tags", "counters", "enrich", "types", "sids", "offer", "count"} =>
       \A x \in Listed : x \in DOMAIN shown \/ (pc = "tags" /\ x \in ToDo)
  /\ asked.op = "hosts" => Listed \cup ToDo \subseteq DOMAIN loaded
  /\ pc \in {"counters", "enrich", "types", "sids", "offer", "count"} =>
       \A x \in Listed : x \in DOMAIN counted \/ (pc \in {"counters", "enrich"} /\ x \in ToDo)

(* What the choices are of.                                                *)
ChoicesAreSound ==
  /\ DOMAIN offered = {"tags", "sids", "types"}
  /\ \A v \in offered.tags : \E f \in ever : MayOffer(f) /\ f[3] = v
  /\ \A s \in offered.sids : \E f \in ever : f[1] = "sid" /\ f[2] \in Everything /\ f[3] = s
  /\ \A t \in offered.types : \E c \in Range(Clusters) : c.type = t /\ <<"here", c.id, "">> \in ever
TagsAreOffered == \A x \in Listed : \A v \in Values : <<Kind, x, v>> \in always => v \in offered.tags
SIDsAreOffered == \A x \in Listed : \A f \in always : f[1] = "sid" /\ f[2] = x => f[3] \in offered.sids
TypesAreOffered == \A x \in Listed : Row(Clusters, x).type \in offered.types
ChoicesAreComplete ==
  /\ pc \in {"counters", "count"} => TagsAreOffered
  /\ pc \in {"counters", "offer", "count"} => SIDsAreOffered
  /\ asked.op = "clusters" /\ pc \in {"sids", "offer", "count"} => TypesAreOffered

(* The rows the footer will count.                                         *)
RowsAreThere ==
  /\ asked.op = "clusters" => Listed \subseteq rows
  /\ asked.op = "clusters" /\ Plain /\ asked.size > 0 /\ asked.page > 0 /\ list # <<>> =>
       (asked.page - 1) * asked.size < Cardinality(rows)

ReadingInv ==
  /\ pc \in Way
  /\ pc = "load" => Blank
  /\ ListTypes /\ ListIsSound /\ ListIsComplete
  /\ ShownIsSound /\ LoadedIsSound /\ CountedIsSound /\ AllIsRead
  /\ ChoicesAreSound /\ ChoicesAreComplete /\ RowsAreThere

AnswerInv == ListIsRegular /\ ChoicesAreRegular /\ PageIsTheWindow /\ FooterCoversTheList

Inv ==
  /\ WorldTypes /\ RequestTypes
  /\ pc = "idle" => Blank
  /\ Reading => ReadingInv
  /\ pc = "done" => AnswerInv

-----------------------------------------------------------------------------
(* Rows with identifiers of their own.                                     *)

LEMMA RowsByIds ==
  ASSUME NEW S, NEW rs \in Seq(S), \A r \in S : r.id \in STRING,
         \A i, j \in DOMAIN rs : rs[i].id = rs[j].id => i = j
  PROVE  /\ Column(rs, "id") \in Seq(STRING) /\ IsInjective(Column(rs, "id"))
         /\ Len(Column(rs, "id")) = Len(rs) /\ DOMAIN Column(rs, "id") = DOMAIN rs
         /\ \A i \in DOMAIN rs : Column(rs, "id")[i] = rs[i].id
         /\ Range(Column(rs, "id")) = Ids(rs)
         /\ \A r \in Range(rs) : r \in S /\ r.id \in Ids(rs) /\ Row(rs, r.id) = r
         /\ \A x \in Ids(rs) : Row(rs, x) \in Range(rs) /\ Row(rs, x).id = x
<1> DEFINE c == Column(rs, "id")
<1>1. rs \in [1 .. Len(rs) -> S] /\ Len(rs) \in Nat
  BY LenProperties
<1>2. c = [i \in 1 .. Len(rs) |-> rs[i].id]
  BY <1>1 DEF Column
<1> HIDE DEF c
<1>3. c \in [1 .. Len(rs) -> STRING]
  BY <1>1, <1>2
<1>4. c \in Seq(STRING) /\ Len(c) = Len(rs)
  BY <1>1, <1>3
<1>5. DOMAIN c = DOMAIN rs /\ \A i \in DOMAIN rs : c[i] = rs[i].id
  BY <1>1, <1>2
<1>6. IsInjective(c)
  BY <1>5 DEF IsInjective
<1>7. Range(c) = Ids(rs)
  BY <1>1, <1>5 DEF Range, Ids
<1>8. ASSUME NEW r \in Range(rs) PROVE r \in S /\ r.id \in Ids(rs) /\ Row(rs, r.id) = r
  <2>1. PICK i \in DOMAIN rs : r = rs[i]
    BY DEF Range
  <2>2. \A q \in Range(rs) : q.id = r.id => q = r
    BY <2>1 DEF Range
  <2>3. r \in S /\ r.id \in Ids(rs)
    BY <1>1, <2>1 DEF Ids
  <2>4. QED
    BY <2>2, <2>3 DEF Row
<1>9. ASSUME NEW x \in Ids(rs) PROVE Row(rs, x) \in Range(rs) /\ Row(rs, x).id = x
  <2>1. PICK r \in Range(rs) : r.id = x
    BY DEF Ids
  <2>2. QED
    BY <1>8, <2>1
<1>10. QED
  BY <1>4, <1>5, <1>6, <1>7, <1>8, <1>9 DEF c

LEMMA ClusterRows ==
  /\ Column(Clusters, "id") \in Seq(STRING) /\ IsInjective(Column(Clusters, "id"))
  /\ Len(Column(Clusters, "id")) = Len(Clusters)
  /\ DOMAIN Column(Clusters, "id") = DOMAIN Clusters
  /\ \A i \in DOMAIN Clusters : Column(Clusters, "id")[i] = Clusters[i].id
  /\ Range(Column(Clusters, "id")) = Ids(Clusters)
  /\ \A r \in Range(Clusters) : r.id \in Ids(Clusters) /\ Row(Clusters, r.id) = r
  /\ \A x \in Ids(Clusters) : Row(Clusters, x) \in Range(Clusters) /\ Row(Clusters, x).id = x
<1> DEFINE S == [id : STRING, name : STRING, type : STRING, sids : SUBSET STRING]
           lists == <<Hosts, Column(Clusters, "id"), Column(Agents, "id"), Column(Systems, "id")>>
<1>1. Clusters \in Seq(S) /\ \A r \in S : r.id \in STRING
  BY ConsoleAssumption
<1>2. \A i, j \in DOMAIN Clusters : Clusters[i].id = Clusters[j].id => i = j
  <2>1. \A i, j \in DOMAIN lists[2] : lists[2][i] = lists[2][j] => i = j
    BY ConsoleAssumption
  <2>2. lists[2] = [i \in DOMAIN Clusters |-> Clusters[i].id]
    BY DEF Column
  <2> HIDE DEF lists
  <2>3. QED
    BY <2>1, <2>2
<1> HIDE DEF S
<1>3. QED
  BY <1>1, <1>2, RowsByIds

LEMMA AgentRows ==
  /\ Column(Agents, "id") \in Seq(STRING) /\ IsInjective(Column(Agents, "id"))
  /\ Len(Column(Agents, "id")) = Len(Agents)
  /\ Range(Column(Agents, "id")) = Ids(Agents)
  /\ \A r \in Range(Agents) : r.id \in Ids(Agents) /\ Row(Agents, r.id) = r
  /\ \A x \in Ids(Agents) : Row(Agents, x) \in Range(Agents) /\ Row(Agents, x).id = x
<1> DEFINE S == [id : STRING, sids : SUBSET STRING]
           lists == <<Hosts, Column(Clusters, "id"), Column(Agents, "id"), Column(Systems, "id")>>
<1>1. Agents \in Seq(S) /\ \A r \in S : r.id \in STRING
  BY ConsoleAssumption
<1>2. \A i, j \in DOMAIN Agents : Agents[i].id = Agents[j].id => i = j
  <2>1. \A i, j \in DOMAIN lists[3] : lists[3][i] = lists[3][j] => i = j
    BY ConsoleAssumption
  <2>2. lists[3] = [i \in DOMAIN Agents |-> Agents[i].id]
    BY DEF Column
  <2> HIDE DEF lists
  <2>3. QED
    BY <2>1, <2>2
<1> HIDE DEF S
<1>3. QED
  BY <1>1, <1>2, RowsByIds

LEMMA SystemRows ==
  /\ Column(Systems, "id") \in Seq(STRING) /\ IsInjective(Column(Systems, "id"))
  /\ Range(Column(Systems, "id")) = Ids(Systems)
  /\ \A r \in Range(Systems) : r.id \in Ids(Systems) /\ Row(Systems, r.id) = r
  /\ \A x \in Ids(Systems) : Row(Systems, x) \in Range(Systems) /\ Row(Systems, x).id = x
<1> DEFINE S == [id : STRING, kind : {"sapsystems", "databases"}, sid : STRING]
           lists == <<Hosts, Column(Clusters, "id"), Column(Agents, "id"), Column(Systems, "id")>>
<1>1. Systems \in Seq(S) /\ \A r \in S : r.id \in STRING
  BY ConsoleAssumption
<1>2. \A i, j \in DOMAIN Systems : Systems[i].id = Systems[j].id => i = j
  <2>1. \A i, j \in DOMAIN lists[4] : lists[4][i] = lists[4][j] => i = j
    BY ConsoleAssumption
  <2>2. lists[4] = [i \in DOMAIN Systems |-> Systems[i].id]
    BY DEF Column
  <2> HIDE DEF lists
  <2>3. QED
    BY <2>1, <2>2
<1> HIDE DEF S
<1>3. QED
  BY <1>1, <1>2, RowsByIds

(* An identifier is of one thing.                                          *)
LEMMA Kinds ==
  /\ Hosts \in Seq(STRING) /\ IsInjective(Hosts)
  /\ HostSet \cap Ids(Clusters) = {} /\ HostSet \cap Ids(Agents) = {}
  /\ HostSet \cap Ids(Systems) = {} /\ Ids(Clusters) \cap Ids(Agents) = {}
  /\ Ids(Clusters) \cap Ids(Systems) = {} /\ Ids(Agents) \cap Ids(Systems) = {}
<1> DEFINE lists == <<Hosts, Column(Clusters, "id"), Column(Agents, "id"), Column(Systems, "id")>>
<1>1. \A k, m \in 1 .. 4 : \A i \in DOMAIN lists[k], j \in DOMAIN lists[m] :
        lists[k][i] = lists[m][j] => k = m /\ i = j
  BY ConsoleAssumption
<1>2. /\ lists[1] = Hosts /\ lists[2] = Column(Clusters, "id")
      /\ lists[3] = Column(Agents, "id") /\ lists[4] = Column(Systems, "id")
  OBVIOUS
<1> HIDE DEF lists
<1>3. Hosts \in Seq(STRING) /\ IsInjective(Hosts)
  <2>1. Hosts \in Seq(STRING)
    BY ConsoleAssumption
  <2>2. 1 \in 1 .. 4
    OBVIOUS
  <2>3. QED
    BY <1>1, <1>2, <2>1, <2>2 DEF IsInjective
<1>4. /\ HostSet = Range(lists[1]) /\ Ids(Clusters) = Range(lists[2])
      /\ Ids(Agents) = Range(lists[3]) /\ Ids(Systems) = Range(lists[4])
  BY <1>2, ClusterRows, AgentRows, SystemRows DEF HostSet
<1>5. ASSUME NEW k \in 1 .. 4, NEW m \in 1 .. 4, k # m
      PROVE  Range(lists[k]) \cap Range(lists[m]) = {}
  BY <1>1, <1>5 DEF Range
<1>6. 1 \in 1 .. 4 /\ 2 \in 1 .. 4 /\ 3 \in 1 .. 4 /\ 4 \in 1 .. 4
  OBVIOUS
<1>7. QED
  BY <1>3, <1>4, <1>5, <1>6

-----------------------------------------------------------------------------
(* What the facts are.                                                     *)

(* What is told of one thing, and when a fact is one of that.              *)
About(id, SIDs, health) ==
  {<<"here", id, "">>, <<"health", id, health>>} \cup {<<"sid", id, s>> : s \in SIDs}
Says(kind, v, SIDs, health) ==
  \/ kind = "here" /\ v = ""
  \/ kind = "health" /\ v = health
  \/ kind = "sid" /\ v \in SIDs

LEMMA AboutSays ==
  ASSUME NEW kind, NEW x, NEW v, NEW id, NEW SIDs, NEW health
  PROVE  <<kind, x, v>> \in About(id, SIDs, health) <=> x = id /\ Says(kind, v, SIDs, health)
<1>1. \A a1, a2, a3, b1, b2, b3 : <<a1, a2, a3>> = <<b1, b2, b3>> <=> a1 = b1 /\ a2 = b2 /\ a3 = b3
  OBVIOUS
<1>2. <<kind, x, v>> \in About(id, SIDs, health) <=>
        \/ <<kind, x, v>> = <<"here", id, "">>
        \/ <<kind, x, v>> = <<"health", id, health>>
        \/ \E s \in SIDs : <<kind, x, v>> = <<"sid", id, s>>
  BY DEF About
<1>3. QED
  BY <1>1, <1>2, Zenon DEF Says

LEMMA FactsAre ==
  ASSUME NEW f
  PROVE  f \in Facts <=>
    \/ \E h \in DOMAIN nodes : f \in About(h, nodes[h].sids, nodes[h].health)
    \/ \E c \in Range(Clusters) : c.id \in rows /\ f \in About(c.id, c.sids, results[c.id])
    \/ \E r \in Range(Systems) : f \in About(r.id, {r.sid}, "")
    \/ \E a \in Range(Agents) : f \in About(a.id, a.sids, beats[a.id])
    \/ \E t \in tags : f = <<t.type, t.id, t.value>>
<1> DEFINE H == {About(h, nodes[h].sids, nodes[h].health) : h \in DOMAIN nodes}
           C == {About(c.id, c.sids, results[c.id]) : c \in {d \in Range(Clusters) : d.id \in rows}}
           S == {About(s.id, {s.sid}, "") : s \in Range(Systems)}
           A == {About(a.id, a.sids, beats[a.id]) : a \in Range(Agents)}
           T == {<<t.type, t.id, t.value>> : t \in tags}
<1>1. Facts = (UNION (H \cup C \cup S \cup A)) \cup T
  BY Zenon DEF Facts, About
<1>2. f \in UNION H <=> \E h \in DOMAIN nodes : f \in About(h, nodes[h].sids, nodes[h].health)
  BY Zenon
<1>3. f \in UNION C <=>
        \E c \in Range(Clusters) : c.id \in rows /\ f \in About(c.id, c.sids, results[c.id])
  BY Zenon
<1>4. f \in UNION S <=> \E r \in Range(Systems) : f \in About(r.id, {r.sid}, "")
  BY Zenon
<1>5. f \in UNION A <=> \E a \in Range(Agents) : f \in About(a.id, a.sids, beats[a.id])
  BY Zenon
<1>6. f \in T <=> \E t \in tags : f = <<t.type, t.id, t.value>>
  BY Zenon
<1> HIDE DEF H, C, S, A, T
<1>7. f \in Facts <=> f \in UNION H \/ f \in UNION C \/ f \in UNION S \/ f \in UNION A \/ f \in T
  BY <1>1
<1>8. QED
  BY <1>2, <1>3, <1>4, <1>5, <1>6, <1>7, Zenon

LEMMA FactsSay ==
  ASSUME WorldTypes, NEW kind \in {"here", "health", "sid"}, NEW x, NEW v
  PROVE  <<kind, x, v>> \in Facts <=>
    \/ x \in DOMAIN nodes /\ Says(kind, v, nodes[x].sids, nodes[x].health)
    \/ \E c \in Range(Clusters) : c.id = x /\ x \in rows /\ Says(kind, v, c.sids, results[x])
    \/ \E r \in Range(Systems) : r.id = x /\ v = (IF kind = "sid" THEN r.sid ELSE "")
    \/ \E a \in Range(Agents) : a.id = x /\ Says(kind, v, a.sids, beats[x])
<1>1. \A t \in tags : t.type # kind
  BY DEF WorldTypes, TagTypes
<1>2. \A t \in tags : <<kind, x, v>> # <<t.type, t.id, t.value>>
  BY <1>1
<1>3. \A id, SIDs, health : <<kind, x, v>> \in About(id, SIDs, health) <=>
                              x = id /\ Says(kind, v, SIDs, health)
  BY AboutSays
<1>4. <<kind, x, v>> \in Facts <=>
        \/ \E h \in DOMAIN nodes : <<kind, x, v>> \in About(h, nodes[h].sids, nodes[h].health)
        \/ \E c \in Range(Clusters) :
             c.id \in rows /\ <<kind, x, v>> \in About(c.id, c.sids, results[c.id])
        \/ \E r \in Range(Systems) : <<kind, x, v>> \in About(r.id, {r.sid}, "")
        \/ \E a \in Range(Agents) : <<kind, x, v>> \in About(a.id, a.sids, beats[a.id])
  <2> DEFINE f == <<kind, x, v>>
  <2>1. \A t \in tags : f # <<t.type, t.id, t.value>>
    BY <1>2
  <2> HIDE DEF f
  <2>2. f \in Facts <=>
          \/ \E h \in DOMAIN nodes : f \in About(h, nodes[h].sids, nodes[h].health)
          \/ \E c \in Range(Clusters) : c.id \in rows /\ f \in About(c.id, c.sids, results[c.id])
          \/ \E r \in Range(Systems) : f \in About(r.id, {r.sid}, "")
          \/ \E a \in Range(Agents) : f \in About(a.id, a.sids, beats[a.id])
    BY <2>1, FactsAre
  <2>3. QED
    BY <2>2 DEF f
<1>5. (\E h \in DOMAIN nodes : <<kind, x, v>> \in About(h, nodes[h].sids, nodes[h].health))
        <=> x \in DOMAIN nodes /\ Says(kind, v, nodes[x].sids, nodes[x].health)
  BY <1>3, Zenon
<1>6. (\E c \in Range(Clusters) :
         c.id \in rows /\ <<kind, x, v>> \in About(c.id, c.sids, results[c.id]))
        <=> \E c \in Range(Clusters) : c.id = x /\ x \in rows /\ Says(kind, v, c.sids, results[x])
  BY <1>3, Zenon
<1>7. (\E r \in Range(Systems) : <<kind, x, v>> \in About(r.id, {r.sid}, ""))
        <=> \E r \in Range(Systems) : r.id = x /\ v = (IF kind = "sid" THEN r.sid ELSE "")
  <2>1. ASSUME NEW r \in Range(Systems)
        PROVE  <<kind, x, v>> \in About(r.id, {r.sid}, "")
                 <=> r.id = x /\ v = (IF kind = "sid" THEN r.sid ELSE "")
    <3>1. <<kind, x, v>> \in About(r.id, {r.sid}, "") <=> x = r.id /\ Says(kind, v, {r.sid}, "")
      BY <1>3, Zenon
    <3>2. Says(kind, v, {r.sid}, "") <=> v = (IF kind = "sid" THEN r.sid ELSE "")
      BY DEF Says
    <3>3. QED
      BY <3>1, <3>2, Zenon
  <2>2. QED
    BY <2>1
<1>8. (\E a \in Range(Agents) : <<kind, x, v>> \in About(a.id, a.sids, beats[a.id]))
        <=> \E a \in Range(Agents) : a.id = x /\ Says(kind, v, a.sids, beats[x])
  BY <1>3, Zenon
<1>9. QED
  BY <1>4, <1>5, <1>6, <1>7, <1>8, Zenon

(* Facts told of things of one kind.                                       *)
LEMMA FactsOfHosts ==
  ASSUME WorldTypes, NEW x \in HostSet
  PROVE  /\ <<"here", x, "">> \in Facts <=> x \in DOMAIN nodes
         /\ \A v : <<"health", x, v>> \in Facts <=> x \in DOMAIN nodes /\ v = nodes[x].health
         /\ \A s : <<"sid", x, s>> \in Facts <=> x \in DOMAIN nodes /\ s \in nodes[x].sids
<1>1. /\ \A c \in Range(Clusters) : c.id # x
      /\ \A r \in Range(Systems) : r.id # x
      /\ \A a \in Range(Agents) : a.id # x
  BY Kinds, ClusterRows, AgentRows, SystemRows
<1>2. \A kind \in {"here", "health", "sid"} : \A v : <<kind, x, v>> \in Facts <=>
        x \in DOMAIN nodes /\ Says(kind, v, nodes[x].sids, nodes[x].health)
  <2>1. SUFFICES ASSUME NEW kind \in {"here", "health", "sid"}, NEW v
                  PROVE  <<kind, x, v>> \in Facts <=> x \in DOMAIN nodes /\ Says(kind, v, nodes[x].sids, nodes[x].health)
    OBVIOUS
  <2>2. QED
    BY <1>1, FactsSay
<1>3. QED
  BY <1>2 DEF Says

LEMMA FactsOfClusters ==
  ASSUME WorldTypes, NEW x \in Ids(Clusters)
  PROVE  /\ <<"here", x, "">> \in Facts <=> x \in rows
         /\ \A v : <<"health", x, v>> \in Facts <=> x \in rows /\ v = results[x]
         /\ \A s : <<"sid", x, s>> \in Facts <=> x \in rows /\ s \in Row(Clusters, x).sids
<1>1. /\ x \notin DOMAIN nodes
      /\ \A r \in Range(Systems) : r.id # x
      /\ \A a \in Range(Agents) : a.id # x
  BY Kinds, AgentRows, SystemRows DEF WorldTypes
<1>2. /\ Row(Clusters, x) \in Range(Clusters) /\ Row(Clusters, x).id = x
      /\ \A c \in Range(Clusters) : c.id = x => c = Row(Clusters, x)
  BY ClusterRows
<1>3. \A kind \in {"here", "health", "sid"} : \A v : <<kind, x, v>> \in Facts <=>
        x \in rows /\ Says(kind, v, Row(Clusters, x).sids, results[x])
  <2>1. SUFFICES ASSUME NEW kind \in {"here", "health", "sid"}, NEW v
                  PROVE  <<kind, x, v>> \in Facts <=> x \in rows /\ Says(kind, v, Row(Clusters, x).sids, results[x])
    OBVIOUS
  <2>2. (\E c \in Range(Clusters) : c.id = x /\ x \in rows /\ Says(kind, v, c.sids, results[x]))
          <=> x \in rows /\ Says(kind, v, Row(Clusters, x).sids, results[x])
    BY <1>2
  <2>3. QED
    BY <1>1, <2>2, FactsSay
<1>4. QED
  BY <1>3 DEF Says

LEMMA FactsOfAgents ==
  ASSUME WorldTypes, NEW x \in Ids(Agents)
  PROVE  /\ <<"here", x, "">> \in Facts
         /\ \A v : <<"health", x, v>> \in Facts <=> v = beats[x]
         /\ \A s : <<"sid", x, s>> \in Facts <=> s \in Row(Agents, x).sids
<1>1. /\ x \notin DOMAIN nodes
      /\ \A r \in Range(Systems) : r.id # x
      /\ \A c \in Range(Clusters) : c.id # x
  BY Kinds, ClusterRows, SystemRows DEF WorldTypes
<1>2. /\ Row(Agents, x) \in Range(Agents) /\ Row(Agents, x).id = x
      /\ \A a \in Range(Agents) : a.id = x => a = Row(Agents, x)
  BY AgentRows
<1>3. \A kind \in {"here", "health", "sid"} : \A v : <<kind, x, v>> \in Facts <=>
        Says(kind, v, Row(Agents, x).sids, beats[x])
  <2>1. SUFFICES ASSUME NEW kind \in {"here", "health", "sid"}, NEW v
                  PROVE  <<kind, x, v>> \in Facts <=> Says(kind, v, Row(Agents, x).sids, beats[x])
    OBVIOUS
  <2>2. (\E a \in Range(Agents) : a.id = x /\ Says(kind, v, a.sids, beats[x]))
          <=> Says(kind, v, Row(Agents, x).sids, beats[x])
    BY <1>2
  <2>3. QED
    BY <1>1, <2>2, FactsSay
<1>4. QED
  BY <1>3 DEF Says

LEMMA FactsOfSystems ==
  ASSUME WorldTypes, NEW x \in Ids(Systems)
  PROVE  /\ <<"here", x, "">> \in Facts
         /\ \A s : <<"sid", x, s>> \in Facts <=> s = Row(Systems, x).sid
<1>1. /\ x \notin DOMAIN nodes
      /\ \A a \in Range(Agents) : a.id # x
      /\ \A c \in Range(Clusters) : c.id # x
  BY Kinds, ClusterRows, AgentRows DEF WorldTypes
<1>2. /\ Row(Systems, x) \in Range(Systems) /\ Row(Systems, x).id = x
      /\ \A r \in Range(Systems) : r.id = x => r = Row(Systems, x)
  BY SystemRows
<1>3. ASSUME NEW kind \in {"here", "health", "sid"}, NEW v
      PROVE  <<kind, x, v>> \in Facts <=> v = IF kind = "sid" THEN Row(Systems, x).sid ELSE ""
  <2>1. <<kind, x, v>> \in Facts <=>
          \E r \in Range(Systems) : r.id = x /\ v = (IF kind = "sid" THEN r.sid ELSE "")
    <3> DEFINE Told(r) == r.id = x /\ v = (IF kind = "sid" THEN r.sid ELSE "")
    <3>1. <<kind, x, v>> \in Facts <=>
            \/ x \in DOMAIN nodes /\ Says(kind, v, nodes[x].sids, nodes[x].health)
            \/ \E c \in Range(Clusters) : c.id = x /\ x \in rows /\ Says(kind, v, c.sids, results[x])
            \/ \E r \in Range(Systems) : Told(r)
            \/ \E a \in Range(Agents) : a.id = x /\ Says(kind, v, a.sids, beats[x])
      BY FactsSay, Zenon
    <3> HIDE DEF Told
    <3>2. <<kind, x, v>> \in Facts <=> \E r \in Range(Systems) : Told(r)
      BY <1>1, <3>1
    <3>3. QED
      BY <3>2 DEF Told
  <2>2. QED
    BY <1>2, <2>1
<1>4. QED
  BY <1>3

LEMMA FactsOfTags ==
  ASSUME WorldTypes, NEW type \in TagTypes, NEW id
  PROVE  \A v : <<type, id, v>> \in Facts <=> v \in TagsOf(type, id)
<1>1. type # "here" /\ type # "health" /\ type # "sid"
  BY DEF TagTypes
<1>2. ASSUME NEW v PROVE <<type, id, v>> \in Facts <=> v \in TagsOf(type, id)
  <2>1. \A x, SIDs, health : <<type, id, v>> \notin About(x, SIDs, health)
    BY <1>1, AboutSays DEF Says
  <2>2. <<type, id, v>> \in Facts <=> \E t \in tags : <<type, id, v>> = <<t.type, t.id, t.value>>
    BY <2>1, FactsAre
  <2>3. v \in TagsOf(type, id) <=> \E t \in tags : t.type = type /\ t.id = id /\ t.value = v
    BY DEF TagsOf
  <2>4. QED
    BY <2>2, <2>3
<1>3. QED
  BY <1>2

(* A fact of SIDs is told of something by its identifier.                  *)
LEMMA FactsOfSIDs ==
  ASSUME WorldTypes, NEW f \in Facts, f[1] = "sid"
  PROVE  f = <<"sid", f[2], f[3]>>
<1>1. \A t \in tags : t.type # "sid"
  BY DEF WorldTypes, TagTypes
<1>2. \A t \in tags : f # <<t.type, t.id, t.value>>
  BY <1>1
<1>3. \A id, SIDs, health : f \in About(id, SIDs, health) => \E s : f = <<"sid", id, s>>
  <2>1. SUFFICES ASSUME NEW id, NEW SIDs, NEW health, f \in About(id, SIDs, health)
                  PROVE  \E s : f = <<"sid", id, s>>
    OBVIOUS
  <2>2. <<"here", id, "">>[1] = "here" /\ <<"health", id, health>>[1] = "health"
    OBVIOUS
  <2>3. QED
    BY <2>1, <2>2 DEF About
<1>4. \E id, s : f = <<"sid", id, s>>
  BY <1>2, <1>3, FactsAre
<1>5. QED
  BY <1>4

-----------------------------------------------------------------------------
(* Steps of others than the reader leave what was read as it is.           *)

LEMMA BeforeIsFinite ==
  ASSUME NEW x, NEW facts
  PROVE  /\ IsFiniteSet(Before(x, facts)) /\ Cardinality(Before(x, facts)) \in Nat
         /\ IsFiniteSet(Ids(Clusters))
<1>1. IsFiniteSet(Range(Column(Clusters, "id")))
  BY ClusterRows, DistinctLength
<1>2. IsFiniteSet(Ids(Clusters)) /\ Before(x, facts) \subseteq Ids(Clusters)
  BY <1>1, ClusterRows DEF Before
<1>3. QED
  BY <1>2, FS_Subset, FS_CardinalityType

(* With less that held all the time and more that held once, fewer things  *)
(* are sure to be listed.                                                  *)
LEMMA FewerAreWanted ==
  ASSUME asked' = asked, spent'.faults = spent.faults, always' \subseteq always, ever \subseteq ever',
         asked.page \in Int, asked.size \in Int, NEW x, Wanted(x)'
  PROVE  Wanted(x)
<1>1. Meets(x, always) /\ MeetsCluster(x) /\ Healthy(x, always) /\ spent.faults = 0
  BY DEF Wanted, Meets, MeetsCluster, Healthy, Kind
<1>2. Offset(asked.page, asked.size) \in Nat
  BY PaginateElements, EmptySeq
<1>3. InWindow(x)
  <2> DEFINE A == Before(x, always)
             E == Before(x, ever)
  <2>1. A' \subseteq A /\ E \subseteq E'
    BY DEF Before, Meets, Kind
  <2>2. /\ IsFiniteSet(A) /\ IsFiniteSet(A') /\ Cardinality(A) \in Nat /\ Cardinality(A') \in Nat
        /\ IsFiniteSet(E) /\ IsFiniteSet(E') /\ Cardinality(E) \in Nat /\ Cardinality(E') \in Nat
    <3>1. \A facts : IsFiniteSet(Before(x, facts)) /\ Cardinality(Before(x, facts)) \in Nat
      BY BeforeIsFinite
    <3>2. (\A facts : IsFiniteSet(Before(x, facts)) /\ Cardinality(Before(x, facts)) \in Nat)'
      BY asked' = asked, <3>1 DEF Before, Meets, Kind
    <3>3. QED
      BY <3>1, <3>2
  <2>3. Cardinality(A') <= Cardinality(A) /\ Cardinality(E) <= Cardinality(E')
    BY <2>1, <2>2, FS_Subset
  <2>4. InWindow(x)'
    BY DEF Wanted
  <2> DEFINE o == Offset(asked.page, asked.size)
             a == Cardinality(A)
             e == Cardinality(E)
  <2>5. asked.op = "clusters" /\ Plain =>
          /\ Offset(asked.page, asked.size) < Cardinality(A')
          /\ asked.size > 0 => Cardinality(E') <= Offset(asked.page, asked.size) + asked.size
    BY <2>4 DEF InWindow, Plain
  <2> HIDE DEF A, E
  <2>6. asked.op = "clusters" /\ Plain =>
          /\ Offset(asked.page, asked.size) < Cardinality(A)
          /\ asked.size > 0 => Cardinality(E) <= Offset(asked.page, asked.size) + asked.size
    BY <1>2, <2>2, <2>3, <2>5
  <2>7. QED
    BY <2>6 DEF InWindow, A, E
<1>4. QED
  BY <1>1, <1>3 DEF Wanted

(* What is said of one request stays said of it, and what may be offered.  *)
LEMMA SameQuestion ==
  ASSUME asked' = asked
  PROVE  /\ Everything' = Everything /\ Kind' = Kind /\ IsList' = IsList
         /\ \A f : MayOffer(f)' <=> MayOffer(f)
<1>1. Everything' = Everything /\ Kind' = Kind /\ IsList' = IsList
  BY DEF Everything, Kind, IsList
<1>2. QED
  BY <1>1 DEF MayOffer

LEMMA OthersKeepReading ==
  ASSUME WorldTypes, WorldTypes', RequestTypes, Reading, ReadingInv,
         UNCHANGED reader, spent'.faults = spent.faults, rows \subseteq rows',
         always' \subseteq always, ever \subseteq ever'
  PROVE  ReadingInv'
<1> USE DEF reader
<1>1. /\ asked' = asked /\ pc' = pc /\ todo' = todo /\ list' = list /\ shown' = shown
      /\ loaded' = loaded /\ counted' = counted /\ offered' = offered
      /\ asked.page \in Int /\ asked.size \in Int
      /\ always' \subseteq always /\ ever \subseteq ever' /\ spent'.faults = spent.faults
  BY DEF RequestTypes, Reading
<1>2. (pc \in Way)' /\ (pc = "load" => Blank)'
  BY <1>1 DEF ReadingInv, Way, Blank
<1>3. ListTypes'
  BY <1>1 DEF ReadingInv, ListTypes, Listed, ToDo, Everything
<1>4. ListIsSound'
  <2>1. ListIsSound
    BY DEF ReadingInv
  <2>2. ASSUME NEW x, HasBeenHere(x) PROVE HasBeenHere(x)'
    BY <1>1, <2>2 DEF HasBeenHere, MeetsLast
  <2>3. ASSUME NEW x, HasBeenTagged(x) PROVE HasBeenTagged(x)'
    BY <1>1, <2>3 DEF HasBeenTagged, Kind
  <2>4. ASSUME NEW x, HasBeenHealthy(x) PROVE HasBeenHealthy(x)'
    BY <1>1, <2>4 DEF HasBeenHealthy, Healthy
  <2>5. Listed' = Listed /\ ToDo' = ToDo
    BY <1>1 DEF Listed, ToDo
  <2>6. QED
    BY <1>1, <2>1, <2>2, <2>3, <2>4, <2>5 DEF ListIsSound
<1>5. ListIsComplete'
  <2>1. \A x : Wanted(x)' => Wanted(x)
    BY <1>1, FewerAreWanted
  <2>2. Everything' = Everything /\ Listed' = Listed /\ ToDo' = ToDo
    BY <1>1 DEF Everything, Listed, ToDo
  <2>3. QED
    BY <1>1, <2>1, <2>2 DEF ReadingInv, ListIsComplete
<1>6. ShownIsSound'
  BY <1>1 DEF ReadingInv, ShownIsSound, Kind, Everything
<1>7. LoadedIsSound'
  BY <1>1 DEF ReadingInv, LoadedIsSound
<1>8. CountedIsSound'
  BY <1>1 DEF ReadingInv, CountedIsSound
<1>9. AllIsRead'
  BY <1>1 DEF ReadingInv, AllIsRead, Listed, ToDo
<1>10. ChoicesAreSound'
  <2>1. Everything' = Everything /\ \A f : MayOffer(f)' <=> MayOffer(f)
    BY <1>1, SameQuestion
  <2>2. QED
    BY <1>1, <2>1 DEF ReadingInv, ChoicesAreSound
<1>11. ChoicesAreComplete'
  BY <1>1 DEF ReadingInv, ChoicesAreComplete, TagsAreOffered, SIDsAreOffered, TypesAreOffered,
              Listed, Kind
<1>12. RowsAreThere'
  <2>1. IsFiniteSet(rows) /\ IsFiniteSet(rows')
    BY BeforeIsFinite, FS_Subset DEF WorldTypes
  <2>2. /\ Cardinality(rows) \in Nat /\ Cardinality(rows') \in Nat
        /\ Cardinality(rows) <= Cardinality(rows')
    BY <2>1, FS_Subset, FS_CardinalityType
  <2>3. (asked.page - 1) * asked.size \in Int
    BY <1>1
  <2> DEFINE first == (asked.page - 1) * asked.size
  <2>4. first' = first /\ first \in Int
    BY <1>1, <2>3
  <2> HIDE DEF first
  <2>5. RowsAreThere <=>
          /\ asked.op = "clusters" => Listed \subseteq rows
          /\ asked.op = "clusters" /\ Plain /\ asked.size > 0 /\ asked.page > 0 /\ list # <<>> =>
               first < Cardinality(rows)
    BY DEF RowsAreThere, first
  <2>6. RowsAreThere' <=>
          /\ asked.op = "clusters" => Listed \subseteq rows'
          /\ asked.op = "clusters" /\ Plain /\ asked.size > 0 /\ asked.page > 0 /\ list # <<>> =>
               first < Cardinality(rows')
    BY <1>1, <2>4 DEF RowsAreThere, Listed, Plain, first
  <2>7. RowsAreThere
    BY DEF ReadingInv
  <2>8. first < Cardinality(rows) => first < Cardinality(rows')
    BY <2>2, <2>4
  <2>9. QED
    BY <2>5, <2>6, <2>7, <2>8
<1>13. QED
  BY <1>2, <1>3, <1>4, <1>5, <1>6, <1>7, <1>8, <1>9, <1>10, <1>11, <1>12 DEF ReadingInv

(* An answer stays what it is.                                             *)
LEMMA AnswerStays ==
  ASSUME AnswerInv, UNCHANGED <<asked, pc, list, shown, offered, answer, always, ever>>,
         spent'.faults = spent.faults, asked.page \in Int, asked.size \in Int
  PROVE  AnswerInv'
<1>1. ListIsRegular'
  <2>1. \A x : Wanted(x)' => Wanted(x)
    BY FewerAreWanted
  <2>2. Everything' = Everything
    BY DEF Everything
  <2>3. \A x : Wanted(x) <=> /\ Meets(x, always) /\ MeetsCluster(x) /\ Healthy(x, always) /\ InWindow(x)
                             /\ spent.faults = 0
    BY DEF Wanted
  <2>4. \A x : Wanted(x)' <=>
                 (/\ Meets(x, always) /\ MeetsCluster(x) /\ Healthy(x, always) /\ InWindow(x)
                  /\ spent.faults = 0)'
    BY DEF Wanted
  <2>5. \A x : Healthy(x, ever)' = Healthy(x, ever)
    BY DEF Healthy
  <2>6. QED
    BY <2>1, <2>2, <2>3, <2>4, <2>5 DEF AnswerInv, ListIsRegular, MeetsLast, Answered, IsList, Kind
<1>2. ChoicesAreRegular'
  <2>1. /\ Everything' = Everything /\ Kind' = Kind /\ IsList' = IsList /\ Answered' = Answered
        /\ \A f : MayOffer(f)' <=> MayOffer(f)
    BY SameQuestion DEF Answered
  <2>2. QED
    BY <2>1 DEF AnswerInv, ChoicesAreRegular
<1>3. PageIsTheWindow'
  BY DEF AnswerInv, PageIsTheWindow
<1>4. FooterCoversTheList'
  BY DEF AnswerInv, FooterCoversTheList, Answered, Plain
<1>5. QED
  BY <1>1, <1>2, <1>3, <1>4 DEF AnswerInv

LEMMA OthersKeep ==
  ASSUME Inv, WorldTypes', RequestTypes', UNCHANGED reader, spent'.faults = spent.faults,
         rows \subseteq rows', Idle => UNCHANGED <<always, ever>>,
         Reading => always' \subseteq always /\ ever \subseteq ever'
  PROVE  Inv'
<1>1. pc' = pc /\ Reading' = Reading
  BY DEF reader, Reading
<1>2. CASE Reading
  <2>1. ReadingInv'
    BY <1>2, OthersKeepReading DEF Inv
  <2>2. pc' # "done" /\ pc' # "idle"
    BY <1>1, <1>2 DEF Reading
  <2>3. QED
    BY <2>1, <2>2 DEF Inv
<1>3. CASE pc = "done"
  <2>1. AnswerInv'
    BY <1>3, AnswerStays DEF Inv, RequestTypes, reader, Idle
  <2>2. ~Reading' /\ pc' # "idle"
    BY <1>1, <1>3 DEF Reading
  <2>3. QED
    BY <2>1, <2>2 DEF Inv
<1>4. CASE pc = "idle"
  <2>1. ~Reading' /\ pc' # "done"
    BY <1>1, <1>4 DEF Reading
  <2>2. Blank'
    BY <1>4 DEF Inv, Blank, reader
  <2>3. QED
    BY <2>1, <2>2 DEF Inv
<1>5. QED
  BY <1>2, <1>3, <1>4 DEF Reading

(* What happens in the world is witnessed.                                 *)
LEMMA WitnessedKeeps ==
  ASSUME Inv, WorldTypes', UNCHANGED reader, spent'.faults = spent.faults,
         rows \subseteq rows', Witnessed
  PROVE  Inv'
<1>1. Idle => UNCHANGED <<always, ever>>
  BY DEF Witnessed
<1>2. Reading => always' = always \cap Facts' /\ ever' = ever \cup Facts'
  BY DEF Witnessed, Idle, Reading
<1>3. RequestTypes'
  <2>1. Reading' => always' \subseteq Facts' /\ Facts' \subseteq ever'
    BY <1>2 DEF Reading, reader
  <2>2. /\ pc' \in Places
        /\ pc' # "idle" =>
             /\ asked'.op \in Ops /\ asked'.sids \in Seq(STRING)
             /\ asked'.page \in Int /\ asked'.size \in Int
             /\ asked'.op \notin {"hosts", "clusters", "hosts_next"} => asked'.health = {}
    BY DEF Inv, RequestTypes, reader
  <2>3. QED
    BY <2>1, <2>2 DEF RequestTypes
<1>4. QED
  BY <1>1, <1>2, <1>3, OthersKeep

LEMMA ChangesKeep ==
  ASSUME Inv, NodeChanges \/ ClusterComes \/ HealthChanges
  PROVE  Inv'
<1>1. /\ UNCHANGED <<tags, edit, reader>> /\ Witnessed
      /\ spent' = [spent EXCEPT !.changes = @ + 1]
  BY DEF NodeChanges, ClusterComes, HealthChanges, Changed
<1>2. spent'.faults = spent.faults /\ DOMAIN spent' = DOMAIN spent
  BY <1>1 DEF Inv, WorldTypes
<1>3. DOMAIN nodes' \subseteq HostSet
  BY DEF NodeChanges, ClusterComes, HealthChanges, Inv, WorldTypes
<1>4. rows \subseteq rows' /\ rows' \subseteq Ids(Clusters) /\ trees' \subseteq Ids(Clusters)
  <2>1. rows \subseteq Ids(Clusters) /\ trees \subseteq Ids(Clusters)
    BY DEF Inv, WorldTypes
  <2>2. CASE NodeChanges
    BY <2>1, <2>2 DEF NodeChanges
  <2>3. CASE ClusterComes
    <3>1. \/ \E c \in Ids(Clusters) \ trees : trees' = trees \cup {c} /\ rows' = rows
          \/ \E c \in trees \ rows : rows' = rows \cup {c} /\ trees' = trees
      BY <2>3 DEF ClusterComes
    <3>2. QED
      BY <2>1, <3>1
  <2>4. CASE HealthChanges
    BY <2>1, <2>4 DEF HealthChanges
  <2>5. QED
    BY <2>2, <2>3, <2>4
<1>5. WorldTypes'
  BY <1>1, <1>2, <1>3, <1>4 DEF Inv, WorldTypes
<1>6. QED
  BY <1>1, <1>2, <1>4, <1>5, WitnessedKeeps

LEMMA SameFacts ==
  ASSUME nodes' = nodes, rows' = rows, results' = results, beats' = beats, tags' = tags
  PROVE  Facts' = Facts
<1> DEFINE H == {About(h, nodes[h].sids, nodes[h].health) : h \in DOMAIN nodes}
           C == {About(c.id, c.sids, results[c.id]) : c \in {d \in Range(Clusters) : d.id \in rows}}
           S == {About(s.id, {s.sid}, "") : s \in Range(Systems)}
           A == {About(a.id, a.sids, beats[a.id]) : a \in Range(Agents)}
           T == {<<t.type, t.id, t.value>> : t \in tags}
<1>1. Facts = (UNION (H \cup C \cup S \cup A)) \cup T
  BY Zenon DEF Facts, About
<1>2. Facts' = (UNION (H' \cup C' \cup S' \cup A')) \cup T'
  BY Zenon DEF Facts, About
<1>3. H' = H /\ C' = C /\ S' = S /\ A' = A /\ T' = T
  OBVIOUS
<1> HIDE DEF H, C, S, A, T
<1>4. QED
  BY <1>1, <1>2, <1>3, Zenon

LEMMA LookUpKeeps ==
  ASSUME Inv, NEW e \in Editors,
         ApiHostTag(e) \/ ApiClusterTag(e) \/ ApiSAPSystemTag(e) \/ ApiDatabaseTag(e)
  PROVE  Inv'
<1>1. PICK type \in TagTypes : \E existing : LookUp(e, type, existing)
  BY DEF ApiHostTag, ApiClusterTag, ApiSAPSystemTag, ApiDatabaseTag, TagTypes
<1>2. /\ UNCHANGED <<World, tags, reader, always, ever>>
      /\ spent' = [spent EXCEPT !.edits = @ + 1]
      /\ \E op, id, value :
           edit' = [edit EXCEPT ![e] = [pc |-> "found", op |-> op, tag |-> Tag(type, id, value)]]
  BY <1>1 DEF LookUp
<1>3. spent'.faults = spent.faults /\ DOMAIN spent' = DOMAIN spent
  BY <1>2 DEF Inv, WorldTypes
<1>4. PICK op, id, value :
        edit' = [edit EXCEPT ![e] = [pc |-> "found", op |-> op, tag |-> Tag(type, id, value)]]
  BY <1>2
<1>5. /\ edit' = [d \in Editors |-> edit'[d]]
      /\ \A d \in Editors : edit'[d].pc = "found" => edit'[d].tag.type \in TagTypes
  <2>1. edit = [d \in Editors |-> edit[d]]
    BY DEF Inv, WorldTypes
  <2>2. \A d \in Editors : edit'[d] = IF d = e THEN [pc |-> "found", op |-> op, tag |-> Tag(type, id, value)]
                                      ELSE edit[d]
    BY <1>4, <2>1
  <2>3. edit' = [d \in Editors |-> edit'[d]]
    BY <1>4, <2>1
  <2>4. QED
    BY <1>1, <2>2, <2>3 DEF Inv, WorldTypes, Tag
<1>6. WorldTypes'
  BY <1>2, <1>3, <1>5 DEF Inv, WorldTypes, World
<1>7. Facts' = Facts
  <2>1. nodes' = nodes /\ rows' = rows /\ results' = results /\ beats' = beats /\ tags' = tags
    BY <1>2 DEF World
  <2>2. QED
    BY <2>1, SameFacts
<1>8. RequestTypes'
  BY <1>2, <1>7 DEF Inv, RequestTypes, Reading, reader
<1>9. QED
  BY <1>2, <1>3, <1>6, <1>8, OthersKeep DEF World

LEMMA WriteTagKeeps ==
  ASSUME Inv, NEW e \in Editors, WriteTag(e)
  PROVE  Inv'
<1>1. /\ UNCHANGED <<World, reader, spent>> /\ Witnessed
      /\ edit' = [edit EXCEPT ![e] = [pc |-> "idle"]]
  BY DEF WriteTag
<1>2. \A t \in tags' : t.type \in TagTypes
  BY DEF WriteTag, Insert, Delete, Refuse, Inv, WorldTypes
<1>3. /\ edit' = [d \in Editors |-> edit'[d]]
      /\ \A d \in Editors : edit'[d].pc = "found" => edit'[d].tag.type \in TagTypes
  <2>1. edit = [d \in Editors |-> edit[d]]
    BY DEF Inv, WorldTypes
  <2>2. edit' = [d \in Editors |-> edit'[d]]
    BY <1>1, <2>1
  <2>3. \A d \in Editors : edit'[d] = IF d = e THEN [pc |-> "idle"] ELSE edit[d]
    BY <1>1, <2>1
  <2>4. [pc |-> "idle"].pc # "found"
    OBVIOUS
  <2>5. QED
    BY <2>2, <2>3, <2>4 DEF Inv, WorldTypes
<1>4. WorldTypes'
  BY <1>1, <1>2, <1>3 DEF Inv, WorldTypes, World
<1>5. QED
  BY <1>1, <1>4, WitnessedKeeps DEF World

-----------------------------------------------------------------------------
(* The reader's own steps.                                                 *)

LEMMA ReaderTypes ==
  ASSUME WorldTypes, UNCHANGED Others, NoFault \/ Fault
  PROVE  WorldTypes' /\ Facts' = Facts /\ rows' = rows
<1>1. /\ nodes' = nodes /\ trees' = trees /\ rows' = rows /\ results' = results
      /\ beats' = beats /\ tags' = tags /\ edit' = edit
  BY DEF Others, World
<1>2. Facts' = Facts
  BY <1>1, SameFacts
<1>3. spent'.faults \in Nat /\ DOMAIN spent' = {"edits", "changes", "faults"}
  BY DEF NoFault, Fault, WorldTypes
<1>4. WorldTypes'
  BY <1>1, <1>3 DEF WorldTypes
<1>5. QED
  BY <1>1, <1>2, <1>4

LEMMA StepTypes ==
  ASSUME Inv, Reading, UNCHANGED <<Others, asked, always, ever>>, NoFault \/ Fault, pc' \in Places,
         pc' # "idle"
  PROVE  /\ WorldTypes' /\ RequestTypes' /\ Facts' = Facts /\ rows' = rows
         /\ always \subseteq Facts /\ Facts \subseteq ever
         /\ asked.page \in Int /\ asked.size \in Int /\ asked.op \in Ops /\ asked.sids \in Seq(STRING)
         /\ asked.op \notin {"hosts", "clusters", "hosts_next"} => asked.health = {}
         /\ spent.faults \in Nat
<1>1. WorldTypes' /\ Facts' = Facts /\ rows' = rows
  BY ReaderTypes DEF Inv
<1>2. /\ always \subseteq Facts /\ Facts \subseteq ever
      /\ asked.page \in Int /\ asked.size \in Int /\ asked.op \in Ops /\ asked.sids \in Seq(STRING)
      /\ asked.op \notin {"hosts", "clusters", "hosts_next"} => asked.health = {}
      /\ spent.faults \in Nat
  BY DEF Inv, RequestTypes, WorldTypes, Reading
<1>3. RequestTypes'
  BY <1>1, <1>2 DEF RequestTypes
<1>4. QED
  BY <1>1, <1>2, <1>3

LEMMA Initially == Init => Inv
<1> SUFFICES ASSUME Init PROVE Inv
  OBVIOUS
<1>1. DOMAIN nodes \subseteq HostSet
  BY ConsoleAssumption DEF Init
<1>2. trees \subseteq Ids(Clusters) /\ rows = trees
  <2> DEFINE S == [id : STRING, name : STRING, type : STRING, sids : SUBSET STRING]
  <2>1. Clusters \in Seq(S)
    BY ConsoleAssumption
  <2> HIDE DEF S
  <2>2. Range(Front(Clusters)) \subseteq Range(Clusters)
    <3>1. Len(Clusters) \in Nat /\ DOMAIN Clusters = 1 .. Len(Clusters)
      BY <2>1, LenProperties
    <3>2. CASE Len(Clusters) = 0
      <4>1. Len(Clusters) - 1 = 0 - 1
        BY <3>2
      <4>2. Front(Clusters) = <<>>
        BY <2>1, <3>2 DEF Front
      <4>3. QED
        BY <4>2 DEF Range
    <3>3. CASE Len(Clusters) > 0
      <4>1. Len(Clusters) - 1 \in Nat /\ Len(Clusters) - 1 <= Len(Clusters)
        BY <3>1, <3>3
      <4>2. /\ Front(Clusters) \in Seq(S)
            /\ \A q \in 1 .. Len(Front(Clusters)) :
                 \E i \in 1 .. Len(Clusters) : Front(Clusters)[q] = Clusters[i]
        BY <2>1, <4>1, Sliced DEF Front
      <4>3. DOMAIN Front(Clusters) = 1 .. Len(Front(Clusters))
        BY <4>2, LenProperties
      <4>4. QED
        BY <3>1, <4>2, <4>3 DEF Range
    <3>4. QED
      BY <3>1, <3>2, <3>3
  <2>3. QED
    BY <2>2 DEF Init, Ids
<1>3. \A t \in tags : t.type \in TagTypes
  BY ConsoleAssumption DEF Init
<1>4. /\ edit = [e \in Editors |-> edit[e]]
      /\ \A e \in Editors : edit[e].pc = "found" => edit[e].tag.type \in TagTypes
  BY DEF Init
<1>5. spent.faults \in Nat /\ DOMAIN spent = {"edits", "changes", "faults"}
  BY DEF Init
<1>6. WorldTypes
  BY <1>1, <1>2, <1>3, <1>4, <1>5 DEF WorldTypes
<1>7. QED
  BY <1>6 DEF Init, Inv, RequestTypes, Places, Reading, Blank

LEMMA FailKeeps ==
  ASSUME Inv, Fail PROVE Inv'
<1>1. /\ pc' = "done" /\ answer' = [NoAnswer EXCEPT !.status = "error"] /\ Reading
      /\ UNCHANGED <<Others, asked, always, ever>> /\ Fault
  BY DEF Fail, Reading
<1>2. WorldTypes' /\ RequestTypes'
  BY <1>1, StepTypes DEF Places
<1>3. answer'.status = "error"
  BY <1>1 DEF NoAnswer
<1>4. AnswerInv'
  BY <1>3 DEF AnswerInv, ListIsRegular, ChoicesAreRegular, PageIsTheWindow, FooterCoversTheList, Answered
<1>5. QED
  BY <1>1, <1>2, <1>4 DEF Inv, Reading

LEMMA ForgetKeeps ==
  ASSUME Inv, Forget PROVE Inv'
<1>1. pc' = "idle" /\ UNCHANGED <<Others, spent>>
  BY DEF Forget, Reset
<1>2. WorldTypes'
  BY <1>1, ReaderTypes DEF Inv, NoFault
<1>3. Blank'
  BY DEF Forget, Reset, Blank
<1>4. QED
  BY <1>1, <1>2, <1>3 DEF Inv, RequestTypes, Places, Reading

LEMMA AskKeeps ==
  ASSUME Inv, Ask PROVE Inv'
<1>1. /\ pc' = "load" /\ always' = Facts /\ ever' = Facts /\ UNCHANGED <<Others, spent>>
      /\ UNCHANGED <<todo, list, shown, loaded, counted, offered>> /\ pc = "idle"
  BY DEF Ask
<1>2. WorldTypes' /\ Facts' = Facts
  BY <1>1, ReaderTypes DEF Inv, NoFault
<1>3. Blank'
  BY <1>1 DEF Inv, Blank
<1>4. /\ asked'.op \in Ops /\ asked'.sids \in Seq(STRING)
      /\ asked'.page \in Int /\ asked'.size \in Int
      /\ asked'.op \notin {"hosts", "clusters", "hosts_next"} => asked'.health = {}
  <2>1. PICK q \in Questions : asked' = [q EXCEPT !.page = Atoi(@, 1), !.size = Atoi(@, 10)]
    BY DEF Ask
  <2>2. /\ q \in [op : Ops, sids : Seq(STRING), name : SUBSET STRING, type : SUBSET STRING,
                    tags : SUBSET STRING, health : SUBSET STRING,
                    page : Int \cup {NotANumber}, size : Int \cup {NotANumber}]
        /\ q.op \notin {"hosts", "clusters", "hosts_next"} => q.health = {}
    BY ConsoleAssumption
  <2>3. Atoi(q.page, 1) \in Int /\ Atoi(q.size, 10) \in Int
    BY <2>2 DEF Atoi
  <2>4. QED
    BY <2>1, <2>2, <2>3
<1>5. RequestTypes'
  BY <1>1, <1>2, <1>4 DEF RequestTypes, Places
<1>6. ReadingInv'
  <2>1. /\ todo' = <<>> /\ list' = <<>> /\ Listed' = {} /\ ToDo' = {}
        /\ DOMAIN shown' = {} /\ DOMAIN loaded' = {} /\ DOMAIN counted' = {}
        /\ offered'.tags = {} /\ offered'.sids = {} /\ offered'.types = {}
        /\ DOMAIN offered' = {"tags", "sids", "types"}
    BY <1>3 DEF Blank, Listed, ToDo, Range, NoFunction, NoChoice
  <2>2. (pc \in Way)'
    BY <1>1, <1>4 DEF Way, Ops
  <2>3. ListTypes'
    BY <1>1, <2>1 DEF ListTypes, IsInjective
  <2>4. ListIsSound' /\ ListIsComplete'
    BY <1>1, <2>1 DEF ListIsSound, ListIsComplete
  <2>5. ShownIsSound' /\ LoadedIsSound' /\ CountedIsSound' /\ AllIsRead'
    BY <1>1, <2>1 DEF ShownIsSound, LoadedIsSound, CountedIsSound, AllIsRead
  <2>6. ChoicesAreSound' /\ ChoicesAreComplete' /\ RowsAreThere'
    BY <1>1, <2>1 DEF ChoicesAreSound, ChoicesAreComplete, RowsAreThere
  <2>7. QED
    BY <1>3, <2>2, <2>3, <2>4, <2>5, <2>6 DEF ReadingInv
<1>7. QED
  BY <1>1, <1>2, <1>5, <1>6 DEF Inv, Reading


-----------------------------------------------------------------------------
(* What a step of the reader needs of lists and of functions.              *)

LEMMA OverItsRange ==
  ASSUME NEW S, NEW s \in Seq(S) PROVE s \in Seq(Range(s))
<1>1. s \in [1 .. Len(s) -> S] /\ Len(s) \in Nat
  BY LenProperties
<1>2. s \in [1 .. Len(s) -> Range(s)]
  BY <1>1 DEF Range
<1>3. QED
  BY <1>1, <1>2

LEMMA HeadAndTail ==
  ASSUME NEW S, NEW s \in Seq(S), IsInjective(s), s # <<>>
  PROVE  /\ Head(s) \in S /\ Tail(s) \in Seq(S) /\ IsInjective(Tail(s))
         /\ Range(s) = {Head(s)} \cup Range(Tail(s)) /\ Head(s) \notin Range(Tail(s))
<1>1. s \in [1 .. Len(s) -> S] /\ Len(s) \in Nat /\ Len(s) > 0
  BY LenProperties, EmptySeq
<1>2. /\ Head(s) = s[1] /\ Tail(s) \in Seq(S) /\ Len(Tail(s)) = Len(s) - 1
      /\ \A i \in 1 .. Len(Tail(s)) : Tail(s)[i] = s[i + 1]
  BY HeadTailProperties
<1>3. DOMAIN Tail(s) = 1 .. Len(s) - 1 /\ DOMAIN s = 1 .. Len(s)
  BY <1>1, <1>2, LenProperties
<1> DEFINE t == Tail(s)
           n == Len(s)
<1>4. \A i \in 1 .. n - 1 : t[i] = s[i + 1] /\ i + 1 \in 1 .. n /\ i + 1 # 1
  BY <1>1, <1>2, <1>3
<1>5. \A k \in 1 .. n : k = 1 \/ (k - 1 \in 1 .. n - 1 /\ (k - 1) + 1 = k)
  BY <1>1
<1>6. \A i, j \in 1 .. n - 1 : i + 1 = j + 1 => i = j
  BY <1>1
<1>7. Range(t) = {t[i] : i \in 1 .. n - 1} /\ Range(s) = {s[i] : i \in 1 .. n} /\ 1 \in 1 .. n
  <2>1. 1 \in 1 .. n
    BY <1>1
  <2>2. Range(t) = {t[i] : i \in DOMAIN t} /\ Range(s) = {s[i] : i \in DOMAIN s}
    BY DEF Range
  <2>3. QED
    BY <1>3, <2>1, <2>2
<1>8. \A i, j \in 1 .. n : s[i] = s[j] => i = j
  BY <1>3 DEF IsInjective
<1> HIDE DEF t, n
<1>9. \A i, j \in 1 .. n - 1 : t[i] = t[j] => i = j
  BY <1>4, <1>6, <1>8
<1>10. s[1] \notin Range(t)
  BY <1>4, <1>7, <1>8
<1>11. Range(s) = {s[1]} \cup Range(t)
  <2>1. \A k \in 1 .. n : s[k] \in {s[1]} \cup Range(t)
    <3>1. SUFFICES ASSUME NEW k \in 1 .. n, k # 1 PROVE s[k] \in Range(t)
      OBVIOUS
    <3>2. k - 1 \in 1 .. n - 1 /\ (k - 1) + 1 = k
      BY <1>5, <3>1
    <3>3. t[k - 1] = s[k]
      BY <1>4, <3>2
    <3>4. QED
      BY <1>7, <3>2, <3>3
  <2>2. \A i \in 1 .. n - 1 : t[i] \in Range(s)
    BY <1>4, <1>7
  <2>3. QED
    BY <1>7, <2>1, <2>2
<1>12. IsInjective(t)
  BY <1>3, <1>9 DEF IsInjective, t, n
<1>13. QED
  BY <1>1, <1>2, <1>7, <1>10, <1>11, <1>12 DEF t, n

LEMMA AppendDistinct ==
  ASSUME NEW S, NEW s \in Seq(S), IsInjective(s), NEW x \in S, x \notin Range(s)
  PROVE  /\ Append(s, x) \in Seq(S) /\ IsInjective(Append(s, x))
         /\ Range(Append(s, x)) = Range(s) \cup {x}
<1> DEFINE t == Append(s, x)
           n == Len(s)
<1>1. /\ t \in Seq(S) /\ n \in Nat /\ Len(t) = n + 1 /\ t[n + 1] = x
      /\ \A i \in 1 .. n : t[i] = s[i]
  BY AppendProperties, LenProperties
<1>2. DOMAIN t = 1 .. n + 1 /\ DOMAIN s = 1 .. n
  BY <1>1, LenProperties
<1>3. \A i \in 1 .. n + 1 : i \in 1 .. n \/ i = n + 1
  BY <1>1
<1>4. \A i \in 1 .. n : i \in 1 .. n + 1 /\ i # n + 1
  BY <1>1
<1>5. n + 1 \in 1 .. n + 1
  BY <1>1
<1>6. Range(t) = {t[i] : i \in 1 .. n + 1} /\ Range(s) = {s[i] : i \in 1 .. n}
  BY <1>2 DEF Range
<1>7. \A i, j \in 1 .. n : s[i] = s[j] => i = j
  BY <1>2 DEF IsInjective
<1> HIDE DEF t, n
<1> DEFINE m == n + 1
<1>8. /\ t[m] = x /\ m \in 1 .. m /\ Range(t) = {t[i] : i \in 1 .. m}
      /\ \A i \in 1 .. m : i \in 1 .. n \/ i = m
      /\ \A i \in 1 .. n : i \in 1 .. m /\ i # m
  BY <1>1, <1>3, <1>4, <1>5, <1>6
<1>9. DOMAIN t = 1 .. m
  BY <1>2 DEF t, n
<1> HIDE DEF m
<1>10. Range(t) = Range(s) \cup {x}
  BY <1>1, <1>6, <1>8
<1>11. \A i, j \in 1 .. m : t[i] = t[j] => i = j
  BY <1>1, <1>6, <1>7, <1>8
<1>12. IsInjective(t)
  BY <1>9, <1>11 DEF IsInjective
<1>13. QED
  BY <1>1, <1>10, <1>12 DEF t

(* What is kept of a list of distinct elements.                            *)
LEMMA KeptOf ==
  ASSUME NEW S, NEW s \in Seq(S), IsInjective(s), NEW set
  PROVE  /\ Kept(s, set) \in Seq(S) /\ IsInjective(Kept(s, set))
         /\ Range(Kept(s, set)) = Range(s) \cap set
         /\ Len(Kept(s, set)) \in Nat /\ Len(Kept(s, set)) <= Len(s)
BY KeptElements, KeptRange, KeptDistinct, LenProperties

LEMMA NoElements ==
  /\ \A S : <<>> \in Seq(S)
  /\ IsInjective(<<>>) /\ Range(<<>>) = {} /\ Len(<<>>) = 0
BY DEF IsInjective, Range

(* What a step that changes neither the request nor the history leaves.    *)
LEMMA SameRequest ==
  ASSUME UNCHANGED <<asked, always, ever>>, NoFault \/ Fault, WorldTypes,
         asked.page \in Int, asked.size \in Int
  PROVE  /\ \A x : HasBeenHere(x)' <=> HasBeenHere(x)
         /\ \A x : HasBeenTagged(x)' <=> HasBeenTagged(x)
         /\ \A x : HasBeenHealthy(x) => HasBeenHealthy(x)'
         /\ \A x : Wanted(x)' => Wanted(x)
         /\ Everything' = Everything /\ Kind' = Kind /\ Plain' = Plain /\ Way' = Way
         /\ spent'.faults = 0 => spent.faults = 0 /\ NoFault
         /\ Fault => spent'.faults # 0
         /\ ShownIsSound /\ shown' = shown => ShownIsSound'
         /\ LoadedIsSound /\ loaded' = loaded => LoadedIsSound'
         /\ CountedIsSound /\ counted' = counted => CountedIsSound'
         /\ ChoicesAreSound /\ offered' = offered => ChoicesAreSound'
<1>1. Fault => spent'.faults # 0
  BY DEF Fault, WorldTypes
<1>2. spent'.faults = 0 => spent.faults = 0 /\ NoFault
  BY <1>1 DEF NoFault
<1>3. /\ Everything' = Everything /\ Kind' = Kind /\ Plain' = Plain /\ Way' = Way
      /\ \A x : HasBeenHere(x)' <=> HasBeenHere(x)
      /\ \A x : HasBeenTagged(x)' <=> HasBeenTagged(x)
  BY DEF Everything, Kind, Plain, Way, HasBeenHere, MeetsLast, HasBeenTagged
<1>4. \A x : HasBeenHealthy(x) => HasBeenHealthy(x)'
  BY <1>2 DEF HasBeenHealthy, Healthy
<1>5. ASSUME NEW x, Wanted(x)' PROVE Wanted(x)
  <2>1. spent'.faults = 0
    BY <1>5 DEF Wanted
  <2>2. spent'.faults = spent.faults
    BY <1>2, <2>1
  <2>3. QED
    BY <1>5, <2>2, FewerAreWanted
<1>6. ShownIsSound /\ shown' = shown => ShownIsSound'
  BY <1>3 DEF ShownIsSound
<1>7. LoadedIsSound /\ loaded' = loaded => LoadedIsSound'
  BY DEF LoadedIsSound
<1>8. CountedIsSound /\ counted' = counted => CountedIsSound'
  BY <1>2 DEF CountedIsSound
<1>9. ChoicesAreSound /\ offered' = offered => ChoicesAreSound'
  BY <1>3 DEF ChoicesAreSound, MayOffer
<1>10. QED
  BY <1>1, <1>2, <1>3, <1>4, <1>5, <1>6, <1>7, <1>8, <1>9

(* An answer that says no more than its status.                            *)
LEMMA OnlyAStatus ==
  ASSUME pc' = "done", answer'.status \notin {"ok", "panic"}
  PROVE  AnswerInv'
BY DEF AnswerInv, ListIsRegular, ChoicesAreRegular, PageIsTheWindow, FooterCoversTheList, Answered

(* What a filter of SIDs says of facts.                                    *)
LEMMA SIDsMeet ==
  ASSUME NEW x, NEW SIDs, NEW facts, \A s : <<"sid", x, s>> \in facts <=> s \in SIDs
  PROVE  HasSID(SIDs) <=>
           (asked.sids = <<>> \/ \E s \in Range(asked.sids) : <<"sid", x, s>> \in facts)
BY DEF HasSID

LEMMA LoadHostsKeeps ==
  ASSUME Inv, LoadHosts PROVE Inv'
<1>1. /\ pc = "load" /\ asked.op = "hosts" /\ Reading /\ NoFault
      /\ UNCHANGED <<Others, asked, always, ever>> /\ UNCHANGED <<shown, counted, offered>>
      /\ pc' \in {"done", "tags", "health"}
  BY DEF LoadHosts, Step, Reading
<1>2. /\ WorldTypes' /\ RequestTypes' /\ Facts' = Facts /\ WorldTypes
      /\ always \subseteq Facts /\ Facts \subseteq ever
      /\ asked.page \in Int /\ asked.size \in Int
  BY <1>1, StepTypes DEF Places, Inv
<1>3. CASE Malformed(asked.sids)
  <2>1. pc' = "done" /\ answer'.status = "error"
    BY <1>3 DEF LoadHosts, NoAnswer
  <2>2. AnswerInv'
    BY <2>1, OnlyAStatus
  <2>3. QED
    BY <1>2, <2>1, <2>2 DEF Inv, Reading
<1>4. CASE ~Malformed(asked.sids)
  <2> DEFINE set == {h \in DOMAIN nodes : HasSID(nodes[h].sids)}
  <2>1. /\ loaded' = [h \in DOMAIN nodes |-> nodes[h].sids] /\ todo' = Kept(Hosts, set)
        /\ \/ asked.health = {} /\ list' = todo' /\ pc' = "tags"
           \/ list' = <<>> /\ pc' = "health"
    BY <1>4 DEF LoadHosts
  <2>2. /\ Hosts \in Seq(HostSet) /\ IsInjective(Hosts)
    BY Kinds, OverItsRange DEF HostSet
  <2>3. DOMAIN nodes \subseteq HostSet
    BY <1>2 DEF WorldTypes
  <2> HIDE DEF set
  <2>4. todo' \in Seq(HostSet) /\ IsInjective(todo') /\ Range(todo') = HostSet \cap set
    BY <2>1, <2>2, KeptOf DEF HostSet
  <2>5. set \subseteq DOMAIN nodes /\ Range(todo') = set
    BY <2>3, <2>4 DEF set
  <2>6. ToDo' = set /\ Listed' \subseteq set /\ Everything' = HostSet /\ Everything = HostSet
    BY <1>1, <2>1, <2>5, NoElements DEF ToDo, Listed, Everything
  <2>7. ASSUME NEW x \in HostSet
        PROVE  /\ <<"here", x, "">> \in Facts <=> x \in DOMAIN nodes
               /\ \A s : <<"sid", x, s>> \in Facts <=> x \in DOMAIN nodes /\ s \in nodes[x].sids
    BY <1>2, FactsOfHosts
  <2>8. ASSUME NEW x \in set PROVE HasBeenHere(x)
    <3>1. x \in DOMAIN nodes /\ HasSID(nodes[x].sids) /\ x \in HostSet
      BY <2>3, <2>5 DEF set
    <3>2. <<"here", x, "">> \in ever /\ \A s \in nodes[x].sids : <<"sid", x, s>> \in ever
      BY <1>2, <2>7, <3>1
    <3>3. QED
      BY <1>1, <3>1, <3>2 DEF HasBeenHere, MeetsLast, HasSID
  <2>9. ASSUME NEW x \in HostSet, Wanted(x) PROVE x \in set
    <3>1. Meets(x, always)
      BY <2>9 DEF Wanted
    <3>2. x \in DOMAIN nodes
      BY <1>2, <2>7, <3>1 DEF Meets
    <3>3. HasSID(nodes[x].sids)
      BY <1>2, <2>7, <3>1, <3>2 DEF Meets, HasSID
    <3>4. QED
      BY <3>2, <3>3 DEF set
  <2>10. ReadingInv
    BY <1>1 DEF Inv
  <2>11. (pc \in Way)' /\ pc' # "load"
    BY <1>1, <2>1 DEF Way
  <2>12. ListTypes'
    BY <2>1, <2>4, <2>6, NoElements DEF ListTypes, Listed, ToDo
  <2>13. ListIsSound'
    <3>1. \A x \in Listed' \cup ToDo' : HasBeenHere(x)'
      BY <1>1, <1>2, <2>6, <2>8, SameRequest
    <3>2. \A x \in Listed' : HasBeenHealthy(x)'
      <4>1. CASE asked.health = {}
        BY <1>1, <4>1 DEF HasBeenHealthy, Healthy
      <4>2. CASE list' = <<>>
        BY <4>2, NoElements DEF Listed
      <4>3. QED
        BY <2>1, <4>1, <4>2
    <3>3. QED
      BY <2>1, <3>1, <3>2 DEF ListIsSound
  <2>14. ListIsComplete'
    <3>1. \A x : Wanted(x)' => Wanted(x)
      BY <1>1, <1>2, SameRequest
    <3>2. pc' = "health" \/ Listed' = set
      BY <2>1, <2>5 DEF Listed
    <3>3. QED
      BY <2>6, <2>9, <3>1, <3>2 DEF ListIsComplete
  <2>15. ShownIsSound' /\ CountedIsSound' /\ ChoicesAreSound'
    BY <1>1, <1>2, <2>10, SameRequest DEF ReadingInv
  <2>16. LoadedIsSound'
    <3>1. \A x \in DOMAIN loaded' : x \in HostSet /\ x \in DOMAIN nodes /\ loaded'[x] = nodes[x].sids
      BY <2>1, <2>3
    <3>2. \A x \in DOMAIN loaded' : \A s : <<"sid", x, s>> \in Facts <=> s \in loaded'[x]
      BY <2>7, <3>1
    <3>3. QED
      BY <1>1, <1>2, <3>2 DEF LoadedIsSound
  <2>17. AllIsRead'
    BY <2>1, <2>5, <2>6 DEF AllIsRead
  <2>18. ChoicesAreComplete' /\ RowsAreThere'
    BY <1>1, <2>1 DEF ChoicesAreComplete, RowsAreThere
  <2>19. ReadingInv'
    BY <2>11, <2>12, <2>13, <2>14, <2>15, <2>16, <2>17, <2>18 DEF ReadingInv
  <2>20. QED
    BY <1>2, <2>1, <2>19 DEF Inv
<1>5. QED
  BY <1>3, <1>4

(* A host that is asked about: its health was so at some time, or it was   *)
(* gone.                                                                   *)
LEMMA HostIsCounted ==
  ASSUME WorldTypes, NEW h \in HostSet, HostHealth(h), CountedIsSound,
         UNCHANGED <<always, ever>>, always \subseteq Facts, Facts \subseteq ever
  PROVE  /\ CountedIsSound' /\ DOMAIN counted' = DOMAIN counted \cup {h}
         /\ NoFault \/ Fault
<1>1. NoFault \/ Fault
  BY DEF HostHealth
<1>2. DOMAIN counted' = DOMAIN counted \cup {h}
  BY DEF HostHealth, Updated
<1>3. CountedIsSound'
  <2>1. CASE Fault
    <3>1. spent'.faults # 0
      BY <2>1 DEF Fault, WorldTypes
    <3>2. QED
      BY <3>1 DEF CountedIsSound
  <2>2. CASE ~Fault
    <3> DEFINE v == IF h \in DOMAIN nodes THEN nodes[h].health ELSE "passing"
    <3>1. NoFault /\ counted' = Updated(counted, h, v)
      BY <2>2 DEF HostHealth
    <3>2. <<"health", h, v>> \in Facts \/ <<"here", h, "">> \notin Facts
      BY FactsOfHosts
    <3>3. \A w : <<"health", h, w>> \in Facts => v = w
      BY FactsOfHosts
    <3> HIDE DEF v
    <3>4. counted'[h] = v /\ \A x \in DOMAIN counted : x # h => counted'[x] = counted[x]
      BY <3>1 DEF Updated
    <3>5. spent'.faults = spent.faults
      BY <3>1 DEF NoFault
    <3>6. QED
      BY <1>2, <3>2, <3>3, <3>4, <3>5 DEF CountedIsSound
  <2>3. QED
    BY <2>1, <2>2
<1>4. QED
  BY <1>1, <1>2, <1>3

LEMMA AskHealthKeeps ==
  ASSUME Inv, AskHealth PROVE Inv'
<1>0. PICK h : h = Head(todo)
  OBVIOUS
<1>1. /\ pc = "health" /\ Reading /\ todo # <<>> /\ HostHealth(h) /\ todo' = Tail(todo)
      /\ UNCHANGED <<Others, asked, pc, shown, loaded, offered, answer, always, ever>>
      /\ list' = IF HasHealth(counted'[h]) THEN Append(list, h) ELSE list
  BY <1>0 DEF AskHealth, Reading
<1>2. ReadingInv /\ WorldTypes
  BY <1>1 DEF Inv
<1>3. asked.op = "hosts"
  BY <1>1, <1>2 DEF ReadingInv, Way
<1>4. Everything = HostSet
  BY <1>3 DEF Everything
<1>5. /\ list \in Seq(HostSet) /\ IsInjective(list) /\ todo \in Seq(HostSet) /\ IsInjective(todo)
      /\ Listed \cap ToDo = {}
  BY <1>1, <1>2, <1>4 DEF ReadingInv, ListTypes
<1>6. /\ h \in HostSet /\ todo' \in Seq(HostSet) /\ IsInjective(todo')
      /\ ToDo = {h} \cup ToDo' /\ h \notin ToDo'
  BY <1>1, <1>5, <1>0, HeadAndTail DEF ToDo
<1>7. NoFault \/ Fault
  BY <1>1 DEF HostHealth
<1>8. /\ WorldTypes' /\ RequestTypes' /\ Facts' = Facts
      /\ always \subseteq Facts /\ Facts \subseteq ever
      /\ asked.page \in Int /\ asked.size \in Int
  BY <1>1, <1>7, StepTypes DEF Places
<1>9. CountedIsSound' /\ h \in DOMAIN counted'
  BY <1>1, <1>2, <1>6, <1>8, HostIsCounted DEF ReadingInv
<1>10. /\ list' \in Seq(HostSet) /\ IsInjective(list')
       /\ Listed' = IF HasHealth(counted'[h]) THEN Listed \cup {h} ELSE Listed
  BY <1>1, <1>5, <1>6, AppendDistinct DEF Listed
<1>11. /\ Everything' = Everything /\ Way' = Way /\ (spent'.faults = 0 => spent.faults = 0)
       /\ \A x : HasBeenHere(x)' <=> HasBeenHere(x)
       /\ \A x : HasBeenHealthy(x) => HasBeenHealthy(x)'
       /\ \A x : Wanted(x)' => Wanted(x)
  BY <1>1, <1>2, <1>7, <1>8, SameRequest
<1>12. (pc \in Way)' /\ pc' = "health"
  BY <1>1, <1>2, <1>11 DEF ReadingInv
<1>13. ListTypes'
  <2>1. Listed' \cap ToDo' = {}
    BY <1>5, <1>6, <1>10
  <2>2. QED
    BY <1>4, <1>6, <1>10, <1>11, <1>12, <2>1 DEF ListTypes
<1>14. ListIsSound'
  <2>1. \A x \in Listed' \cup ToDo' : HasBeenHere(x)'
    BY <1>2, <1>6, <1>10, <1>11 DEF ReadingInv, ListIsSound
  <2>2. \A x \in Listed : HasBeenHealthy(x)'
    BY <1>1, <1>2, <1>11 DEF ReadingInv, ListIsSound
  <2>3. HasHealth(counted'[h]) => HasBeenHealthy(h)'
    BY <1>1, <1>9 DEF HasHealth, HasBeenHealthy, Healthy, CountedIsSound
  <2>4. QED
    BY <1>10, <1>12, <2>1, <2>2, <2>3 DEF ListIsSound
<1>15. ListIsComplete'
  <2>1. ASSUME NEW x \in HostSet, Wanted(x)' PROVE x \in Listed' \/ x \in ToDo'
    <3>1. x \in Listed \/ x \in ToDo
      BY <1>1, <1>2, <1>4, <1>11, <2>1 DEF ReadingInv, ListIsComplete
    <3>2. CASE x = h
      <4>1. spent'.faults = 0 /\ Healthy(h, always)'
        BY <2>1, <3>2 DEF Wanted
      <4>2. HasHealth(counted'[h])
        BY <1>1, <1>9, <4>1 DEF HasHealth, Healthy, CountedIsSound
      <4>3. QED
        BY <1>10, <3>2, <4>2
    <3>3. QED
      BY <1>6, <1>10, <3>1, <3>2
  <2>2. QED
    BY <1>4, <1>11, <1>12, <2>1 DEF ListIsComplete
<1>16. ShownIsSound' /\ LoadedIsSound' /\ ChoicesAreSound'
  BY <1>1, <1>2, <1>7, <1>8, SameRequest DEF ReadingInv
<1>17. AllIsRead'
  <2>1. Listed \cup ToDo \subseteq DOMAIN loaded
    BY <1>2, <1>3 DEF ReadingInv, AllIsRead
  <2>2. Listed' \cup ToDo' \subseteq DOMAIN loaded'
    BY <1>1, <1>6, <1>10, <2>1
  <2>3. QED
    BY <1>12, <2>2 DEF AllIsRead
<1>18. ChoicesAreComplete' /\ RowsAreThere'
  BY <1>1, <1>3, <1>12 DEF ChoicesAreComplete, RowsAreThere
<1>19. ReadingInv'
  BY <1>9, <1>12, <1>13, <1>14, <1>15, <1>16, <1>17, <1>18 DEF ReadingInv
<1>20. QED
  BY <1>8, <1>12, <1>19 DEF Inv

LEMMA HealthAskedKeeps ==
  ASSUME Inv, HealthAsked PROVE Inv'
<1>1. /\ pc = "health" /\ Reading /\ todo = <<>> /\ pc' = "tags" /\ todo' = list /\ NoFault
      /\ UNCHANGED <<Others, asked, list, shown, loaded, counted, offered, answer, always, ever>>
  BY DEF HealthAsked, Reading, Step
<1>2. ReadingInv /\ WorldTypes
  BY <1>1 DEF Inv
<1>3. asked.op = "hosts"
  BY <1>1, <1>2 DEF ReadingInv, Way
<1>4. /\ WorldTypes' /\ RequestTypes' /\ asked.page \in Int /\ asked.size \in Int
  BY <1>1, StepTypes DEF Places
<1>5. /\ Everything' = Everything
      /\ \A x : HasBeenHere(x)' <=> HasBeenHere(x)
      /\ \A x : HasBeenHealthy(x) => HasBeenHealthy(x)'
      /\ \A x : Wanted(x)' => Wanted(x)
  BY <1>1, <1>2, <1>4, SameRequest
<1>6. Listed' = Listed /\ ToDo' = Listed /\ ToDo = {}
  BY <1>1, NoElements DEF Listed, ToDo
<1>7. (pc \in Way)'
  BY <1>1, <1>3 DEF Way
<1>8. ListTypes'
  BY <1>1, <1>2, <1>5, <1>6 DEF ReadingInv, ListTypes
<1>9. ListIsSound'
  BY <1>1, <1>2, <1>5, <1>6 DEF ReadingInv, ListIsSound
<1>10. ListIsComplete'
  BY <1>1, <1>2, <1>5, <1>6 DEF ReadingInv, ListIsComplete
<1>11. ShownIsSound' /\ LoadedIsSound' /\ CountedIsSound' /\ ChoicesAreSound'
  BY <1>1, <1>2, <1>4, SameRequest DEF ReadingInv
<1>12. AllIsRead' /\ ChoicesAreComplete' /\ RowsAreThere'
  BY <1>1, <1>2, <1>3, <1>6 DEF ReadingInv, AllIsRead, ChoicesAreComplete, RowsAreThere
<1>13. ReadingInv'
  BY <1>1, <1>7, <1>8, <1>9, <1>10, <1>11, <1>12 DEF ReadingInv
<1>14. QED
  BY <1>1, <1>4, <1>13 DEF Inv

LEMMA LoadSystemsKeeps ==
  ASSUME Inv, LoadSystems PROVE Inv'
<1> DEFINE set == {s.id : s \in {t \in Range(Systems) : t.kind = asked.op}}
<1>1. /\ pc = "load" /\ asked.op \in {"sapsystems", "databases"} /\ Reading /\ NoFault
      /\ UNCHANGED <<Others, asked, shown, loaded, counted, offered, answer, always, ever>>
      /\ pc' = "tags" /\ list' = todo' /\ todo' = Kept(Column(Systems, "id"), set)
  BY DEF LoadSystems, Step, Reading
<1>2. ReadingInv /\ WorldTypes
  BY <1>1 DEF Inv
<1>3. /\ WorldTypes' /\ RequestTypes' /\ asked.page \in Int /\ asked.size \in Int
      /\ Facts \subseteq ever /\ asked.health = {}
  BY <1>1, StepTypes DEF Places
<1>4. Everything = set /\ set \subseteq Ids(Systems)
  BY <1>1 DEF Everything, Ids
<1> HIDE DEF set
<1>5. list' \in Seq(STRING) /\ IsInjective(list') /\ Range(list') = set
  <2>1. Range(list') = Ids(Systems) \cap set
    BY <1>1, SystemRows, KeptOf
  <2>2. list' \in Seq(STRING) /\ IsInjective(list')
    BY <1>1, SystemRows, KeptOf
  <2>3. QED
    BY <1>4, <2>1, <2>2
<1>6. /\ Listed' = Everything /\ ToDo' = Everything /\ list' \in Seq(Everything)
  BY <1>1, <1>4, <1>5, OverItsRange DEF Listed, ToDo
<1>7. /\ Everything' = Everything
      /\ \A x : HasBeenHere(x)' <=> HasBeenHere(x)
  BY <1>1, <1>2, <1>3, SameRequest
<1>8. (pc \in Way)'
  BY <1>1 DEF Way
<1>9. ListTypes'
  BY <1>1, <1>5, <1>6, <1>7 DEF ListTypes
<1>10. ListIsSound'
  <2>1. \A x \in Ids(Systems) : <<"here", x, "">> \in ever
    BY <1>2, <1>3, FactsOfSystems
  <2>2. \A x \in Listed' \cup ToDo' : HasBeenHere(x)'
    BY <1>1, <1>4, <1>6, <1>7, <2>1 DEF HasBeenHere, MeetsLast
  <2>3. \A x : HasBeenHealthy(x)'
    BY <1>1, <1>3 DEF HasBeenHealthy, Healthy
  <2>4. QED
    BY <1>1, <2>2, <2>3 DEF ListIsSound
<1>11. ListIsComplete'
  BY <1>6, <1>7 DEF ListIsComplete
<1>12. ShownIsSound' /\ LoadedIsSound' /\ CountedIsSound' /\ ChoicesAreSound'
  BY <1>1, <1>2, <1>3, SameRequest DEF ReadingInv
<1>13. AllIsRead' /\ ChoicesAreComplete' /\ RowsAreThere'
  BY <1>1, <1>6 DEF AllIsRead, ChoicesAreComplete, RowsAreThere
<1>14. ReadingInv'
  BY <1>1, <1>8, <1>9, <1>10, <1>11, <1>12, <1>13 DEF ReadingInv
<1>15. QED
  BY <1>1, <1>3, <1>14 DEF Inv

LEMMA ReadTagsKeeps ==
  ASSUME Inv, ReadTags PROVE Inv'
<1> DEFINE h == Head(todo)
<1>1. /\ pc = "tags" /\ Reading /\ todo # <<>> /\ todo' = Tail(todo) /\ NoFault
      /\ UNCHANGED <<Others, asked, pc, list, loaded, counted, offered, answer, always, ever>>
      /\ shown' = Updated(shown, h, TagsOf(asked.op, h))
  BY DEF ReadTags, Reading, Step
<1>2. ReadingInv /\ WorldTypes
  BY <1>1 DEF Inv
<1>3. asked.op \in {"hosts", "sapsystems", "databases"}
  BY <1>1, <1>2 DEF ReadingInv, Way
<1>4. Kind = asked.op /\ asked.op \in TagTypes
  BY <1>3 DEF Kind, TagTypes
<1>5. /\ WorldTypes' /\ RequestTypes' /\ asked.page \in Int /\ asked.size \in Int
      /\ always \subseteq Facts /\ Facts \subseteq ever
  BY <1>1, StepTypes DEF Places
<1>6. /\ todo \in Seq(Everything) /\ IsInjective(todo) /\ list \in Seq(Everything)
      /\ IsInjective(list) /\ ToDo \subseteq Listed
  BY <1>1, <1>2 DEF ReadingInv, ListTypes
<1> HIDE DEF h
<1>7. /\ todo' \in Seq(Everything) /\ IsInjective(todo') /\ ToDo = {h} \cup ToDo'
  BY <1>1, <1>6, HeadAndTail DEF h, ToDo
<1>8. /\ Everything' = Everything /\ Kind' = Kind /\ Plain' = Plain /\ Way' = Way /\ Listed' = Listed
      /\ \A x : HasBeenHere(x)' <=> HasBeenHere(x)
      /\ \A x : HasBeenHealthy(x) => HasBeenHealthy(x)'
      /\ \A x : Wanted(x)' => Wanted(x)
  BY <1>1, <1>2, <1>5, SameRequest DEF Listed
<1>9. /\ DOMAIN shown' = DOMAIN shown \cup {h} /\ shown'[h] = TagsOf(asked.op, h)
      /\ \A x \in DOMAIN shown : x # h => shown'[x] = shown[x]
  BY <1>1 DEF Updated
<1>10. (pc \in Way)'
  BY <1>1, <1>2, <1>8 DEF ReadingInv
<1>11. ListTypes'
  BY <1>1, <1>6, <1>7, <1>8 DEF ListTypes
<1>12. ListIsSound'
  BY <1>1, <1>2, <1>7, <1>8 DEF ReadingInv, ListIsSound
<1>13. ListIsComplete'
  BY <1>1, <1>2, <1>8 DEF ReadingInv, ListIsComplete
<1>14. ShownIsSound'
  <2>1. \A v : <<Kind, h, v>> \in Facts <=> v \in shown'[h]
    BY <1>2, <1>4, <1>9, FactsOfTags
  <2>2. h \in Everything
    BY <1>1, <1>6, EmptySeq DEF h
  <2>3. DOMAIN shown' \subseteq Everything'
    BY <1>2, <1>8, <1>9, <2>2 DEF ReadingInv, ShownIsSound
  <2>4. QED
    BY <1>1, <1>2, <1>3, <1>5, <1>8, <1>9, <2>1, <2>3 DEF ReadingInv, ShownIsSound
<1>15. LoadedIsSound' /\ CountedIsSound' /\ ChoicesAreSound'
  BY <1>1, <1>2, <1>5, SameRequest DEF ReadingInv
<1>16. AllIsRead' /\ ChoicesAreComplete' /\ RowsAreThere'
  BY <1>1, <1>2, <1>3, <1>7, <1>8, <1>9 DEF ReadingInv, AllIsRead, ChoicesAreComplete, RowsAreThere
<1>17. ReadingInv'
  BY <1>1, <1>10, <1>11, <1>12, <1>13, <1>14, <1>15, <1>16 DEF ReadingInv
<1>18. QED
  BY <1>1, <1>5, <1>17 DEF Inv

LEMMA FilterHostsKeeps ==
  ASSUME Inv, filterHostsByTags PROVE Inv'
<1> DEFINE set == {h \in Listed : HasTag(shown[h])}
<1>1. /\ pc = "tags" /\ Reading /\ todo = <<>> /\ asked.op = "hosts" /\ NoFault
      /\ UNCHANGED <<Others, asked, shown, loaded, counted, answer, always, ever>>
      /\ pc' = "counters" /\ todo' = list' /\ list' = Kept(list, set)
      /\ offered' = [NoChoice EXCEPT !.tags = UNION Range(shown),
                                     !.sids = UNION {loaded[h] : h \in Range(list')}]
  BY DEF filterHostsByTags, Reading, Step, Listed
<1>2. ReadingInv /\ WorldTypes
  BY <1>1 DEF Inv
<1>3. Kind = "hosts" /\ "hosts" \in TagTypes
  BY <1>1 DEF Kind, TagTypes
<1>4. /\ WorldTypes' /\ RequestTypes' /\ asked.page \in Int /\ asked.size \in Int
      /\ always \subseteq Facts /\ Facts \subseteq ever
  BY <1>1, StepTypes DEF Places
<1>5. list \in Seq(Everything) /\ IsInjective(list) /\ ToDo = {}
  BY <1>1, <1>2, NoElements DEF ReadingInv, ListTypes, ToDo
<1> HIDE DEF set
<1>6. list' \in Seq(Everything) /\ IsInjective(list') /\ Range(list') = Listed \cap set
  BY <1>1, <1>5, KeptOf DEF Listed
<1>7. Listed' = set /\ ToDo' = set /\ set \subseteq Listed
  BY <1>1, <1>6 DEF Listed, ToDo, set
<1>8. /\ Everything' = Everything /\ Kind' = Kind /\ Plain' = Plain
      /\ \A x : HasBeenHere(x)' <=> HasBeenHere(x)
      /\ \A x : HasBeenTagged(x)' <=> HasBeenTagged(x)
      /\ \A x : HasBeenHealthy(x) => HasBeenHealthy(x)'
      /\ \A x : Wanted(x)' => Wanted(x)
  BY <1>1, <1>2, <1>4, SameRequest
<1>9. \A x \in Listed : /\ x \in DOMAIN shown /\ x \in DOMAIN loaded
                        /\ \A v \in shown[x] : <<Kind, x, v>> \in ever
                        /\ \A v : <<Kind, x, v>> \in always => v \in shown[x]
                        /\ \A s \in loaded[x] : <<"sid", x, s>> \in ever
                        /\ \A s : <<"sid", x, s>> \in always => s \in loaded[x]
  BY <1>1, <1>2, <1>5 DEF ReadingInv, AllIsRead, ShownIsSound, LoadedIsSound
<1>10. /\ offered'.tags = UNION Range(shown) /\ offered'.types = {}
       /\ offered'.sids = UNION {loaded[h] : h \in Listed'}
       /\ DOMAIN offered' = {"tags", "sids", "types"}
  BY <1>1 DEF NoChoice, Listed
<1>11. (pc \in Way)'
  BY <1>1 DEF Way
<1>12. ListTypes'
  BY <1>1, <1>6, <1>7, <1>8 DEF ListTypes
<1>13. ListIsSound'
  <2>1. \A x \in Listed : HasBeenHere(x)' /\ HasBeenHealthy(x)'
    BY <1>1, <1>2, <1>8 DEF ReadingInv, ListIsSound
  <2>2. \A x \in set : HasBeenTagged(x)
    BY <1>7, <1>9 DEF HasBeenTagged, HasTag, set
  <2>3. QED
    BY <1>1, <1>7, <1>8, <2>1, <2>2 DEF ListIsSound
<1>14. ListIsComplete'
  <2>1. ASSUME NEW x \in Everything, Wanted(x) PROVE x \in set
    <3>1. x \in Listed
      BY <1>1, <1>2, <2>1 DEF ReadingInv, ListIsComplete, ToDo, NoElements
    <3>2. Meets(x, always)
      BY <2>1 DEF Wanted
    <3>3. HasTag(shown[x])
      BY <1>9, <3>1, <3>2 DEF Meets, HasTag
    <3>4. QED
      BY <3>1, <3>3 DEF set
  <2>2. QED
    BY <1>1, <1>7, <1>8, <2>1 DEF ListIsComplete
<1>15. ShownIsSound' /\ LoadedIsSound' /\ CountedIsSound'
  BY <1>1, <1>2, <1>4, SameRequest DEF ReadingInv
<1>16. AllIsRead'
  BY <1>1, <1>7, <1>9 DEF AllIsRead
<1>17. ChoicesAreSound'
  <2>1. Listed \subseteq Everything
    BY <1>5, LenProperties DEF Listed, Range
  <2>2. DOMAIN shown \subseteq Everything /\ \A x \in DOMAIN shown : \A v \in shown[x] : <<"hosts", x, v>> \in ever
    BY <1>2, <1>3 DEF ReadingInv, ShownIsSound
  <2>3. ASSUME NEW v \in offered'.tags
        PROVE  \E f \in ever : MayOffer(f)' /\ f[3] = v
    <3>1. PICK x \in DOMAIN shown : v \in shown[x]
      BY <1>10 DEF Range
    <3>2. PICK f \in ever : f = <<"hosts", x, v>>
      BY <2>2, <3>1
    <3>3. f[1] = "hosts" /\ f[2] \in Everything /\ f[3] = v
      BY <2>2, <3>2
    <3>4. QED
      BY <1>1, <1>3, <1>8, <3>3 DEF MayOffer
  <2>4. ASSUME NEW s \in offered'.sids
        PROVE  \E f \in ever : f[1] = "sid" /\ f[2] \in Everything' /\ f[3] = s
    <3>1. PICK x \in Listed : s \in loaded[x]
      BY <1>7, <1>10
    <3>2. PICK f \in ever : f = <<"sid", x, s>>
      BY <1>9, <3>1
    <3>3. f[1] = "sid" /\ f[2] \in Everything /\ f[3] = s
      BY <2>1, <3>2
    <3>4. QED
      BY <1>8, <3>3
  <2>5. QED
    BY <1>1, <1>10, <2>3, <2>4 DEF ChoicesAreSound
<1>18. ChoicesAreComplete'
  <2>1. TagsAreOffered'
    <3>1. \A x \in Listed : shown[x] \subseteq offered'.tags
      BY <1>9, <1>10 DEF Range
    <3>2. QED
      BY <1>1, <1>7, <1>8, <1>9, <3>1 DEF TagsAreOffered
  <2>2. SIDsAreOffered'
    <3>1. ASSUME NEW x \in Listed', NEW f \in always, f[1] = "sid", f[2] = x
          PROVE  f[3] \in offered'.sids
      <4>1. f = <<"sid", x, f[3]>>
        BY <1>2, <1>4, <3>1, FactsOfSIDs
      <4>2. f[3] \in loaded[x]
        BY <1>7, <1>9, <3>1, <4>1
      <4>3. QED
        BY <1>10, <4>2
    <3>2. QED
      BY <1>1, <3>1 DEF SIDsAreOffered
  <2>3. QED
    BY <1>1, <2>1, <2>2 DEF ChoicesAreComplete
<1>19. ReadingInv'
  BY <1>1, <1>11, <1>12, <1>13, <1>14, <1>15, <1>16, <1>17, <1>18 DEF ReadingInv, RowsAreThere
<1>20. QED
  BY <1>1, <1>4, <1>19 DEF Inv

LEMMA FilterSystemsKeeps ==
  ASSUME Inv, FilterSystems PROVE Inv'
<1> DEFINE set == {s \in Listed : HasSID({Row(Systems, s).sid}) /\ HasTag(shown[s])}
<1>1. /\ pc = "tags" /\ Reading /\ todo = <<>> /\ asked.op # "hosts" /\ NoFault
      /\ UNCHANGED <<Others, asked, todo, shown, loaded, counted, always, ever>>
      /\ pc' = "done" /\ list' = Kept(list, set)
      /\ offered' = [NoChoice EXCEPT !.tags = UNION {shown[s] : s \in Listed'},
                                     !.sids = {Row(Systems, s).sid : s \in Listed'}]
  BY DEF FilterSystems, Reading, Step, Listed
<1>2. ReadingInv /\ WorldTypes
  BY <1>1 DEF Inv
<1>3. /\ asked.op \in {"sapsystems", "databases"} /\ Kind = asked.op /\ asked.op \in TagTypes
      /\ Everything \subseteq Ids(Systems)
  BY <1>1, <1>2 DEF ReadingInv, Way, Kind, TagTypes, Everything, Ids
<1>4. /\ WorldTypes' /\ RequestTypes' /\ asked.page \in Int /\ asked.size \in Int
      /\ always \subseteq Facts /\ Facts \subseteq ever /\ asked.health = {}
  BY <1>1, <1>3, StepTypes DEF Places
<1>5. list \in Seq(Everything) /\ IsInjective(list) /\ ToDo = {}
  BY <1>1, <1>2, NoElements DEF ReadingInv, ListTypes, ToDo
<1>6. Listed \subseteq Everything
  BY <1>5, LenProperties DEF Listed, Range
<1> HIDE DEF set
<1>7. Range(list') = Listed \cap set
  BY <1>1, <1>5, KeptOf DEF Listed
<1>8. Listed' = set /\ set \subseteq Listed
  BY <1>7 DEF Listed, set
<1>9. /\ Everything' = Everything /\ Kind' = Kind
      /\ \A x : Wanted(x)' => Wanted(x)
  BY <1>1, <1>2, <1>4, SameRequest
<1>10. \A x \in Listed : /\ x \in DOMAIN shown /\ <<"here", x, "">> \in ever
                         /\ \A v \in shown[x] : <<Kind, x, v>> \in ever
                         /\ \A v : <<Kind, x, v>> \in always => v \in shown[x]
  BY <1>1, <1>2, <1>3, <1>5 DEF ReadingInv, AllIsRead, ShownIsSound, ListIsSound, HasBeenHere
<1>11. \A x \in Listed : \A s : <<"sid", x, s>> \in Facts <=> s = Row(Systems, x).sid
  BY <1>2, <1>3, <1>6, FactsOfSystems
<1>12. /\ offered'.tags = UNION {shown[s] : s \in Listed'} /\ offered'.types = {}
       /\ offered'.sids = {Row(Systems, s).sid : s \in Listed'}
  BY <1>1 DEF NoChoice
<1>13. \A x \in set : /\ x \in Listed
                      /\ asked.sids # <<>> => \E s \in Range(asked.sids) : <<"sid", x, s>> \in ever
                      /\ asked.tags # {} => \E v \in asked.tags : <<Kind, x, v>> \in ever
  BY <1>4, <1>10, <1>11 DEF set, HasSID, HasTag
<1>14. ASSUME NEW x \in Everything, Wanted(x) PROVE x \in set
  <2>1. x \in Listed
    BY <1>1, <1>2, <1>14 DEF ReadingInv, ListIsComplete
  <2>2. Meets(x, always)
    BY <1>14 DEF Wanted
  <2>3. HasTag(shown[x])
    BY <1>10, <2>1, <2>2 DEF Meets, HasTag
  <2>4. HasSID({Row(Systems, x).sid})
    BY <1>4, <1>11, <2>1, <2>2 DEF Meets, HasSID
  <2>5. QED
    BY <2>1, <2>3, <2>4 DEF set
<1>15. ListIsRegular'
  <2>1. ASSUME NEW x \in Everything',
               (Meets(x, always) /\ MeetsCluster(x) /\ Healthy(x, always) /\ InWindow(x) /\ spent.faults = 0)'
        PROVE  x \in Listed'
    <3>1. Wanted(x)'
      BY <2>1 DEF Wanted
    <3>2. QED
      BY <1>8, <1>9, <1>14, <3>1
  <2>2. ASSUME NEW x \in Listed'
        PROVE  /\ <<"here", x, "">> \in ever
               /\ asked.sids # <<>> => \E s \in Range(asked.sids) : <<"sid", x, s>> \in ever
               /\ asked.tags # {} => \E v \in asked.tags : <<Kind, x, v>> \in ever
               /\ \A v \in shown[x] : <<Kind, x, v>> \in ever
    BY <1>8, <1>10, <1>13
  <2>3. \A x : Healthy(x, ever)'
    BY <1>1, <1>4 DEF Healthy
  <2>4. QED
    BY <1>1, <1>3, <1>9, <2>1, <2>2, <2>3 DEF ListIsRegular, MeetsLast, Listed
<1>16. ChoicesAreRegular'
  <2>1. ASSUME NEW v \in offered'.tags
        PROVE  \E f \in ever : MayOffer(f)' /\ f[3] = v
    <3>1. PICK x \in Listed : v \in shown[x]
      BY <1>8, <1>12
    <3>2. PICK f \in ever : f = <<Kind, x, v>>
      BY <1>10, <3>1
    <3>3. f[1] = asked.op /\ f[2] \in Everything /\ f[3] = v
      BY <1>3, <1>6, <3>2
    <3>4. QED
      BY <1>1, <1>3, <1>9, <3>3 DEF MayOffer
  <2>2. ASSUME NEW s \in offered'.sids
        PROVE  \E f \in ever : f[1] = "sid" /\ f[2] \in Everything' /\ f[3] = s
    <3>1. PICK x \in Listed : s = Row(Systems, x).sid
      BY <1>8, <1>12
    <3>2. PICK f \in ever : f = <<"sid", x, s>>
      BY <1>4, <1>11, <3>1
    <3>3. f[1] = "sid" /\ f[2] \in Everything /\ f[3] = s
      BY <1>6, <3>2
    <3>4. QED
      BY <1>9, <3>3
  <2>3. \A x \in Listed' : \A v : <<Kind, x, v>> \in always => v \in offered'.tags
    BY <1>8, <1>10, <1>12
  <2>4. ASSUME NEW x \in Listed', NEW f \in always, f[1] = "sid", f[2] = x
        PROVE  f[3] \in offered'.sids
    <3>1. f = <<"sid", x, f[3]>>
      BY <1>2, <1>4, <2>4, FactsOfSIDs
    <3>2. QED
      BY <1>4, <1>8, <1>11, <1>12, <2>4, <3>1
  <2>5. QED
    BY <1>1, <1>3, <1>9, <1>12, <2>1, <2>2, <2>3, <2>4 DEF ChoicesAreRegular, Listed
<1>17. PageIsTheWindow' /\ FooterCoversTheList'
  BY <1>1, <1>3 DEF PageIsTheWindow, FooterCoversTheList
<1>18. QED
  BY <1>1, <1>4, <1>15, <1>16, <1>17 DEF Inv, Reading, AnswerInv

LEMMA CountHealthKeeps ==
  ASSUME Inv, CountHealth PROVE Inv'
<1>0. PICK h : h = Head(todo)
  OBVIOUS
<1>1. /\ pc = "counters" /\ Reading /\ todo # <<>> /\ HostHealth(h) /\ todo' = Tail(todo)
      /\ UNCHANGED <<Others, asked, pc, list, shown, loaded, offered, answer, always, ever>>
  BY <1>0 DEF CountHealth, Reading
<1>2. ReadingInv /\ WorldTypes
  BY <1>1 DEF Inv
<1>3. asked.op = "hosts"
  BY <1>1, <1>2 DEF ReadingInv, Way
<1>4. Everything = HostSet
  BY <1>3 DEF Everything
<1>5. /\ list \in Seq(HostSet) /\ IsInjective(list) /\ todo \in Seq(HostSet) /\ IsInjective(todo)
      /\ ToDo \subseteq Listed
  BY <1>1, <1>2, <1>4 DEF ReadingInv, ListTypes
<1>6. /\ h \in HostSet /\ todo' \in Seq(HostSet) /\ IsInjective(todo')
      /\ ToDo = {h} \cup ToDo'
  BY <1>0, <1>1, <1>5, HeadAndTail DEF ToDo
<1>7. NoFault \/ Fault
  BY <1>1 DEF HostHealth
<1>8. /\ WorldTypes' /\ RequestTypes' /\ Facts' = Facts
      /\ always \subseteq Facts /\ Facts \subseteq ever
      /\ asked.page \in Int /\ asked.size \in Int
  BY <1>1, <1>7, StepTypes DEF Places
<1>9. CountedIsSound' /\ DOMAIN counted' = DOMAIN counted \cup {h}
  BY <1>1, <1>2, <1>6, <1>8, HostIsCounted DEF ReadingInv
<1>10. /\ Everything' = Everything /\ Way' = Way /\ Listed' = Listed /\ Kind' = Kind /\ Plain' = Plain
       /\ \A x : HasBeenHere(x)' <=> HasBeenHere(x)
       /\ \A x : HasBeenTagged(x)' <=> HasBeenTagged(x)
       /\ \A x : HasBeenHealthy(x) => HasBeenHealthy(x)'
       /\ \A x : Wanted(x)' => Wanted(x)
  BY <1>1, <1>2, <1>7, <1>8, SameRequest DEF Listed
<1>11. (pc \in Way)' /\ pc' = "counters"
  BY <1>1, <1>2, <1>10 DEF ReadingInv
<1>12. ListTypes'
  BY <1>1, <1>4, <1>5, <1>6, <1>10, <1>11 DEF ListTypes
<1>13. ListIsSound'
  BY <1>1, <1>2, <1>6, <1>10, <1>11 DEF ReadingInv, ListIsSound
<1>14. ListIsComplete'
  BY <1>1, <1>2, <1>10, <1>11 DEF ReadingInv, ListIsComplete
<1>15. ShownIsSound' /\ LoadedIsSound' /\ ChoicesAreSound'
  BY <1>1, <1>2, <1>7, <1>8, SameRequest DEF ReadingInv
<1>16. AllIsRead'
  BY <1>1, <1>2, <1>6, <1>9, <1>10, <1>11 DEF ReadingInv, AllIsRead
<1>17. ChoicesAreComplete'
  BY <1>1, <1>2, <1>10, <1>11 DEF ReadingInv, ChoicesAreComplete, TagsAreOffered, SIDsAreOffered, TypesAreOffered
<1>18. RowsAreThere'
  BY <1>1, <1>3 DEF RowsAreThere
<1>19. ReadingInv'
  BY <1>9, <1>11, <1>12, <1>13, <1>14, <1>15, <1>16, <1>17, <1>18 DEF ReadingInv
<1>20. QED
  BY <1>8, <1>11, <1>19 DEF Inv

(* What has been read is what is answered.                                 *)
LEMMA ListIsAnswered ==
  ASSUME Inv, pc \in {"counters", "count"}, pc = "counters" => todo = <<>>, pc' = "done", NoFault,
         UNCHANGED <<Others, asked, list, shown, offered, always, ever>>
  PROVE  /\ WorldTypes' /\ RequestTypes' /\ ListIsRegular' /\ ChoicesAreRegular'
         /\ list \in Seq(Everything) /\ IsInjective(list) /\ Listed \subseteq DOMAIN counted
         /\ IsFiniteSet(Listed) /\ Cardinality(Listed) = Len(list) /\ Len(list) \in Nat
         /\ spent'.faults = spent.faults
<1>1. ReadingInv /\ WorldTypes /\ Reading
  BY DEF Inv, Reading
<1>2. /\ WorldTypes' /\ RequestTypes' /\ asked.page \in Int /\ asked.size \in Int
      /\ spent'.faults = spent.faults
  BY <1>1, StepTypes DEF Places, NoFault
<1>3. asked.op \in {"hosts", "clusters", "hosts_next"}
  BY <1>1 DEF ReadingInv, Way
<1>4. list \in Seq(Everything) /\ IsInjective(list) /\ (pc = "counters" => ToDo = {})
  BY <1>1, NoElements DEF ReadingInv, ListTypes, ToDo
<1>5. IsFiniteSet(Listed) /\ Cardinality(Listed) = Len(list) /\ Len(list) \in Nat
  BY <1>4, DistinctLength, LenProperties DEF Listed
<1>6. Listed \subseteq DOMAIN counted /\ Listed \subseteq DOMAIN shown
  BY <1>1, <1>4 DEF ReadingInv, AllIsRead
<1>7. /\ Everything' = Everything /\ Kind' = Kind /\ Plain' = Plain
      /\ \A x : Wanted(x)' => Wanted(x)
  BY <1>1, <1>2, SameRequest
<1>8. ListIsRegular'
  <2>1. ASSUME NEW x \in Everything',
               (Meets(x, always) /\ MeetsCluster(x) /\ Healthy(x, always) /\ InWindow(x) /\ spent.faults = 0)'
        PROVE  x \in Listed
    <3>1. Wanted(x)'
      BY <2>1 DEF Wanted
    <3>2. QED
      BY <1>1, <1>4, <1>7, <3>1 DEF ReadingInv, ListIsComplete
  <2>2. ASSUME NEW x \in Listed
        PROVE  /\ <<"here", x, "">> \in ever
               /\ asked.sids # <<>> => \E s \in Range(asked.sids) : <<"sid", x, s>> \in ever
               /\ asked.tags # {} => \E v \in asked.tags : <<Kind, x, v>> \in ever
               /\ spent.faults = 0 /\ <<"here", x, "">> \in always => Healthy(x, ever)
               /\ \A v \in shown[x] : <<Kind, x, v>> \in ever
               /\ MeetsLast(x)
    <3>1. HasBeenHere(x) /\ HasBeenTagged(x) /\ HasBeenHealthy(x)
      BY <1>1 DEF ReadingInv, ListIsSound
    <3>2. QED
      BY <1>1, <1>3, <1>6, <3>1 DEF ReadingInv, ShownIsSound, HasBeenHere, HasBeenTagged, HasBeenHealthy
  <2>3. \A x : Healthy(x, ever)' <=> Healthy(x, ever)
    BY DEF Healthy
  <2>4. QED
    BY <1>2, <1>7, <2>1, <2>2, <2>3 DEF ListIsRegular, MeetsLast, Listed
<1>9. ChoicesAreRegular'
  <2>1. TagsAreOffered /\ SIDsAreOffered /\ (asked.op = "clusters" => TypesAreOffered)
    BY <1>1, <1>3 DEF ReadingInv, ChoicesAreComplete, Way
  <2>2. \A f : MayOffer(f)' <=> MayOffer(f)
    BY SameQuestion
  <2>3. QED
    BY <1>1, <1>7, <2>1, <2>2 DEF ReadingInv, ChoicesAreSound, ChoicesAreRegular, TagsAreOffered,
                                  SIDsAreOffered, TypesAreOffered, Listed
<1>10. QED
  BY <1>2, <1>4, <1>5, <1>6, <1>8, <1>9

(* The counters are of the list, and of what its elements were.            *)
LEMMA HealthIsCounted ==
  ASSUME CountedIsSound, Listed \subseteq DOMAIN counted, IsFiniteSet(Listed), spent.faults = 0,
         NEW v \in Counters
  PROVE  HealthContainer[v] \in
           Cardinality({x \in Listed : <<"health", x, v>> \in always})
             .. Cardinality({x \in Listed : <<"health", x, v>> \in ever}
                              \cup {x \in Listed : <<"here", x, "">> \notin always})
<1> DEFINE C == {x \in Listed : counted[x] = v}
           A == {x \in Listed : <<"health", x, v>> \in always}
           E == {x \in Listed : <<"health", x, v>> \in ever}
                  \cup {x \in Listed : <<"here", x, "">> \notin always}
<1>1. HealthContainer[v] = Cardinality(C)
  BY DEF HealthContainer, Listed
<1>2. A \subseteq C /\ C \subseteq E /\ E \subseteq Listed
  BY DEF CountedIsSound
<1> HIDE DEF A, C, E
<1>3. IsFiniteSet(A) /\ IsFiniteSet(C) /\ IsFiniteSet(E)
  BY <1>2, FS_Subset
<1>4. /\ Cardinality(A) \in Nat /\ Cardinality(C) \in Nat /\ Cardinality(E) \in Nat
      /\ Cardinality(A) <= Cardinality(C) /\ Cardinality(C) <= Cardinality(E)
  BY <1>2, <1>3, FS_Subset, FS_CardinalityType
<1>5. Cardinality(C) \in Cardinality(A) .. Cardinality(E)
  BY <1>4
<1>6. QED
  BY <1>1, <1>5 DEF A, E

LEMMA CutPageKeeps ==
  ASSUME Inv, CutPage PROVE Inv'
<1>1. /\ pc = "counters" /\ Reading /\ todo = <<>> /\ NoFault /\ pc' = "done"
      /\ UNCHANGED <<Others, asked, todo, list, shown, loaded, counted, offered, always, ever>>
  BY DEF CutPage, Reading, Step
<1>2. ReadingInv /\ WorldTypes
  BY <1>1 DEF Inv
<1>3. asked.op = "hosts" /\ asked.page \in Int /\ asked.size \in Int
  BY <1>1, <1>2 DEF ReadingInv, Way, Inv, RequestTypes
<1>4. /\ WorldTypes' /\ RequestTypes' /\ ListIsRegular' /\ ChoicesAreRegular'
      /\ list \in Seq(Everything) /\ IsInjective(list) /\ Listed \subseteq DOMAIN counted
      /\ IsFiniteSet(Listed) /\ Len(list) \in Nat /\ spent'.faults = spent.faults
  BY <1>1, ListIsAnswered
<1>5. CASE SliceFails(Len(list), asked.page, asked.size)
  <2>1. answer'.status = "panic"
    BY <1>5 DEF CutPage, NoAnswer
  <2>2. ~(asked.size > 0)
    <3>1. SUFFICES ASSUME asked.size > 0 PROVE FALSE
      OBVIOUS
    <3>2. asked.size \in Nat
      BY <1>3, <3>1
    <3>3. QED
      BY <1>3, <1>4, <1>5, <3>1, <3>2, SliceInBounds
  <2>3. PageIsTheWindow' /\ FooterCoversTheList'
    BY <1>1, <2>1, <2>2 DEF PageIsTheWindow, FooterCoversTheList, Answered
  <2>4. QED
    BY <1>1, <1>4, <2>3 DEF Inv, Reading, AnswerInv
<1>6. CASE ~SliceFails(Len(list), asked.page, asked.size)
  <2>1. answer' = [status |-> "ok", page |-> Slice(list, asked.page, asked.size),
                   count |-> Len(list), health |-> HealthContainer]
    BY <1>6 DEF CutPage
  <2>2. PageIsTheWindow'
    <3> DEFINE pageOf(i) == ((i - 1) \div asked.size) + 1
               lastPage == IF list = <<>> THEN 1 ELSE pageOf(Len(list))
               marked == IF asked.page < 1 THEN 1 ELSE Least(asked.page, lastPage)
    <3>1. asked.size > 0 =>
            /\ Slice(list, asked.page, asked.size)
                 = Kept(list, {list[i] : i \in {j \in DOMAIN list : pageOf(j) = marked}})
            /\ list # <<>> => marked \in GetCurrentPages(Len(list), marked, asked.size)
      <4>1. SUFFICES ASSUME asked.size > 0
                     PROVE  /\ Slice(list, asked.page, asked.size)
                                 = Kept(list, {list[i] : i \in {j \in DOMAIN list : pageOf(j) = marked}})
                            /\ list # <<>> => marked \in GetCurrentPages(Len(list), marked, asked.size)
        OBVIOUS
      <4>2. asked.size \in Nat
        BY <1>3, <4>1
      <4>3. QED
        BY <1>3, <1>4, <4>1, <4>2, PageShown
    <3>2. answer'.page = Slice(list, asked.page, asked.size) /\ answer'.status # "panic"
      BY <2>1
    <3>3. QED
      BY <1>1, <3>1, <3>2 DEF PageIsTheWindow
  <2>3. FooterCoversTheList'
    <3>1. /\ answer'.count = Len(list) /\ answer'.health = HealthContainer
      BY <2>1
    <3>2. CountedIsSound
      BY <1>2 DEF ReadingInv
    <3>3. spent.faults = 0 => \A v \in Counters :
            HealthContainer[v] \in
              Cardinality({x \in Listed : <<"health", x, v>> \in always})
                .. Cardinality({x \in Listed : <<"health", x, v>> \in ever}
                                 \cup {x \in Listed : <<"here", x, "">> \notin always})
      BY <1>4, <3>2, HealthIsCounted
    <3>4. /\ Len(list) <= Len(list) /\ asked'.op # "clusters"
          /\ list' = list /\ always' = always /\ ever' = ever
      BY <1>1, <1>3, <1>4
    <3>5. (spent.faults = 0 => \A v \in Counters :
             LET With(facts) == {x \in Range(list) : <<"health", x, v>> \in facts}
                 gone == {x \in Range(list) : <<"here", x, "">> \notin always}
             IN  answer.health[v] \in Cardinality(With(always)) .. Cardinality(With(ever) \cup gone))'
      BY <1>4, <3>1, <3>3, <3>4 DEF Listed
    <3>6. QED
      BY <3>1, <3>4, <3>5 DEF FooterCoversTheList
  <2>4. QED
    BY <1>1, <1>4, <2>2, <2>3 DEF Inv, Reading, AnswerInv
<1>7. QED
  BY <1>5, <1>6

(* What the query of clusters finds, and what meets its filters.           *)
LEMMA ClustersFound ==
  ASSUME WorldTypes, asked.op = "clusters", always \subseteq Facts, Facts \subseteq ever,
         NEW set, set = {c \in rows : Applied(Row(Clusters, c)) /\ HasTag(TagsOf("clusters", c))}
  PROVE  /\ \A x \in set : x \in rows /\ HasBeenHere(x) /\ HasBeenTagged(x)
         /\ \A x \in Ids(Clusters) : Meets(x, always) /\ MeetsCluster(x) => x \in set
         /\ Plain => /\ \A x \in set : Meets(x, ever)
                     /\ \A x \in Ids(Clusters) : Meets(x, always) => x \in set
<1>1. Kind = "clusters" /\ "clusters" \in TagTypes /\ rows \subseteq Ids(Clusters)
  BY DEF Kind, TagTypes, WorldTypes
<1>2. ASSUME NEW x \in Ids(Clusters)
      PROVE  /\ <<"here", x, "">> \in Facts <=> x \in rows
             /\ \A s : <<"sid", x, s>> \in Facts <=> x \in rows /\ s \in Row(Clusters, x).sids
             /\ \A v : <<Kind, x, v>> \in Facts <=> v \in TagsOf("clusters", x)
  BY <1>1, FactsOfClusters, FactsOfTags
<1>3. ASSUME NEW x \in set PROVE x \in rows /\ HasBeenHere(x) /\ HasBeenTagged(x)
  <2>1. x \in rows /\ x \in Ids(Clusters) /\ Applied(Row(Clusters, x)) /\ HasTag(TagsOf("clusters", x))
    BY <1>1
  <2>2. <<"here", x, "">> \in ever
    BY <1>2, <2>1
  <2>3. asked.sids # <<>> => \E s \in Range(asked.sids) : <<"sid", x, s>> \in ever
    BY <1>2, <2>1 DEF Applied, HasSID
  <2>4. HasBeenTagged(x)
    BY <1>2, <2>1 DEF HasTag, HasBeenTagged
  <2>5. MeetsLast(x)
    BY <2>1 DEF Applied, MeetsLast
  <2>6. QED
    BY <2>1, <2>2, <2>3, <2>4, <2>5 DEF HasBeenHere
<1>4. ASSUME NEW x \in Ids(Clusters), Meets(x, always), MeetsCluster(x) PROVE x \in set
  <2>1. x \in rows
    BY <1>2, <1>4 DEF Meets
  <2>2. HasTag(TagsOf("clusters", x))
    BY <1>2, <1>4 DEF Meets, HasTag
  <2>3. asked.sids # <<>> => HasSID(Row(Clusters, x).sids)
    BY <1>2, <1>4 DEF Meets, HasSID
  <2>4. Applied(Row(Clusters, x))
    BY <1>4, <2>3 DEF MeetsCluster, Applied
  <2>5. QED
    BY <2>1, <2>2, <2>4
<1>5. ASSUME Plain, NEW x PROVE MeetsCluster(x)
  BY <1>5 DEF Plain, MeetsCluster
<1>6. ASSUME Plain, NEW x \in set PROVE Meets(x, ever)
  BY <1>3, <1>6 DEF Meets, HasBeenHere, HasBeenTagged, Plain
<1>7. QED
  BY <1>3, <1>4, <1>5, <1>6

(* The place an element has in what is found is between how many there     *)
(* have been before it all the time and how many at any time.              *)
LEMMA PlaceFound ==
  ASSUME NEW set, set \subseteq Ids(Clusters),
         \A x \in set : Meets(x, ever), \A x \in Ids(Clusters) : Meets(x, always) => x \in set,
         NEW p \in 1 .. Len(Kept(Column(Clusters, "id"), set)),
         NEW x, x = Kept(Column(Clusters, "id"), set)[p]
  PROVE  Cardinality(Before(x, always)) <= p /\ p <= Cardinality(Before(x, ever))
<1> DEFINE ids == Column(Clusters, "id")
           upto == {c \in Range(ids) \cap set :
                      \E i, j \in DOMAIN ids : i <= j /\ ids[i] = c /\ ids[j] = Kept(ids, set)[p]}
<1>1. /\ ids \in Seq(STRING) /\ IsInjective(ids) /\ Range(ids) = Ids(Clusters)
      /\ DOMAIN ids = DOMAIN Clusters /\ \A i \in DOMAIN Clusters : ids[i] = Clusters[i].id
  BY ClusterRows
<1>2. IsFiniteSet(upto) /\ Cardinality(upto) = p
  <2>1. p \in 1 .. Len(Kept(ids, set)) /\ ids \in Seq(STRING) /\ IsInjective(ids)
    BY <1>1
  <2> HIDE DEF ids
  <2>2. QED
    BY <2>1, KeptRank
<1>3. \A c : c \in upto <=> /\ c \in set
                           /\ \E i, j \in DOMAIN Clusters :
                                i <= j /\ Clusters[i].id = c /\ Clusters[j].id = x
  <2> HIDE DEF ids
  <2>1. \A c : c \in upto <=> /\ c \in Range(ids) \cap set
                             /\ \E i, j \in DOMAIN ids : i <= j /\ ids[i] = c /\ ids[j] = x
    BY DEF ids
  <2>2. QED
    BY <1>1, <2>1
<1> HIDE DEF upto
<1>4. Before(x, always) \subseteq upto /\ upto \subseteq Before(x, ever)
  BY <1>3 DEF Before
<1>5. /\ Cardinality(Before(x, always)) <= Cardinality(upto)
      /\ Cardinality(upto) <= Cardinality(Before(x, ever))
  BY <1>2, <1>4, BeforeIsFinite, FS_Subset
<1>6. QED
  BY <1>2, <1>5

LEMMA FindClustersKeeps ==
  ASSUME Inv, FindClusters PROVE Inv'
<1> DEFINE set == {c \in rows : Applied(Row(Clusters, c)) /\ HasTag(TagsOf("clusters", c))}
           found == Kept(Column(Clusters, "id"), set)
<1>1. /\ pc = "load" /\ asked.op = "clusters" /\ Reading /\ NoFault /\ pc' = "preload"
      /\ UNCHANGED <<Others, asked, todo, shown, loaded, counted, offered, answer, always, ever>>
      /\ list' = IF Plain THEN Paginate(found, asked.page, asked.size) ELSE found
  BY DEF FindClusters, Reading, Step
<1>2. ReadingInv /\ WorldTypes
  BY <1>1 DEF Inv
<1>3. /\ WorldTypes' /\ RequestTypes' /\ asked.page \in Int /\ asked.size \in Int
      /\ always \subseteq Facts /\ Facts \subseteq ever /\ rows' = rows
  BY <1>1, StepTypes DEF Places
<1>4. Everything = Ids(Clusters) /\ rows \subseteq Ids(Clusters) /\ set \subseteq rows
  BY <1>1, <1>2 DEF Everything, WorldTypes
<1>5. /\ \A x \in set : HasBeenHere(x) /\ HasBeenTagged(x)
      /\ \A x \in Ids(Clusters) : Meets(x, always) /\ MeetsCluster(x) => x \in set
      /\ Plain => /\ \A x \in set : Meets(x, ever)
                  /\ \A x \in Ids(Clusters) : Meets(x, always) => x \in set
  BY <1>1, <1>2, <1>3, ClustersFound
<1> HIDE DEF set
<1>6. found \in Seq(STRING) /\ IsInjective(found) /\ Range(found) = set
  <2>1. Range(found) = Ids(Clusters) \cap set /\ found \in Seq(STRING) /\ IsInjective(found)
    BY ClusterRows, KeptOf
  <2>2. QED
    BY <1>4, <2>1
<1>7. \A p \in 1 .. Len(found) : Plain =>
        Cardinality(Before(found[p], always)) <= p /\ p <= Cardinality(Before(found[p], ever))
  BY <1>4, <1>5, PlaceFound
<1>8. Len(found) \in Nat /\ Len(found) = Cardinality(set) /\ IsFiniteSet(set)
  BY <1>6, DistinctLength, LenProperties
<1> HIDE DEF found
<1>9. list' \in Seq(STRING) /\ IsInjective(list') /\ Range(list') \subseteq set
  BY <1>1, <1>3, <1>6, PaginateElements, PaginateRange
<1>10. Listed' \subseteq set /\ ToDo' = {} /\ todo' = <<>>
  BY <1>1, <1>2, <1>9, NoElements DEF Listed, ToDo, ReadingInv, Blank
<1>11. list' \in Seq(Ids(Clusters))
  <2>1. list' \in Seq(Range(list'))
    BY <1>9, OverItsRange
  <2>2. Range(list') \subseteq Ids(Clusters)
    BY <1>4, <1>9
  <2>3. QED
    BY <2>1, <2>2
<1>12. /\ Everything' = Everything /\ Plain' = Plain
       /\ \A x : HasBeenHere(x)' <=> HasBeenHere(x)
       /\ \A x : HasBeenTagged(x)' <=> HasBeenTagged(x)
       /\ \A x : Wanted(x)' => Wanted(x)
  BY <1>1, <1>2, <1>3, SameRequest
<1>13. (pc \in Way)'
  BY <1>1 DEF Way
<1>14. ListTypes'
  BY <1>1, <1>4, <1>9, <1>10, <1>11, <1>12, NoElements DEF ListTypes
<1>15. ListIsSound'
  BY <1>1, <1>5, <1>10, <1>12 DEF ListIsSound
<1>16. ASSUME NEW x \in Ids(Clusters), Wanted(x) PROVE x \in Range(list')
  <2>1. x \in set
    BY <1>5, <1>16 DEF Wanted
  <2>2. CASE ~Plain
    BY <1>1, <1>6, <2>1, <2>2
  <2>3. CASE Plain
    <3>1. DOMAIN found = 1 .. Len(found)
      BY <1>6, LenProperties
    <3>2. PICK p \in 1 .. Len(found) : found[p] = x
      BY <1>6, <2>1, <3>1 DEF Range
    <3> DEFINE o == Offset(asked.page, asked.size)
               before == Cardinality(Before(x, always))
               after == Cardinality(Before(x, ever))
    <3>3. /\ o < before /\ before <= p /\ p <= after
          /\ asked.size > 0 => after <= o + asked.size
      BY <1>1, <1>7, <1>16, <2>3, <3>2 DEF Wanted, InWindow
    <3>4. o \in Nat /\ before \in Nat /\ after \in Nat
      BY <1>3, <1>6, PaginateElements, BeforeIsFinite
    <3> HIDE DEF before, after
    <3>5. o < p /\ (asked.size > 0 => p <= o + asked.size)
      BY <1>3, <3>3, <3>4
    <3>6. \E q \in 1 .. Len(list') : list'[q] = x
      BY <1>1, <1>3, <1>6, <2>3, <3>2, <3>5, PaginateElements
    <3>7. DOMAIN list' = 1 .. Len(list')
      BY <1>9, LenProperties
    <3>8. QED
      BY <3>6, <3>7 DEF Range
  <2>4. QED
    BY <2>2, <2>3
<1>17. ListIsComplete'
  BY <1>4, <1>12, <1>16 DEF ListIsComplete, Listed
<1>18. ShownIsSound' /\ LoadedIsSound' /\ CountedIsSound' /\ ChoicesAreSound'
  BY <1>1, <1>2, <1>3, SameRequest DEF ReadingInv
<1>19. AllIsRead' /\ ChoicesAreComplete'
  BY <1>1 DEF AllIsRead, ChoicesAreComplete
<1>20. RowsAreThere'
  <2>1. Listed' \subseteq rows'
    BY <1>3, <1>4, <1>10
  <2>2. ASSUME Plain, asked.size > 0, asked.page > 0, list' # <<>>
        PROVE  (asked.page - 1) * asked.size < Cardinality(rows)
    <3>1. Offset(asked.page, asked.size) < Len(found)
      BY <1>1, <1>3, <1>6, <2>2, PaginateRange
    <3>2. (asked.page - 1) * asked.size \in Int
      BY <1>3
    <3>3. (asked.page - 1) * asked.size <= Offset(asked.page, asked.size)
      BY <1>3, <2>2, <3>2 DEF Offset
    <3>4. IsFiniteSet(rows)
      BY <1>4, BeforeIsFinite, FS_Subset
    <3>5. Cardinality(set) <= Cardinality(rows) /\ Cardinality(rows) \in Nat /\ Cardinality(set) \in Nat
      BY <1>4, <1>8, <3>4, FS_Subset, FS_CardinalityType
    <3>6. Offset(asked.page, asked.size) \in Nat
      BY <1>3, <1>6, PaginateElements
    <3> HIDE DEF set
    <3> DEFINE first == (asked.page - 1) * asked.size
               o == Offset(asked.page, asked.size)
               n == Cardinality(rows)
               m == Cardinality(set)
    <3>7. first <= o /\ o < m /\ m <= n
      BY <1>8, <3>1, <3>3, <3>5
    <3>8. first \in Int /\ o \in Nat /\ m \in Nat /\ n \in Nat
      BY <3>2, <3>5, <3>6
    <3> HIDE DEF first, o, n, m
    <3>9. first < n
      BY <3>7, <3>8
    <3>10. QED
      BY <3>9 DEF first, n
  <2>3. QED
    BY <1>1, <1>3, <1>12, <2>1, <2>2 DEF RowsAreThere
<1>21. ReadingInv'
  BY <1>1, <1>13, <1>14, <1>15, <1>17, <1>18, <1>19, <1>20 DEF ReadingInv
<1>22. QED
  BY <1>1, <1>3, <1>21 DEF Inv

LEMMA FindHostsKeeps ==
  ASSUME Inv, FindHosts PROVE Inv'
<1> DEFINE set == {a \in Ids(Agents) : HasSID(Row(Agents, a).sids) /\ HasTag(TagsOf("hosts", a))}
<1>1. /\ pc = "load" /\ asked.op = "hosts_next" /\ Reading /\ NoFault /\ pc' = "preload"
      /\ UNCHANGED <<Others, asked, todo, shown, loaded, counted, offered, answer, always, ever>>
      /\ list' = Kept(Column(Agents, "id"), set)
  BY DEF FindHosts, Reading, Step
<1>2. ReadingInv /\ WorldTypes
  BY <1>1 DEF Inv
<1>3. /\ WorldTypes' /\ RequestTypes' /\ asked.page \in Int /\ asked.size \in Int
      /\ always \subseteq Facts /\ Facts \subseteq ever
  BY <1>1, StepTypes DEF Places
<1>4. /\ Everything = Ids(Agents) /\ set \subseteq Ids(Agents)
      /\ Kind = "hosts" /\ "hosts" \in TagTypes
  BY <1>1 DEF Everything, Kind, TagTypes
<1>5. ASSUME NEW x \in Ids(Agents)
      PROVE  /\ <<"here", x, "">> \in Facts
             /\ \A s : <<"sid", x, s>> \in Facts <=> s \in Row(Agents, x).sids
             /\ \A v : <<Kind, x, v>> \in Facts <=> v \in TagsOf("hosts", x)
  BY <1>2, <1>4, FactsOfAgents, FactsOfTags
<1>6. ASSUME NEW x \in set PROVE HasBeenHere(x) /\ HasBeenTagged(x)
  <2>1. x \in Ids(Agents) /\ HasSID(Row(Agents, x).sids) /\ HasTag(TagsOf("hosts", x))
    OBVIOUS
  <2>2. HasBeenHere(x)
    BY <1>1, <1>3, <1>5, <2>1 DEF HasBeenHere, MeetsLast, HasSID
  <2>3. HasBeenTagged(x)
    BY <1>3, <1>5, <2>1 DEF HasBeenTagged, HasTag
  <2>4. QED
    BY <2>2, <2>3
<1>7. ASSUME NEW x \in Ids(Agents), Wanted(x) PROVE x \in set
  <2>1. Meets(x, always)
    BY <1>7 DEF Wanted
  <2>2. HasSID(Row(Agents, x).sids)
    BY <1>3, <1>5, <2>1 DEF Meets, HasSID
  <2>3. HasTag(TagsOf("hosts", x))
    BY <1>3, <1>5, <2>1 DEF Meets, HasTag
  <2>4. QED
    BY <2>2, <2>3
<1> HIDE DEF set
<1>8. list' \in Seq(STRING) /\ IsInjective(list') /\ Range(list') = set
  <2>1. Range(list') = Ids(Agents) \cap set /\ list' \in Seq(STRING) /\ IsInjective(list')
    BY <1>1, AgentRows, KeptOf
  <2>2. QED
    BY <1>4, <2>1
<1>9. Listed' = set /\ ToDo' = {} /\ todo' = <<>>
  BY <1>1, <1>2, <1>8, NoElements DEF Listed, ToDo, ReadingInv, Blank
<1>10. list' \in Seq(Ids(Agents))
  BY <1>4, <1>8, OverItsRange
<1>11. /\ Everything' = Everything
       /\ \A x : HasBeenHere(x)' <=> HasBeenHere(x)
       /\ \A x : HasBeenTagged(x)' <=> HasBeenTagged(x)
       /\ \A x : Wanted(x)' => Wanted(x)
  BY <1>1, <1>2, <1>3, SameRequest
<1>12. (pc \in Way)'
  BY <1>1 DEF Way
<1>13. ListTypes'
  BY <1>1, <1>4, <1>8, <1>9, <1>10, <1>11, NoElements DEF ListTypes
<1>14. ListIsSound'
  BY <1>1, <1>6, <1>9, <1>11 DEF ListIsSound
<1>15. ListIsComplete'
  BY <1>4, <1>7, <1>9, <1>11 DEF ListIsComplete
<1>16. ShownIsSound' /\ LoadedIsSound' /\ CountedIsSound' /\ ChoicesAreSound'
  BY <1>1, <1>2, <1>3, SameRequest DEF ReadingInv
<1>17. AllIsRead' /\ ChoicesAreComplete' /\ RowsAreThere'
  BY <1>1 DEF AllIsRead, ChoicesAreComplete, RowsAreThere
<1>18. ReadingInv'
  BY <1>1, <1>12, <1>13, <1>14, <1>15, <1>16, <1>17 DEF ReadingInv
<1>19. QED
  BY <1>1, <1>3, <1>18 DEF Inv

LEMMA PreloadKeeps ==
  ASSUME Inv, Preload PROVE Inv'
<1>1. /\ pc = "preload" /\ Reading /\ NoFault /\ pc' = "enrich" /\ todo' = list
      /\ UNCHANGED <<Others, asked, list, loaded, counted, offered, answer, always, ever>>
  BY DEF Preload, Reading, Step
<1>2. ReadingInv /\ WorldTypes
  BY <1>1 DEF Inv
<1>3. /\ WorldTypes' /\ RequestTypes' /\ asked.page \in Int /\ asked.size \in Int
      /\ Facts \subseteq ever /\ rows' = rows
  BY <1>1, StepTypes DEF Places
<1>4. asked.op \in {"clusters", "hosts_next"}
  BY <1>1, <1>2 DEF ReadingInv, Way
<1>5. /\ Everything' = Everything /\ Kind' = Kind /\ Plain' = Plain /\ Listed' = Listed
      /\ \A x : HasBeenHere(x)' <=> HasBeenHere(x)
      /\ \A x : HasBeenTagged(x)' <=> HasBeenTagged(x)
      /\ \A x : Wanted(x)' => Wanted(x)
  BY <1>1, <1>2, <1>3, SameRequest DEF Listed
<1>6. /\ shown' = [x \in Listed |-> CASE asked.op = "hosts_next" -> TagsOf("hosts", x)
                                      [] asked.op = "clusters" /\ Plain -> TagsOf("clusters", x)
                                      [] OTHER -> {}]
  BY DEF Preload, Listed
<1>7. (pc \in Way)'
  BY <1>1, <1>4 DEF Way
<1>8. ToDo' = Listed /\ todo' = list
  BY <1>1 DEF ToDo, Listed
<1>9. ListTypes'
  BY <1>1, <1>2, <1>5, <1>8 DEF ReadingInv, ListTypes
<1>10. ListIsSound' /\ ListIsComplete'
  BY <1>1, <1>2, <1>5, <1>8 DEF ReadingInv, ListIsSound, ListIsComplete
<1>11. ShownIsSound'
  <2>1. \A x : \A v : /\ <<"hosts", x, v>> \in Facts <=> v \in TagsOf("hosts", x)
                      /\ <<"clusters", x, v>> \in Facts <=> v \in TagsOf("clusters", x)
    BY <1>2, FactsOfTags DEF TagTypes
  <2>2. ASSUME NEW x \in DOMAIN shown'
        PROVE  \A v \in shown'[x] : <<Kind, x, v>> \in ever
    <3>1. CASE asked.op = "hosts_next"
      BY <1>3, <1>6, <2>1, <3>1 DEF Kind
    <3>2. CASE asked.op = "clusters" /\ Plain
      BY <1>3, <1>6, <2>1, <3>2 DEF Kind
    <3>3. CASE asked.op = "clusters" /\ ~Plain
      BY <1>6, <3>3
    <3>4. QED
      BY <1>4, <3>1, <3>2, <3>3
  <2>3. Listed \subseteq Everything
    BY <1>2, LenProperties DEF ReadingInv, ListTypes, Listed, Range
  <2>4. QED
    BY <1>1, <1>4, <1>5, <1>6, <2>2, <2>3 DEF ShownIsSound
<1>12. LoadedIsSound' /\ CountedIsSound' /\ ChoicesAreSound'
  BY <1>1, <1>2, <1>3, SameRequest DEF ReadingInv
<1>13. AllIsRead'
  BY <1>1, <1>4, <1>5, <1>6, <1>8 DEF AllIsRead
<1>14. ChoicesAreComplete'
  BY <1>1 DEF ChoicesAreComplete
<1>15. RowsAreThere'
  BY <1>1, <1>2, <1>3, <1>5 DEF ReadingInv, RowsAreThere
<1>16. ReadingInv'
  BY <1>1, <1>7, <1>9, <1>10, <1>11, <1>12, <1>13, <1>14, <1>15 DEF ReadingInv
<1>17. QED
  BY <1>1, <1>3, <1>16 DEF Inv

LEMMA EnrichKeeps ==
  ASSUME Inv, Enrich PROVE Inv'
<1>0. PICK h : h = Head(todo)
  OBVIOUS
<1>1. /\ pc = "enrich" /\ Reading /\ todo # <<>> /\ todo' = Tail(todo)
      /\ NoFault \/ Fault
      /\ UNCHANGED <<Others, asked, pc, list, shown, loaded, offered, answer, always, ever>>
  BY DEF Enrich, Reading
<1>2. ReadingInv /\ WorldTypes
  BY <1>1 DEF Inv
<1>3. /\ WorldTypes' /\ RequestTypes' /\ asked.page \in Int /\ asked.size \in Int
      /\ always \subseteq Facts /\ Facts \subseteq ever /\ rows' = rows
  BY <1>1, StepTypes DEF Places
<1>4. asked.op \in {"clusters", "hosts_next"}
  BY <1>1, <1>2 DEF ReadingInv, Way
<1>5. /\ Everything' = Everything /\ Kind' = Kind /\ Plain' = Plain /\ Listed' = Listed /\ Way' = Way
      /\ \A x : HasBeenHere(x)' <=> HasBeenHere(x)
      /\ \A x : HasBeenTagged(x)' <=> HasBeenTagged(x)
      /\ \A x : Wanted(x)' => Wanted(x)
      /\ Fault => spent'.faults # 0
      /\ spent'.faults = 0 => spent.faults = 0
  BY <1>1, <1>2, <1>3, SameRequest DEF Listed
<1>6. /\ todo \in Seq(Everything) /\ IsInjective(todo) /\ list \in Seq(Everything)
      /\ IsInjective(list) /\ ToDo \subseteq Listed
  BY <1>1, <1>2 DEF ReadingInv, ListTypes
<1>7. /\ h \in Everything /\ todo' \in Seq(Everything) /\ IsInjective(todo')
      /\ ToDo = {h} \cup ToDo' /\ h \in Listed
  <2>1. /\ h \in Everything /\ todo' \in Seq(Everything) /\ IsInjective(todo')
        /\ ToDo = {h} \cup ToDo'
    BY <1>0, <1>1, <1>6, HeadAndTail DEF ToDo
  <2>2. QED
    BY <1>6, <2>1
<1>8. DOMAIN counted' = DOMAIN counted \cup {h}
  BY <1>0 DEF Enrich, Updated
<1>9. CountedIsSound'
  <2>1. CASE Fault
    BY <1>5, <2>1 DEF CountedIsSound
  <2>2. CASE ~Fault
    <3>1. PICK v : v = IF asked.op = "clusters" THEN results[h] ELSE beats[h]
      OBVIOUS
    <3>2. counted' = Updated(counted, h, v)
      BY <1>0, <2>2, <3>1 DEF Enrich
    <3>3. /\ <<"health", h, v>> \in Facts
          /\ \A w : <<"health", h, w>> \in Facts => v = w
      <4>1. CASE asked.op = "clusters"
        <5>1. h \in rows /\ h \in Ids(Clusters)
          BY <1>2, <1>7, <4>1 DEF ReadingInv, RowsAreThere, WorldTypes
        <5>2. QED
          BY <1>2, <3>1, <4>1, <5>1, FactsOfClusters
      <4>2. CASE asked.op = "hosts_next"
        <5>1. h \in Ids(Agents)
          BY <1>7, <4>2 DEF Everything
        <5>2. QED
          BY <1>2, <3>1, <4>2, <5>1, FactsOfAgents
      <4>3. QED
        BY <1>4, <4>1, <4>2
    <3>4. counted'[h] = v /\ \A x \in DOMAIN counted : x # h => counted'[x] = counted[x]
      BY <3>2 DEF Updated
    <3>5. \A w : <<"health", h, w>> \in always => v = w
      BY <1>3, <3>3
    <3>6. <<"health", h, v>> \in ever
      BY <1>3, <3>3
    <3>7. QED
      BY <1>1, <1>2, <1>5, <1>8, <3>4, <3>5, <3>6 DEF ReadingInv, CountedIsSound
  <2>3. QED
    BY <2>1, <2>2
<1>10. (pc \in Way)' /\ pc' = "enrich"
  BY <1>1, <1>2, <1>5 DEF ReadingInv
<1>11. ListTypes'
  BY <1>1, <1>5, <1>6, <1>7, <1>10 DEF ListTypes
<1>12. ListIsSound' /\ ListIsComplete'
  BY <1>1, <1>2, <1>5, <1>7, <1>10 DEF ReadingInv, ListIsSound, ListIsComplete
<1>13. ShownIsSound' /\ LoadedIsSound' /\ ChoicesAreSound'
  BY <1>1, <1>2, <1>3, SameRequest DEF ReadingInv
<1>14. AllIsRead'
  BY <1>1, <1>2, <1>4, <1>5, <1>7, <1>8, <1>10 DEF ReadingInv, AllIsRead
<1>15. ChoicesAreComplete'
  BY <1>10 DEF ChoicesAreComplete
<1>16. RowsAreThere'
  BY <1>1, <1>2, <1>3, <1>5 DEF ReadingInv, RowsAreThere
<1>17. ReadingInv'
  BY <1>9, <1>10, <1>11, <1>12, <1>13, <1>14, <1>15, <1>16 DEF ReadingInv
<1>18. QED
  BY <1>3, <1>10, <1>17 DEF Inv

LEMMA FilterByHealthKeeps ==
  ASSUME Inv, filterByHealth PROVE Inv'
<1> DEFINE set == {x \in Listed : HasHealth(counted[x])}
<1>1. /\ pc = "enrich" /\ Reading /\ todo = <<>> /\ NoFault
      /\ UNCHANGED <<Others, asked, todo, shown, loaded, counted, offered, answer, always, ever>>
      /\ list' = Kept(list, set) /\ pc' = IF asked.op = "clusters" THEN "types" ELSE "sids"
  BY DEF filterByHealth, Reading, Step, Listed
<1>2. ReadingInv /\ WorldTypes
  BY <1>1 DEF Inv
<1>3. /\ WorldTypes' /\ RequestTypes' /\ asked.page \in Int /\ asked.size \in Int /\ rows' = rows
  BY <1>1, StepTypes DEF Places
<1>4. asked.op \in {"clusters", "hosts_next"}
  BY <1>1, <1>2 DEF ReadingInv, Way
<1>5. /\ Everything' = Everything /\ Plain' = Plain
      /\ \A x : HasBeenHere(x)' <=> HasBeenHere(x)
      /\ \A x : HasBeenTagged(x)' <=> HasBeenTagged(x)
      /\ \A x : HasBeenHealthy(x) => HasBeenHealthy(x)'
      /\ \A x : Wanted(x)' => Wanted(x)
  BY <1>1, <1>2, <1>3, SameRequest
<1>6. list \in Seq(Everything) /\ IsInjective(list) /\ ToDo = {} /\ ToDo' = {}
  BY <1>1, <1>2, NoElements DEF ReadingInv, ListTypes, ToDo
<1> HIDE DEF set
<1>7. list' \in Seq(Everything) /\ IsInjective(list') /\ Range(list') = Listed \cap set
  BY <1>1, <1>6, KeptOf DEF Listed
<1>8. Listed' = set /\ set \subseteq Listed
  BY <1>7 DEF Listed, set
<1>9. \A x \in Listed : x \in DOMAIN shown /\ x \in DOMAIN counted
  BY <1>1, <1>2, <1>6 DEF ReadingInv, AllIsRead
<1>10. (pc \in Way)'
  BY <1>1, <1>4 DEF Way
<1>11. ListTypes'
  BY <1>1, <1>5, <1>6, <1>7, NoElements DEF ListTypes
<1>12. ListIsSound'
  <2>1. \A x \in set : HasBeenHere(x)' /\ HasBeenTagged(x)'
    BY <1>1, <1>2, <1>5, <1>8 DEF ReadingInv, ListIsSound
  <2>2. \A x \in set : HasBeenHealthy(x)
    BY <1>2, <1>8, <1>9 DEF ReadingInv, CountedIsSound, HasBeenHealthy, Healthy, HasHealth, set
  <2>3. QED
    BY <1>1, <1>5, <1>6, <1>8, <2>1, <2>2 DEF ListIsSound
<1>13. ListIsComplete'
  <2>1. ASSUME NEW x \in Everything, Wanted(x) PROVE x \in set
    <3>1. x \in Listed
      BY <1>1, <1>2, <2>1 DEF ReadingInv, ListIsComplete
    <3>2. Healthy(x, always) /\ spent.faults = 0
      BY <2>1 DEF Wanted
    <3>3. HasHealth(counted[x])
      BY <1>2, <1>9, <3>1, <3>2 DEF ReadingInv, CountedIsSound, Healthy, HasHealth
    <3>4. QED
      BY <3>1, <3>3 DEF set
  <2>2. QED
    BY <1>1, <1>5, <1>8, <2>1 DEF ListIsComplete
<1>14. ShownIsSound' /\ LoadedIsSound' /\ CountedIsSound' /\ ChoicesAreSound'
  BY <1>1, <1>2, <1>3, SameRequest DEF ReadingInv
<1>15. AllIsRead'
  BY <1>1, <1>4, <1>8, <1>9 DEF AllIsRead
<1>16. ChoicesAreComplete'
  BY <1>1, <1>4 DEF ChoicesAreComplete
<1>17. RowsAreThere'
  <2>1. list' # <<>> => list # <<>>
    <3>1. list = <<>> => Listed = {}
      BY NoElements DEF Listed
    <3>2. Range(list') = {} => list' = <<>>
      BY <1>7, LenProperties, EmptySeq DEF Range
    <3>3. QED
      BY <1>7, <3>1, <3>2
  <2>2. QED
    BY <1>1, <1>2, <1>3, <1>5, <1>8, <2>1 DEF ReadingInv, RowsAreThere
<1>18. ReadingInv'
  BY <1>1, <1>10, <1>11, <1>12, <1>13, <1>14, <1>15, <1>16, <1>17 DEF ReadingInv
<1>19. QED
  BY <1>1, <1>3, <1>18 DEF Inv, Reading

(* What the three queries of choices read.                                 *)
LEMMA TypesRead ==
  ASSUME WorldTypes, Facts \subseteq ever
  PROVE  /\ \A t \in GetAllClusterTypes :
              \E c \in Range(Clusters) : c.type = t /\ <<"here", c.id, "">> \in ever
         /\ \A x \in rows : Row(Clusters, x).type \in GetAllClusterTypes
<1>1. \A x \in rows : /\ Row(Clusters, x) \in Range(Clusters) /\ Row(Clusters, x).id = x
                      /\ <<"here", x, "">> \in ever
  BY ClusterRows, FactsOfClusters DEF WorldTypes
<1>2. QED
  BY <1>1 DEF GetAllClusterTypes

LEMMA SIDsRead ==
  ASSUME WorldTypes, always \subseteq Facts, Facts \subseteq ever,
         asked.op \in {"clusters", "hosts_next"}
  PROVE  /\ \A s \in GetAllSIDs : \E f \in ever : f[1] = "sid" /\ f[2] \in Everything /\ f[3] = s
         /\ \A x \in IF asked.op = "clusters" THEN rows ELSE Ids(Agents) :
              \A f \in always : f[1] = "sid" /\ f[2] = x => f[3] \in GetAllSIDs
<1>1. \A x \in rows : \A s : <<"sid", x, s>> \in Facts <=> s \in Row(Clusters, x).sids
  BY FactsOfClusters DEF WorldTypes
<1>2. \A x \in Ids(Agents) : \A s : <<"sid", x, s>> \in Facts <=> s \in Row(Agents, x).sids
  BY FactsOfAgents
<1>3. /\ \A a \in Range(Agents) : a.id \in Ids(Agents) /\ Row(Agents, a.id) = a
      /\ \A x \in Ids(Agents) : Row(Agents, x) \in Range(Agents)
  BY AgentRows
<1>4. ASSUME NEW s \in GetAllSIDs
      PROVE  \E f \in ever : f[1] = "sid" /\ f[2] \in Everything /\ f[3] = s
  <2>1. \E x \in Everything : <<"sid", x, s>> \in ever
    <3>1. CASE asked.op = "clusters"
      <4>1. s \in UNION {Row(Clusters, c).sids : c \in rows} /\ Everything = Ids(Clusters)
        BY <3>1 DEF GetAllSIDs, Everything
      <4>2. PICK c \in rows : s \in Row(Clusters, c).sids
        BY <4>1
      <4>3. QED
        BY <1>1, <4>1, <4>2 DEF WorldTypes
    <3>2. CASE asked.op # "clusters"
      <4>1. s \in UNION {a.sids : a \in Range(Agents)} /\ Everything = Ids(Agents)
        BY <3>2 DEF GetAllSIDs, Everything
      <4>2. PICK a \in Range(Agents) : s \in a.sids
        BY <4>1
      <4>3. s \in Row(Agents, a.id).sids /\ a.id \in Ids(Agents)
        BY <1>3, <4>2
      <4>4. QED
        BY <1>2, <4>1, <4>3
    <3>3. QED
      BY <3>1, <3>2
  <2>2. PICK x \in Everything : <<"sid", x, s>> \in ever
    BY <2>1
  <2>3. PICK f \in ever : f = <<"sid", x, s>>
    BY <2>2
  <2>4. f[1] = "sid" /\ f[2] = x /\ f[3] = s
    BY <2>3
  <2>5. QED
    BY <2>4
<1>5. ASSUME NEW x \in IF asked.op = "clusters" THEN rows ELSE Ids(Agents),
             NEW f \in always, f[1] = "sid", f[2] = x
      PROVE  f[3] \in GetAllSIDs
  <2>1. f = <<"sid", x, f[3]>> /\ f \in Facts
    BY <1>5, FactsOfSIDs
  <2>2. CASE asked.op = "clusters"
    BY <1>1, <1>5, <2>1, <2>2 DEF GetAllSIDs
  <2>3. CASE asked.op # "clusters"
    BY <1>2, <1>3, <1>5, <2>1, <2>3 DEF GetAllSIDs
  <2>4. QED
    BY <2>2, <2>3
<1>6. QED
  BY <1>4, <1>5

LEMMA TagsRead ==
  ASSUME WorldTypes, always \subseteq Facts, Facts \subseteq ever
  PROVE  /\ \A t \in tags : \E f \in ever : f[1] \in TagTypes /\ f[1] = t.type /\ f[3] = t.value
         /\ asked.op \in {"clusters", "hosts_next"} =>
              \A v \in GetAllTags : \E f \in ever : MayOffer(f) /\ f[3] = v
         /\ Kind \in TagTypes => \A x : \A v : <<Kind, x, v>> \in always => v \in GetAllTags
<1>1. ASSUME NEW t \in tags
      PROVE  \E f \in ever : f[1] \in TagTypes /\ f[1] = t.type /\ f[3] = t.value
  <2>1. PICK f : f = <<t.type, t.id, t.value>>
    OBVIOUS
  <2>2. f \in ever
    BY <2>1, FactsAre
  <2>3. t.type \in TagTypes
    BY DEF WorldTypes
  <2>4. f[1] = t.type /\ f[3] = t.value
    BY <2>1
  <2>5. QED
    BY <2>2, <2>3, <2>4
<1>2. ASSUME Kind \in TagTypes, NEW x, NEW v, <<Kind, x, v>> \in always PROVE v \in GetAllTags
  <2>1. v \in TagsOf(Kind, x)
    BY <1>2, FactsOfTags
  <2>2. QED
    BY <2>1 DEF TagsOf, GetAllTags
<1>3. ASSUME asked.op \in {"clusters", "hosts_next"}, NEW v \in GetAllTags
      PROVE  \E f \in ever : MayOffer(f) /\ f[3] = v
  <2>1. PICK t \in tags : v = t.value
    BY <1>3 DEF GetAllTags
  <2>2. QED
    BY <1>1, <1>3, <2>1 DEF MayOffer
<1>4. QED
  BY <1>1, <1>2, <1>3

LEMMA OfferKeeps ==
  ASSUME Inv, Offer PROVE Inv'
<1>1. /\ pc \in {"types", "sids", "offer"} /\ Reading /\ NoFault
      /\ UNCHANGED <<Others, asked, todo, list, shown, loaded, counted, answer, always, ever>>
      /\ pc' \in {"sids", "offer", "count"}
      /\ \/ pc = "types" /\ offered' = [offered EXCEPT !.types = GetAllClusterTypes] /\ pc' = "sids"
         \/ pc = "sids" /\ offered' = [offered EXCEPT !.sids = GetAllSIDs] /\ pc' = "offer"
         \/ pc = "offer" /\ offered' = [offered EXCEPT !.tags = GetAllTags] /\ pc' = "count"
  BY DEF Offer, Reading, Step
<1>2. ReadingInv /\ WorldTypes
  BY <1>1 DEF Inv
<1>3. /\ WorldTypes' /\ RequestTypes' /\ asked.page \in Int /\ asked.size \in Int /\ rows' = rows
      /\ always \subseteq Facts /\ Facts \subseteq ever
  BY <1>1, StepTypes DEF Places
<1>4. /\ asked.op \in {"clusters", "hosts_next"} /\ Kind \in TagTypes
      /\ pc = "types" => asked.op = "clusters"
  BY <1>1, <1>2 DEF ReadingInv, Way, Kind, TagTypes
<1>5. /\ Everything' = Everything /\ Plain' = Plain /\ Kind' = Kind /\ Listed' = Listed /\ ToDo' = ToDo
      /\ \A x : HasBeenHere(x)' <=> HasBeenHere(x)
      /\ \A x : HasBeenTagged(x)' <=> HasBeenTagged(x)
      /\ \A x : HasBeenHealthy(x) => HasBeenHealthy(x)'
      /\ \A x : Wanted(x)' => Wanted(x)
      /\ \A f : MayOffer(f)' <=> MayOffer(f)
  BY <1>1, <1>2, <1>3, SameRequest, SameQuestion DEF Listed, ToDo
<1>6. Listed \subseteq IF asked.op = "clusters" THEN rows ELSE Ids(Agents)
  <2>1. list \in Seq(Everything)
    BY <1>2 DEF ReadingInv, ListTypes
  <2>2. Listed \subseteq Everything
    BY <2>1, LenProperties DEF Listed, Range
  <2>3. QED
    BY <1>2, <1>4, <2>2 DEF ReadingInv, RowsAreThere, Everything
<1>7. (pc \in Way)'
  BY <1>1, <1>4 DEF Way
<1>8. ListTypes'
  BY <1>1, <1>2, <1>5 DEF ReadingInv, ListTypes
<1>9. ListIsSound' /\ ListIsComplete'
  BY <1>1, <1>2, <1>5 DEF ReadingInv, ListIsSound, ListIsComplete
<1>10. ShownIsSound' /\ LoadedIsSound' /\ CountedIsSound'
  BY <1>1, <1>2, <1>3, SameRequest DEF ReadingInv
<1>11. AllIsRead' /\ RowsAreThere'
  BY <1>1, <1>2, <1>3, <1>4, <1>5 DEF ReadingInv, AllIsRead, RowsAreThere
<1>12. ChoicesAreSound /\ ChoicesAreComplete /\ DOMAIN offered = {"tags", "sids", "types"}
  BY <1>2 DEF ReadingInv, ChoicesAreSound
<1>13. ChoicesAreSound' /\ ChoicesAreComplete'
  <2>1. CASE pc = "types"
    <3>1. /\ pc' = "sids" /\ asked.op = "clusters" /\ DOMAIN offered' = DOMAIN offered
          /\ offered'.tags = offered.tags /\ offered'.sids = offered.sids
          /\ offered'.types = GetAllClusterTypes
      BY <1>1, <1>4, <1>12, <2>1
    <3>2. ChoicesAreSound'
      BY <1>1, <1>2, <1>3, <1>5, <1>12, <3>1, TypesRead DEF ChoicesAreSound
    <3>3. TypesAreOffered'
      BY <1>2, <1>3, <1>5, <1>6, <3>1, TypesRead DEF TypesAreOffered
    <3>4. QED
      BY <3>1, <3>2, <3>3 DEF ChoicesAreComplete
  <2>2. CASE pc = "sids"
    <3>1. /\ pc' = "offer" /\ DOMAIN offered' = DOMAIN offered
          /\ offered'.tags = offered.tags /\ offered'.types = offered.types
          /\ offered'.sids = GetAllSIDs
      BY <1>1, <1>12, <2>2
    <3>2. ChoicesAreSound'
      <4>1. \A s \in GetAllSIDs : \E f \in ever : f[1] = "sid" /\ f[2] \in Everything /\ f[3] = s
        BY <1>2, <1>3, <1>4, SIDsRead
      <4>2. ever' = ever /\ asked' = asked
        BY <1>1
      <4>3. QED
        BY <1>5, <1>12, <3>1, <4>1, <4>2 DEF ChoicesAreSound
    <3>3. SIDsAreOffered'
      BY <1>1, <1>2, <1>3, <1>4, <1>5, <1>6, <3>1, SIDsRead DEF SIDsAreOffered
    <3>4. asked.op = "clusters" => TypesAreOffered'
      BY <1>5, <1>12, <2>2, <3>1 DEF ChoicesAreComplete, TypesAreOffered
    <3>5. QED
      BY <1>1, <3>1, <3>2, <3>3, <3>4 DEF ChoicesAreComplete
  <2>3. CASE pc = "offer"
    <3>1. /\ pc' = "count" /\ DOMAIN offered' = DOMAIN offered
          /\ offered'.sids = offered.sids /\ offered'.types = offered.types
          /\ offered'.tags = GetAllTags
      BY <1>1, <1>12, <2>3
    <3>2. ChoicesAreSound'
      BY <1>1, <1>2, <1>3, <1>4, <1>5, <1>12, <3>1, TagsRead DEF ChoicesAreSound
    <3>3. TagsAreOffered'
      BY <1>1, <1>2, <1>3, <1>4, <1>5, <3>1, TagsRead DEF TagsAreOffered
    <3>4. SIDsAreOffered' /\ (asked.op = "clusters" => TypesAreOffered')
      BY <1>1, <1>5, <1>12, <2>3, <3>1 DEF ChoicesAreComplete, TypesAreOffered, SIDsAreOffered
    <3>5. QED
      BY <1>1, <3>1, <3>2, <3>3, <3>4 DEF ChoicesAreComplete
  <2>4. QED
    BY <1>1, <2>1, <2>2, <2>3
<1>14. ReadingInv'
  BY <1>1, <1>7, <1>8, <1>9, <1>10, <1>11, <1>13 DEF ReadingInv
<1>15. QED
  BY <1>1, <1>3, <1>14 DEF Inv

LEMMA CountKeeps ==
  ASSUME Inv, Count PROVE Inv'
<1>1. /\ pc = "count" /\ Reading /\ NoFault /\ pc' = "done"
      /\ UNCHANGED <<Others, asked, todo, list, shown, loaded, counted, offered, always, ever>>
      /\ answer' = [status |-> "ok", page |-> list, health |-> HealthContainer,
                    count |-> IF asked.op = "clusters" THEN GetCount ELSE Len(Agents)]
  BY DEF Count, Reading, Step
<1>2. ReadingInv /\ WorldTypes
  BY <1>1 DEF Inv
<1>3. asked.op \in {"clusters", "hosts_next"} /\ asked.page \in Int /\ asked.size \in Int
  BY <1>1, <1>2 DEF ReadingInv, Way, Inv, RequestTypes
<1>4. /\ WorldTypes' /\ RequestTypes' /\ ListIsRegular' /\ ChoicesAreRegular'
      /\ list \in Seq(Everything) /\ Listed \subseteq DOMAIN counted /\ IsFiniteSet(Listed)
      /\ Cardinality(Listed) = Len(list) /\ Len(list) \in Nat /\ spent'.faults = spent.faults
  BY <1>1, ListIsAnswered
<1>5. PageIsTheWindow'
  BY <1>1, <1>3 DEF PageIsTheWindow
<1>6. /\ answer'.count = (IF asked.op = "clusters" THEN Cardinality(rows) ELSE Len(Agents))
      /\ answer'.health = HealthContainer
  BY <1>1 DEF GetCount
<1>7. rows \subseteq Ids(Clusters) /\ IsFiniteSet(rows) /\ Cardinality(rows) \in Nat
  BY <1>2, BeforeIsFinite, FS_Subset, FS_CardinalityType DEF WorldTypes
<1>8. Len(list) <= answer'.count
  <2>1. CASE asked.op = "clusters"
    <3>1. Listed \subseteq rows
      BY <1>2, <2>1 DEF ReadingInv, RowsAreThere
    <3>2. Cardinality(Listed) <= Cardinality(rows)
      BY <1>7, <3>1, FS_Subset
    <3>3. QED
      BY <1>4, <1>6, <2>1, <3>2
  <2>2. CASE asked.op = "hosts_next"
    <3>1. IsFiniteSet(Ids(Agents)) /\ Cardinality(Ids(Agents)) = Len(Agents)
      BY AgentRows, DistinctLength
    <3>2. Listed \subseteq Ids(Agents)
      BY <1>4, <2>2, LenProperties DEF Everything, Listed, Range
    <3>3. Cardinality(Listed) <= Cardinality(Ids(Agents))
      BY <3>1, <3>2, FS_Subset
    <3>4. QED
      BY <1>4, <1>6, <2>2, <3>1, <3>3
  <2>3. QED
    BY <1>3, <2>1, <2>2
<1>9. (spent.faults = 0 => \A v \in Counters :
         LET With(facts) == {x \in Range(list) : <<"health", x, v>> \in facts}
             gone == {x \in Range(list) : <<"here", x, "">> \notin always}
         IN  answer.health[v] \in Cardinality(With(always)) .. Cardinality(With(ever) \cup gone))'
  <2>1. CountedIsSound
    BY <1>2 DEF ReadingInv
  <2>2. spent.faults = 0 => \A v \in Counters :
          HealthContainer[v] \in
            Cardinality({x \in Listed : <<"health", x, v>> \in always})
              .. Cardinality({x \in Listed : <<"health", x, v>> \in ever}
                               \cup {x \in Listed : <<"here", x, "">> \notin always})
    BY <1>4, <2>1, HealthIsCounted
  <2>3. list' = list /\ always' = always /\ ever' = ever
    BY <1>1
  <2>4. QED
    BY <1>4, <1>6, <2>2, <2>3 DEF Listed
<1>10. ASSUME Plain, asked.size > 0, asked.page > 0, asked.op = "clusters", list # <<>>
       PROVE  asked.page \in GetCurrentPages(answer'.count, asked.page, asked.size)
  <2>1. (asked.page - 1) * asked.size < Cardinality(rows)
    BY <1>2, <1>10 DEF ReadingInv, RowsAreThere
  <2> DEFINE n == Cardinality(rows)
             size == asked.size
             page == asked.page
             last == getPageCount(n, size)
  <2>2. n \in Nat /\ size \in Nat /\ size > 0 /\ page \in Int /\ page > 0
    BY <1>3, <1>7, <1>10
  <2>3. (page - 1) * size < n
    BY <2>1
  <2> HIDE DEF n, size, page
  <2>4. last \in Nat /\ n <= last * size
    BY <2>2, PageCount
  <2> HIDE DEF last
  <2>5. page <= last
    <3>1. SUFFICES ASSUME last <= page - 1 PROVE FALSE
      BY <2>2, <2>4
    <3>2. last * size <= (page - 1) * size
      BY <2>2, <2>4, <3>1, Monotone
    <3>3. last * size \in Int /\ (page - 1) * size \in Int
      BY <2>2, <2>4
    <3>4. QED
      BY <2>2, <2>3, <2>4, <3>2, <3>3
  <2>6. page \in 1 .. last /\ page >= page - 2 /\ page <= page + 2
    BY <2>2, <2>4, <2>5
  <2>7. page \in GetCurrentPages(n, page, size)
    BY <2>6 DEF GetCurrentPages, last
  <2>8. QED
    BY <1>6, <1>10, <2>7 DEF n, page, size
<1>11. FooterCoversTheList'
  <2>1. /\ asked' = asked /\ list' = list /\ Plain' = Plain
    BY <1>1 DEF Plain
  <2>2. QED
    BY <1>8, <1>9, <1>10, <2>1 DEF FooterCoversTheList
<1>12. QED
  BY <1>1, <1>4, <1>5, <1>11 DEF Inv, Reading, AnswerInv

LEMMA ApiListTagKeeps ==
  ASSUME Inv, ApiListTag PROVE Inv'
<1>1. /\ pc = "load" /\ asked.op = "tags" /\ Reading /\ NoFault /\ pc' = "done"
      /\ UNCHANGED <<Others, asked, todo, list, shown, loaded, counted, always, ever>>
      /\ offered' = [NoChoice EXCEPT !.tags =
                       {t.value : t \in {u \in tags : asked.type = {} \/ u.type \in asked.type}}]
  BY DEF ApiListTag, Reading, Step
<1>2. /\ WorldTypes /\ WorldTypes' /\ RequestTypes' /\ always \subseteq Facts /\ Facts \subseteq ever
  BY <1>1, StepTypes DEF Places, Inv
<1>3. /\ offered'.tags = {t.value : t \in {u \in tags : asked.type = {} \/ u.type \in asked.type}}
      /\ offered'.sids = {} /\ offered'.types = {}
  BY <1>1 DEF NoChoice
<1>4. ASSUME NEW v \in offered'.tags PROVE \E f \in ever : MayOffer(f)' /\ f[3] = v
  <2>1. PICK t \in tags : v = t.value /\ (asked.type = {} \/ t.type \in asked.type)
    BY <1>3, <1>4
  <2>2. PICK f \in ever : f[1] \in TagTypes /\ f[1] = t.type /\ f[3] = t.value
    BY <1>2, TagsRead
  <2>3. QED
    BY <1>1, <2>1, <2>2 DEF MayOffer
<1>5. ChoicesAreRegular'
  BY <1>1, <1>3, <1>4 DEF ChoicesAreRegular, IsList
<1>6. ListIsRegular' /\ PageIsTheWindow' /\ FooterCoversTheList'
  BY <1>1 DEF ListIsRegular, PageIsTheWindow, FooterCoversTheList, IsList
<1>7. QED
  BY <1>1, <1>2, <1>5, <1>6 DEF Inv, Reading, AnswerInv

-----------------------------------------------------------------------------
(* The theorems.                                                           *)

LEMMA Preserved == Inv /\ [Next]_vars => Inv'
<1> SUFFICES ASSUME Inv, [Next]_vars PROVE Inv'
  OBVIOUS
<1>1. CASE NodeChanges \/ ClusterComes \/ HealthChanges
  BY <1>1, ChangesKeep
<1>2. ASSUME NEW e \in Editors,
             ApiHostTag(e) \/ ApiClusterTag(e) \/ ApiSAPSystemTag(e) \/ ApiDatabaseTag(e) \/ WriteTag(e)
      PROVE  Inv'
  BY <1>2, LookUpKeeps, WriteTagKeeps
<1>3. CASE Ask \/ Fail \/ Forget
  BY <1>3, AskKeeps, FailKeeps, ForgetKeeps
<1>4. CASE LoadHosts \/ AskHealth \/ HealthAsked \/ filterHostsByTags \/ CountHealth \/ CutPage
  BY <1>4, LoadHostsKeeps, AskHealthKeeps, HealthAskedKeeps, FilterHostsKeeps, CountHealthKeeps, CutPageKeeps
<1>5. CASE LoadSystems \/ ReadTags \/ FilterSystems
  BY <1>5, LoadSystemsKeeps, ReadTagsKeeps, FilterSystemsKeeps
<1>6. CASE FindClusters \/ FindHosts \/ Preload \/ Enrich \/ filterByHealth \/ Offer \/ Count \/ ApiListTag
  BY <1>6, FindClustersKeeps, FindHostsKeeps, PreloadKeeps, EnrichKeeps, FilterByHealthKeeps, OfferKeeps,
     CountKeeps, ApiListTagKeeps
<1>7. CASE UNCHANGED vars
  <2>1. /\ nodes' = nodes /\ trees' = trees /\ rows' = rows /\ results' = results /\ beats' = beats
        /\ tags' = tags /\ edit' = edit /\ spent' = spent /\ always' = always /\ ever' = ever
        /\ UNCHANGED reader
    BY <1>7 DEF vars, World
  <2>2. WorldTypes' /\ Facts' = Facts
    BY <2>1, ReaderTypes DEF Inv, NoFault, Others, World
  <2>3. RequestTypes'
    BY <2>1, <2>2 DEF Inv, RequestTypes, Reading, reader
  <2>4. QED
    BY <2>1, <2>2, <2>3, OthersKeep
<1>8. QED
  BY <1>1, <1>2, <1>3, <1>4, <1>5, <1>6, <1>7 DEF Next

LEMMA InvHolds == Spec => []Inv
<1>1. QED
  BY Initially, Preserved, PTL DEF Spec

(* Whatever changes while a list is put together, what meets its filter    *)
(* all the time is on it and what never met it is not (hosts.go:37-98,     *)
(* services/clusters.go:41-87, services/hosts_next.go:41-81,               *)
(* sapsystems.go:158-184).                                                 *)
THEOREM ListsAreRegular == Spec => []ListIsRegular
<1>1. Inv => ListIsRegular
  BY DEF Inv, AnswerInv, ListIsRegular, Answered
<1>2. QED
  BY <1>1, InvHolds, PTL

(* The choices of a list are of what there was, and find each of its       *)
(* elements (services/hosts_next.go:90-124, services/clusters.go:96-142).  *)
THEOREM ChoicesAreRight == Spec => []ChoicesAreRegular
<1>1. Inv => ChoicesAreRegular
  BY DEF Inv, AnswerInv, ChoicesAreRegular, Answered
<1>2. QED
  BY <1>1, InvHolds, PTL

(* The page of hosts that is shown is the one the footer marks, with all   *)
(* that belongs on it, for a list of any length (web/pagination.go:25-79). *)
THEOREM PageIsCut == Spec => []PageIsTheWindow
<1>1. Inv => PageIsTheWindow
  BY DEF Inv, AnswerInv, PageIsTheWindow
<1>2. QED
  BY <1>1, InvHolds, PTL

(* The footer has a link for the page that is shown and counts no fewer    *)
(* rows than it has; its health is that of the list (clusters.go:277-351,  *)
(* hosts.go:22-35).                                                        *)
THEOREM FooterCovers == Spec => []FooterCoversTheList
<1>1. Inv => FooterCoversTheList
  BY DEF Inv, AnswerInv, FooterCoversTheList, Answered
<1>2. QED
  BY <1>1, InvHolds, PTL

-----------------------------------------------------------------------------
(* The page and the row of a cluster (ClusterDetails).                     *)

(* What SAPHanaSR sets the attributes of a node to, and the configuration. *)
DetailsInv ==
  /\ roles \in [NodeSet -> {Primary, Secondary, WarningPrimary, DownSecondary, Neither, NoRoles}]
  /\ sync \in [NodeSet -> {"PRIM", "SOK", "SFAIL", ""}]
  /\ config \in Configs

LEMMA DetailsInitially == DetailsInit => DetailsInv
BY DEF DetailsInit, DetailsInv

LEMMA DetailsPreserved == DetailsInv /\ [DetailsNext]_detailsVars => DetailsInv'
<1> SUFFICES ASSUME DetailsInv, [DetailsNext]_detailsVars PROVE DetailsInv'
  OBVIOUS
<1>1. CASE UNCHANGED detailsVars \/ Terminating
  BY <1>1 DEF detailsVars, Terminating, DetailsInv
<1>2. CASE \E i \in DOMAIN crm :
             \/ Stop(i)
             \/ \E n \in NodeSet : StartOn(i, n)
             \/ \E f \in {{"active", "failed"}, {"blocked", "failed"}} : FailOn(i, f)
  <2>1. UNCHANGED <<roles, sync, config>>
    BY <1>2 DEF Stop, StartOn, FailOn, discovery
  <2>2. QED
    BY <2>1 DEF DetailsInv
<1>3. CASE \E n \in NodeSet : \/ SetAttributes(n, Primary, "PRIM")
                              \/ SetAttributes(n, Secondary, "SOK")
                              \/ SetAttributes(n, DownSecondary, "SFAIL")
                              \/ SetAttributes(n, WarningPrimary, "PRIM")
                              \/ SetAttributes(n, Neither, "SFAIL")
                              \/ SetAttributes(n, NoRoles, "")
  <2>1. PICK n \in NodeSet,
             r \in {Primary, Secondary, WarningPrimary, DownSecondary, Neither, NoRoles},
             s \in {"PRIM", "SOK", "SFAIL", ""} : SetAttributes(n, r, s)
    BY <1>3
  <2>2. /\ roles' = [roles EXCEPT ![n] = r] /\ sync' = [sync EXCEPT ![n] = s]
        /\ UNCHANGED config
    BY <2>1 DEF SetAttributes, discovery
  <2>3. QED
    BY <2>2 DEF DetailsInv
<1>4. CASE \E t \in Tools : ToolChanges(t)
  BY <1>4 DEF ToolChanges, DetailsInv
<1>5. CASE ConfigChanges
  BY <1>5 DEF ConfigChanges, DetailsInv
<1>6. CASE \E d \in Devices : DeviceChanges(d)
  BY <1>6 DEF DeviceChanges, DetailsInv
<1>7. QED
  BY <1>1, <1>2, <1>3, <1>4, <1>5, <1>6 DEF DetailsNext

LEMMA NodesAreListed ==
  /\ Nodes \in Seq(STRING \ {""}) /\ DOMAIN Nodes = 1 .. Len(Nodes)
  /\ Nodes[1] \in NodeSet /\ \A k \in DOMAIN Nodes : Nodes[k] \in NodeSet
<1>1. Nodes \in Seq(STRING \ {""}) /\ Nodes # <<>>
  BY ClusterDetailsAssumption
<1>2. Len(Nodes) \in Nat /\ DOMAIN Nodes = 1 .. Len(Nodes)
  BY <1>1, LenProperties
<1>3. Len(Nodes) # 0
  BY <1>1, EmptySeq
<1>4. 1 \in DOMAIN Nodes
  BY <1>2, <1>3
<1>5. QED
  BY <1>1, <1>2, <1>4 DEF NodeSet, Range

(* Both take the same SID, which is never the empty one.                   *)
LEMMA SameSID == /\ rowSID = getHanaSID /\ HanaSID # ""
                 /\ sids = <<>> => getHanaSID = "" /\ \A n : ~HasAttributes(n, getHanaSID)
BY ClusterDetailsAssumption DEF rowSID, getHanaSID, HasAttributes

(* A dash in the one is nothing in the other.                              *)
LEMMA SameStatus ==
  ASSUME NEW n
  PROVE  /\ parseHANAStatus(n) = Undashed(HANAStatus(n))
         /\ parseHANAStatus(n) = "Secondary" <=> HANAStatus(n) = "Secondary"
         /\ sids = <<>> => parseHANAStatus(n) = ""
BY SameSID DEF parseHANAStatus, HANAStatus, GetHanaAttribute, Undashed

LEMMA SameHealth ==
  ASSUME DetailsInv, NEW n \in NodeSet
  PROVE  parseHANAHealthState(n) = Undashed(HANAHealthState(n))
<1>1. roles[n].health \in {"0", "1", "2", "4", ""}
  <2>1. roles[n] \in {Primary, Secondary, WarningPrimary, DownSecondary, Neither, NoRoles}
    BY DEF DetailsInv
  <2>2. /\ Primary.health = "4" /\ Secondary.health = "4" /\ WarningPrimary.health = "2"
        /\ DownSecondary.health = "1" /\ Neither.health = "0" /\ NoRoles.health = ""
    BY DEF Primary, Secondary, WarningPrimary, DownSecondary, Neither, NoRoles
  <2>3. QED
    BY <2>1, <2>2
<1>2. QED
  BY <1>1, SameSID DEF parseHANAHealthState, parseHANAAttribute, HANAHealthState, GetHanaAttribute, Undashed

LEMMA SameSecondary ==
  ASSUME DetailsInv
  PROVE  parseHANASecondarySyncState = Undashed(HANASecondarySyncState)
<1> DEFINE set == {n \in NodeSet : HANAStatus(n) = "Secondary"}
           synced == Kept(Nodes, set)
<1>1. {n \in NodeSet : parseHANAStatus(n) = "Secondary"} = set
  BY SameStatus
<1>2. synced \in Seq(STRING \ {""}) /\ Range(synced) \subseteq NodeSet
  BY NodesAreListed, KeptElements, KeptRange DEF NodeSet
<1>3. /\ parseHANASecondarySyncState = IF synced = <<>> THEN "" ELSE sync[Head(synced)]
      /\ HANASecondarySyncState = IF synced = <<>> THEN "-" ELSE sync[Head(synced)]
  BY <1>1 DEF parseHANASecondarySyncState, HANASecondarySyncState
<1> HIDE DEF synced
<1>4. synced # <<>> => Head(synced) \in NodeSet
  <2>1. SUFFICES ASSUME synced # <<>> PROVE Head(synced) \in Range(synced)
    BY <1>2
  <2>2. QED
    BY <1>2, <2>1, HeadListed
<1>5. synced # <<>> => sync[Head(synced)] \in {"PRIM", "SOK", "SFAIL", ""}
  BY <1>4 DEF DetailsInv
<1>6. QED
  BY <1>3, <1>5 DEF Undashed

LEMMA SameFencing == parseClusterFencingType = Undashed(FencingType)
BY DEF parseClusterFencingType, FencingType, Undashed

(* No device is shown that was not read in whole.                          *)
LEMMA DevicesAreWhole ==
  ASSUME DetailsInv, Discovered, IsFencingSBD, NEW i \in DOMAIN SBDDevices
  PROVE  /\ SBDDevices[i].status = "healthy"
         /\ "" \notin Range(SBDDevices[i].dump)
         /\ SBDDevices[i].list = Nodes
<1> DEFINE names == SBDDeviceEntries[1]
           read == [j \in DOMAIN names |-> LoadDeviceData(NewSBDDevice(names[j]))]
           set == {d \in Range(read) : ~d.error}
           devices == Kept(read, set)
<1>1. SBDDevices = devices
  BY DEF SBDDevices
<1>2. names \in Seq(STRING \ {""})
  <2>1. SBDDeviceEntries # <<>>
    BY DEF Discovered, NewClusterFails, NewSBDFails
  <2>2. SBDDeviceEntries \in Seq(Seq(STRING \ {""}))
    <3>1. config \in Configs /\ config # NoFile /\ SBDDeviceEntries = config
      BY <2>1 DEF DetailsInv, SBDDeviceEntries
    <3>2. config \in Seq(Seq(STRING \ {""}))
      BY <3>1, ClusterDetailsAssumption
    <3>3. QED
      BY <3>1, <3>2
  <2>3. Len(SBDDeviceEntries) \in Nat /\ Len(SBDDeviceEntries) # 0
    BY <2>1, <2>2, LenProperties, EmptySeq
  <2>4. PICK S : S = Seq(STRING \ {""})
    OBVIOUS
  <2>5. SBDDeviceEntries \in Seq(S)
    BY <2>2, <2>4
  <2>6. 1 \in 1 .. Len(SBDDeviceEntries)
    BY <2>3
  <2>7. SBDDeviceEntries[1] \in S
    BY <2>5, <2>6, ElementOfSeq
  <2>8. QED
    BY <2>4, <2>7
<1> HIDE DEF names
<1>3. read \in Seq(Range(read))
  <2>1. Len(names) \in Nat /\ DOMAIN names = 1 .. Len(names)
    BY <1>2, LenProperties
  <2>2. DOMAIN read = 1 .. Len(names)
    BY <2>1
  <2>3. /\ read = [j \in 1 .. Len(names) |-> read[j]]
        /\ \A j \in 1 .. Len(names) : read[j] \in Range(read)
    BY <2>1, <2>2 DEF Range
  <2> HIDE DEF read
  <2>4. QED
    BY <2>1, <2>3, IsASeq
<1>4. \A d \in Range(read) : \E j \in DOMAIN names : d = LoadDeviceData(NewSBDDevice(names[j]))
  BY DEF Range
<1> HIDE DEF read
<1> HIDE DEF set
<1>5. Range(devices) = Range(read) \cap set
  BY <1>3, KeptRange
<1> HIDE DEF devices
<1>6. devices[i] \in Range(devices)
  BY <1>1 DEF Range
<1>7. devices[i] \in Range(read) /\ ~devices[i].error
  BY <1>5, <1>6 DEF set
<1>8. PICK j \in DOMAIN names : devices[i] = LoadDeviceData(NewSBDDevice(names[j]))
  BY <1>4, <1>7
<1>9. PICK d : d = names[j]
  OBVIOUS
<1>10. PICK new : new = LoadDeviceData(NewSBDDevice(d))
  OBVIOUS
<1>11. /\ new.status = IF sbdDump(d).error THEN "unhealthy" ELSE "healthy"
       /\ new.dump = <<sbdDump(d).header, sbdDump(d).timeouts>>
       /\ new.list = sbdList(d).list
  BY <1>10 DEF LoadDeviceData, NewSBDDevice
<1>12. new.error <=> sbdDump(d).error \/ sbdList(d).error
  BY <1>10 DEF LoadDeviceData, NewSBDDevice
<1>13. ~sbdDump(d).error /\ ~sbdList(d).error
  BY <1>7, <1>8, <1>9, <1>10, <1>12
<1>14. answers[d]["dump"] = "whole" /\ answers[d]["list"] = "whole"
  BY <1>13 DEF sbdDump, sbdList
<1>15. sbdDump(d).header = "first" /\ sbdDump(d).timeouts = "last" /\ sbdList(d).list = Nodes
  BY <1>14 DEF sbdDump, sbdList, Printed, assignPatternResult
<1>16. new.status = "healthy" /\ new.dump = <<"first", "last">> /\ new.list = Nodes
  BY <1>11, <1>13, <1>15
<1>17. "" \notin Range(<<"first", "last">>)
  <2>1. \A q \in DOMAIN <<"first", "last">> : q = 1 \/ q = 2
    OBVIOUS
  <2>2. <<"first", "last">>[1] # "" /\ <<"first", "last">>[2] # ""
    OBVIOUS
  <2>3. QED
    BY <2>1, <2>2 DEF Range
<1>18. QED
  BY <1>1, <1>8, <1>9, <1>10, <1>16, <1>17

(* The details as they come out of the row again.                          *)
Model == DetailsToModel(ClusterRow.details)
SiteShown(n) == IF sids = <<>> THEN "" ELSE parseHANAAttribute(n, Site[n])
StatusShown(n) == IF sids = <<>> THEN "" ELSE parseHANAStatus(n)
IPsShown(n) == IF address = NoAddress THEN <<>> ELSE VirtualIPs(n)

LEMMA ModelOfDetails ==
  /\ Model.health = parseHANAHealthState(Nodes[1])
  /\ Model.mode = parseHANAAttribute(Nodes[1], "sync")
  /\ Model.secondary = parseHANASecondarySyncState
  /\ Model.fencing = parseClusterFencingType
  /\ Model.sbd = parseSBDDevices
  /\ Model.stopped = parseClusterStoppedResources
  /\ Model.nodes = [k \in DOMAIN parseClusterNodes |-> NodeToModel(parseClusterNodes[k])]
<1>1. ClusterRow.details = Details
  BY DEF ClusterRow
<1>2. /\ Details.health = parseHANAHealthState(Nodes[1])
      /\ Details.mode = parseHANAAttribute(Nodes[1], "sync")
      /\ Details.secondary = parseHANASecondarySyncState
      /\ Details.fencing = parseClusterFencingType
      /\ Details.sbd = parseSBDDevices
      /\ Details.stopped = parseClusterStoppedResources
      /\ Details.nodes = parseClusterNodes
      /\ DOMAIN Details = {"health", "mode", "secondary", "fencing", "sbd", "stopped", "nodes"}
  BY DEF Details
<1>3. QED
  BY <1>1, <1>2 DEF Model, DetailsToModel

(* A node of these is the node of the cluster in its place.                *)
LEMMA ModelOfNodes ==
  /\ Model.nodes \in Seq(Range(Model.nodes)) /\ Len(Model.nodes) = Len(Nodes)
  /\ DOMAIN Model.nodes = DOMAIN Nodes
  /\ \A k \in DOMAIN Nodes :
       /\ Model.nodes[k].name = Nodes[k]
       /\ Model.nodes[k].site = SiteShown(Nodes[k])
       /\ Model.nodes[k].resources = ResourcesOn(Nodes[k])
       /\ Model.nodes[k].virtualIPs = IPsShown(Nodes[k])
       /\ Model.nodes[k].status = StatusShown(Nodes[k])
<1>1. Len(Nodes) \in Nat /\ DOMAIN Nodes = 1 .. Len(Nodes)
  BY NodesAreListed, LenProperties
<1>2. /\ DOMAIN parseClusterNodes = DOMAIN Nodes
      /\ \A k \in DOMAIN Nodes :
           parseClusterNodes[k] = [name |-> Nodes[k], resources |-> ResourcesOn(Nodes[k]),
                                   virtualIPs |-> IPsShown(Nodes[k]),
                                   status |-> StatusShown(Nodes[k]), site |-> SiteShown(Nodes[k])]
  BY DEF parseClusterNodes, IPsShown, StatusShown, SiteShown
<1>3. Model.nodes = [k \in DOMAIN Nodes |-> NodeToModel(parseClusterNodes[k])]
  BY <1>2, ModelOfDetails
<1> DEFINE members == Model.nodes
<1>4. DOMAIN members = 1 .. Len(Nodes)
  BY <1>1, <1>3
<1>5. ASSUME NEW k \in DOMAIN Nodes
      PROVE  /\ members[k].name = Nodes[k]
             /\ members[k].site = SiteShown(Nodes[k])
             /\ members[k].resources = ResourcesOn(Nodes[k])
             /\ members[k].virtualIPs = IPsShown(Nodes[k])
             /\ members[k].status = StatusShown(Nodes[k])
  <2>1. PICK n : n = parseClusterNodes[k]
    OBVIOUS
  <2>2. members[k] = NodeToModel(n)
    BY <1>3, <2>1
  <2>3. /\ n.name = Nodes[k] /\ n.site = SiteShown(Nodes[k]) /\ n.resources = ResourcesOn(Nodes[k])
        /\ n.virtualIPs = IPsShown(Nodes[k]) /\ n.status = StatusShown(Nodes[k])
    BY <1>2, <2>1
  <2> HIDE DEF members
  <2>4. PICK model : model = NodeToModel(n)
    OBVIOUS
  <2>5. /\ model.name = n.name /\ model.site = n.site /\ model.resources = n.resources
        /\ model.virtualIPs = n.virtualIPs /\ model.status = n.status
    BY <2>4 DEF NodeToModel
  <2>6. members[k] = model
    BY <2>2, <2>4
  <2>7. QED
    BY <2>3, <2>5, <2>6
<1>6. /\ members = [k \in 1 .. Len(Nodes) |-> members[k]]
      /\ \A k \in 1 .. Len(Nodes) : members[k] \in Range(members)
  BY <1>1, <1>3, <1>4 DEF Range
<1> HIDE DEF members
<1>7. members \in Seq(Range(members))
  BY <1>1, <1>6, IsASeq
<1>8. Len(members) = Len(Nodes)
  BY <1>1, <1>4, <1>7, LenProperties
<1>9. QED
  BY <1>1, <1>4, <1>5, <1>7, <1>8 DEF members

(* A node has a site where it has attributes, and is grouped under it.     *)
LEMMA SameSites ==
  LET sites == GroupNodesBySite(Model.nodes)
  IN  Restrict(sites, DOMAIN sites \ {""}) = GroupBySite
<1> DEFINE members == Model.nodes
           sites == GroupNodesBySite(members)
           sited == {n \in NodeSet : HasAttributes(n, getHanaSID)}
           At(site) == {n \in sited : Site[n] = site}
           There(site) == {n \in Range(members) : n.site = site}
<1>1. Site \in [NodeSet -> STRING \ {""}]
  BY ClusterDetailsAssumption
<1>2. \A n \in NodeSet : SiteShown(n) = IF n \in sited THEN Site[n] ELSE ""
  BY SameSID DEF SiteShown, parseHANAAttribute
<1>3. /\ members \in Seq(Range(members)) /\ Len(members) = Len(Nodes) /\ DOMAIN members = DOMAIN Nodes
      /\ \A k \in DOMAIN Nodes : members[k].name = Nodes[k] /\ members[k].site = SiteShown(Nodes[k])
  BY ModelOfNodes
<1>4. /\ DOMAIN Nodes = 1 .. Len(Nodes) /\ Nodes \in Seq(STRING \ {""})
      /\ \A k \in DOMAIN Nodes : Nodes[k] \in NodeSet
  BY NodesAreListed
<1>5. \A n \in NodeSet : \E k \in DOMAIN Nodes : n = Nodes[k]
  BY DEF NodeSet, Range
<1>6. sites = [site \in {members[k].site : k \in DOMAIN members} |->
                Column(Kept(members, There(site)), "name")]
  BY DEF GroupNodesBySite
<1>7. GroupBySite = [site \in {Site[n] : n \in sited} |-> Kept(Nodes, At(site))]
  BY DEF GroupBySite
<1> HIDE DEF members, sites
<1>8. DOMAIN sites \ {""} = {Site[n] : n \in sited}
  <2>1. ASSUME NEW site \in DOMAIN sites, site # "" PROVE \E n \in sited : site = Site[n]
    <3>1. PICK k \in DOMAIN Nodes : site = SiteShown(Nodes[k]) /\ Nodes[k] \in NodeSet
      BY <1>3, <1>4, <1>6
    <3>2. QED
      BY <1>2, <2>1, <3>1
  <2>2. ASSUME NEW n \in sited PROVE Site[n] \in DOMAIN sites /\ Site[n] # ""
    <3>1. PICK k \in DOMAIN Nodes : n = Nodes[k]
      BY <1>5
    <3>2. members[k].site = Site[n] /\ k \in DOMAIN members
      BY <1>2, <1>3, <3>1
    <3>3. QED
      BY <1>1, <1>6, <3>2
  <2>3. QED
    BY <2>1, <2>2
<1>9. ASSUME NEW site \in {Site[n] : n \in sited}
      PROVE  sites[site] = Kept(Nodes, At(site))
  <2>1. site \in DOMAIN sites /\ site # ""
    BY <1>8
  <2>2. ASSUME NEW k \in 1 .. Len(Nodes)
        PROVE  /\ members[k]["name"] = Nodes[k]
               /\ members[k] \in There(site) <=> Nodes[k] \in At(site)
    <3>1. k \in DOMAIN Nodes /\ Nodes[k] \in NodeSet
      BY <1>4
    <3>2. members[k].name = Nodes[k] /\ members[k].site = SiteShown(Nodes[k]) /\ members[k] \in Range(members)
      BY <1>3, <3>1 DEF Range
    <3>3. members[k].site = site <=> Nodes[k] \in sited /\ Site[Nodes[k]] = site
      BY <1>2, <2>1, <3>1, <3>2
    <3>4. QED
      BY <3>2, <3>3
  <2> HIDE DEF There, At
  <2>3. PICK A, B, S, T, field : /\ A = There(site) /\ B = At(site) /\ field = "name"
                                /\ S = Range(members) /\ T = STRING \ {""}
    OBVIOUS
  <2>4. \A k \in 1 .. Len(Nodes) : members[k][field] = Nodes[k] /\ (members[k] \in A <=> Nodes[k] \in B)
    BY <2>2, <2>3
  <2>5. members \in Seq(S) /\ Nodes \in Seq(T) /\ Len(members) = Len(Nodes)
    BY <1>3, <1>4, <2>3
  <2>6. Column(Kept(members, A), field) = Kept(Nodes, B)
    BY <2>4, <2>5, KeptColumn
  <2>7. QED
    BY <1>6, <2>1, <2>3, <2>6
<1> HIDE DEF At, There
<1>10. Restrict(sites, DOMAIN sites \ {""}) = [site \in DOMAIN sites \ {""} |-> sites[site]]
  BY DEF Restrict
<1>11. [site \in {Site[n] : n \in sited} |-> sites[site]] = GroupBySite
  BY <1>7, <1>9
<1>12. QED
  BY <1>8, <1>10, <1>11 DEF sites, members

(* So, field by field, what is shown is the same.                          *)
LEMMA Agreement == DetailsInv => RowAgreesWithPage
<1> SUFFICES ASSUME DetailsInv, Discovered, IsHANA, ~PageFails
             PROVE  RowAgreesWithPage
  BY DEF RowAgreesWithPage
<1>1. /\ Page.type = detectClusterType /\ Page.sid = getHanaSID
      /\ Page.health = HANAHealthState(Nodes[1]) /\ Page.mode = HANASystemReplicationMode
      /\ Page.secondary = HANASecondarySyncState /\ Page.fencing = FencingType
      /\ Page.sbd = (IF IsFencingSBD THEN SBDDevices ELSE <<>>)
      /\ Page.stopped = stoppedResources /\ Page.nodes = NewNodes /\ Page.sites = GroupBySite
  BY DEF Page
<1>2. ClusterRow.type = Page.type /\ (ClusterRow.SIDs # <<>> => Page.sid = ClusterRow.SIDs[1])
  BY <1>1 DEF ClusterRow, getHanaSID
<1>3. Nodes[1] \in NodeSet
  BY NodesAreListed
<1>4. Model.health = Undashed(Page.health)
  BY <1>1, <1>3, ModelOfDetails, SameHealth
<1>5. Model.mode = Undashed(Page.mode)
  BY <1>1, ModelOfDetails, SameSID
     DEF parseHANAAttribute, HANASystemReplicationMode, GetHanaAttribute, Undashed
<1>6. Model.secondary = Undashed(Page.secondary) /\ Model.fencing = Undashed(Page.fencing)
  BY <1>1, ModelOfDetails, SameSecondary, SameFencing
<1>7. Model.stopped = Page.stopped
  BY <1>1, ModelOfDetails DEF parseClusterStoppedResources, stoppedResources
<1>8. Model.sbd = Column(Page.sbd, "device")
  BY <1>1, ModelOfDetails DEF parseSBDDevices
<1>9. ASSUME NEW i \in DOMAIN Page.sbd
      PROVE  /\ Page.sbd[i].status = "healthy" /\ "" \notin Range(Page.sbd[i].dump)
             /\ Page.sbd[i].list = Nodes
  <2>1. CASE IsFencingSBD
    BY <1>1, <2>1, DevicesAreWhole
  <2>2. CASE ~IsFencingSBD
    <3>1. Page.sbd = <<>>
      BY <1>1, <2>2
    <3>2. DOMAIN <<>> = {}
      OBVIOUS
    <3>3. QED
      BY <3>1, <3>2
  <2>3. QED
    BY <2>1, <2>2
<1>10. ASSUME NEW k \in DOMAIN Nodes
       PROVE  /\ Model.nodes[k].name = Page.nodes[k].name
              /\ Model.nodes[k].resources = Page.nodes[k].resources
              /\ Model.nodes[k].virtualIPs = Page.nodes[k].virtualIPs
              /\ Model.nodes[k].status = Undashed(Page.nodes[k].status)
  <2>1. Nodes[k] \in NodeSet
    BY NodesAreListed
  <2>2. /\ Page.nodes[k].name = Nodes[k] /\ Page.nodes[k].resources = ResourcesOn(Nodes[k])
        /\ Page.nodes[k].virtualIPs = VirtualIPs(Nodes[k])
        /\ Page.nodes[k].status = HANAStatus(Nodes[k])
    BY <1>1 DEF NewNodes
  <2>3. StatusShown(Nodes[k]) = Undashed(HANAStatus(Nodes[k]))
    BY SameStatus DEF StatusShown
  <2>4. IPsShown(Nodes[k]) = VirtualIPs(Nodes[k])
    <3>1. CASE address = NoAddress
      <4>1. IPsOn(Nodes[k]) = <<>>
        BY <2>1, <3>1 DEF PageFails, NewNodesFails
      <4>2. VirtualIPs(Nodes[k]) = <<>>
        BY <4>1 DEF VirtualIPs
      <4>3. QED
        BY <3>1, <4>2 DEF IPsShown
    <3>2. QED
      BY <3>1 DEF IPsShown
  <2>5. QED
    BY <2>2, <2>3, <2>4, ModelOfNodes
<1>11. LET sites == GroupNodesBySite(Model.nodes)
       IN  Restrict(sites, DOMAIN sites \ {""}) = Page.sites
  BY <1>1, SameSites
<1>12. \A f \in {"health", "mode", "secondary", "fencing"} : Model[f] = Undashed(Page[f])
  BY <1>4, <1>5, <1>6
<1>13. \A k \in DOMAIN Nodes : \A f \in {"name", "resources", "virtualIPs"} :
         Model.nodes[k][f] = Page.nodes[k][f]
  BY <1>10
<1>14. QED
  BY <1>2, <1>7, <1>8, <1>9, <1>10, <1>11, <1>12, <1>13 DEF RowAgreesWithPage, Model

(* clusters_projector.go:51-337, clusters.go:45-275: whatever a cluster    *)
(* does and whatever of it cannot be read, the row says what the page      *)
(* says, as long as both can be made, and shows no device of which a part  *)
(* is missing.                                                             *)
THEOREM RowAndPageAgree == DetailsSpec => []RowAgreesWithPage
BY DetailsInitially, DetailsPreserved, Agreement, PTL DEF DetailsSpec

=============================================================================
