------------------------- MODULE ChecksRunnerProofs -------------------------
(***************************************************************************)
(* What module ChecksRunner guarantees for any clusters, nodes that share  *)
(* names or not, checks, versions of the runner, users and bounds.         *)
(***************************************************************************)
EXTENDS ChecksRunner, SequenceTheorems, WellFoundedInduction, TLAPS

InLoop == {"select"} \cup Ticking
Places == Starting \cup InLoop \cup Gone

UserNames == (UNION {Users[c] : c \in Clusters}) \cup {CloudUser[n] : n \in Nodes} \cup {"root", ""}
Groups ==
  [cluster : Clusters, checks : SUBSET Checks,
   users : UNION {[NodesOf[c] -> UserNames] : c \in Clusters}]

(* What a host may come to in the playbook of a version. *)
ResultsIn(v) == [Shipped[v] -> Outcomes \cup {"skipped"}]

Posts(c) == [cluster : {c}, user : Users[c], left : SUBSET NodesOf[c], nr : Nat]

SettingsType ==
  /\ \A c \in Clusters : selected[c] \subseteq Checks
  /\ \A c \in Clusters : users[c] \in [NodesOf[c] -> Users[c] \cup {NoRow}]
  /\ DOMAIN selected = Clusters /\ DOMAIN users = Clusters
  /\ form # NoForm => form.cluster \in Clusters /\ form.offered \subseteq Checks
  /\ \A p \in posting : p.cluster \in Clusters /\ p \in Posts(p.cluster)
  /\ posts \in Nat /\ catalog \subseteq Checks

RunnerType ==
  /\ version \in Versions /\ pc \in Places
  /\ todo \subseteq Clusters /\ reading.checks \subseteq Checks
  /\ inventory \in Seq(Groups)
  /\ DOMAIN answers = Clusters

TypeOK == SettingsType /\ RunnerType

(* A group of an inventory is of the answer of its cluster, and its users  *)
(* of one attempt to load the cloud data.                                  *)
OfAnswer(g, answer) ==
  /\ answer \in Answers(g.cluster)
  /\ g.checks = answer.checks
  /\ \E cloud \in BOOLEAN :
       \A n \in NodesOf[g.cluster] : g.users[n] = UserOf(answer.users, n, cloud)

Answered(inv, ans) == \A i \in 1..Len(inv) : OfAnswer(inv[i], ans[inv[i].cluster])

(* What a playbook of a version left for each host that is in some group.  *)
Visited(inv, n) == \E i \in 1..Len(inv) : n \in NodesOf[inv[i].cluster]
Obtained(inv, res, v) ==
  \A n \in Nodes : res[n] # Unreachable =>
    /\ Visited(inv, n) /\ res[n] \in ResultsIn(v)
    /\ {k \in Shipped[v] : res[n][k] # "skipped"} = GroupOf(inv, n).checks \cap Shipped[v]

(* The inventory of a tick: one group for each cluster that is done with.  *)
TickInv ==
  /\ pc \notin Ticking => inventory = <<>>
  /\ pc = "users" => reading.cluster \in todo
  /\ Answered(inventory, answers)
  /\ \A i \in 1..Len(inventory) : inventory[i].cluster \notin todo
  /\ pc = "record" => Obtained(inventory, results, version)

RecordInv ==
  record # NoRecord =>
    /\ record.version \in Versions /\ record.inventory \in Seq(Groups)
    /\ Answered(record.inventory, record.answers)
    /\ Obtained(record.inventory, record.results, record.version)

(* The catalog is that of the runner before its first tick.                *)
CatalogInv ==
  /\ pc = "delete" => Shipped[version] \subseteq catalog
  /\ pc \in {"loop"} \cup InLoop => catalog = Shipped[version]

-----------------------------------------------------------------------------
(* What the operators return.                                              *)

(* The types of the constants. *)
LEMMA Constants ==
  /\ \A c \in Clusters : NodesOf[c] \subseteq Nodes
  /\ \A c \in Clusters : NoRow \notin Users[c] /\ NoAnswer \notin Answers(c)
  /\ \A v \in Versions : Shipped[v] \subseteq Checks
  /\ 1 \in Versions
BY ChecksRunnerAssumption DEF Checks

(* The API answers settings of the cluster it is asked for. *)
LEMMA AnswerTypes ==
  ASSUME SettingsType, NEW c \in Clusters, NEW checks \in SUBSET Checks
  PROVE  /\ JSONChecksSettings(c, checks) \in Answers(c)
         /\ JSONChecksSettings(c, checks).checks = checks
<1> DEFINE m == {n \in NodesOf[c] : users[c][n] # NoRow}
<1>1. users[c] \in [NodesOf[c] -> Users[c] \cup {NoRow}]
  BY DEF SettingsType
<1>2. GetConnectionSettingsById(c) \in [m -> Users[c]]
  BY <1>1 DEF GetConnectionSettingsById
<1>3. m \in SUBSET NodesOf[c]
  OBVIOUS
<1> HIDE DEF m
<1>4. GetConnectionSettingsById(c) \in UNION {[k -> Users[c]] : k \in SUBSET NodesOf[c]}
  BY <1>2, <1>3
<1>5. QED
  BY <1>4 DEF JSONChecksSettings, Answers

(* The inventory has a known user for each node. *)
LEMMA UserTypes ==
  ASSUME NEW c \in Clusters, NEW answer \in Answers(c), NEW n \in NodesOf[c], NEW cloud
  PROVE  UserOf(answer.users, n, cloud) \in UserNames
<1>1. PICK m \in SUBSET NodesOf[c] : answer.users \in [m -> Users[c]]
  BY DEF Answers
<1>2. "" \in UserNames /\ "root" \in UserNames
  BY DEF UserNames
<1>3. n \in Nodes
  BY Constants
<1>4. CloudUser[n] \in UserNames
  BY <1>3 DEF UserNames
<1>5. n \in m => answer.users[n] \in UserNames
  BY <1>1 DEF UserNames
<1>6. DOMAIN answer.users = m
  BY <1>1
<1>7. QED
  BY <1>2, <1>4, <1>5, <1>6 DEF UserOf

(* A set of numbers up to a bound has a greatest one. *)
LEMMA HasMax ==
  ASSUME NEW b \in Nat, NEW I \in SUBSET (1..b), I # {}
  PROVE  Max(I) \in I
<1> DEFINE T == {b - i : i \in I}
<1> \A i \in I : i \in Nat /\ i <= b
  OBVIOUS
<1>1. T \subseteq Nat /\ T # {}
  <2>1. \A i \in I : b - i \in Nat
    OBVIOUS
  <2>2. QED
    BY <2>1
<1>2. PICK x \in T : \A y \in T : ~(<<y, x>> \in OpToRel(<, Nat))
  BY <1>1, NatLessThanWellFounded, WFMin
<1>3. PICK i \in I : x = b - i
  OBVIOUS
<1>4. \A j \in I : i >= j
  <2> SUFFICES ASSUME NEW j \in I, j > i PROVE FALSE
    OBVIOUS
  <2>1. b - j \in T /\ b - j \in Nat /\ x \in Nat /\ b - j < x
    BY <1>3
  <2>2. <<b - j, x>> \in OpToRel(<, Nat)
    BY <2>1 DEF OpToRel
  <2>3. QED
    BY <1>2, <2>1, <2>2
<1>5. QED
  BY <1>4 DEF Max

(* Ansible takes the variables of a host from a group the host is in. *)
LEMMA GroupOfVisited ==
  ASSUME NEW inv \in Seq(Groups), NEW n, Visited(inv, n)
  PROVE  \E i \in 1..Len(inv) : GroupOf(inv, n) = inv[i] /\ n \in NodesOf[inv[i].cluster]
<1> DEFINE I == {i \in 1..Len(inv) : n \in NodesOf[inv[i].cluster]}
<1>1. Len(inv) \in Nat /\ I \subseteq 1..Len(inv) /\ I # {}
  BY LenProperties DEF Visited
<1>2. Max(I) \in I
  BY <1>1, HasMax
<1>3. GroupOf(inv, n) = inv[Max(I)]
  BY <1>1 DEF GroupOf, SelectLastInSeq
<1>4. QED
  BY <1>2, <1>3

-----------------------------------------------------------------------------
(* Types.                                                                  *)

(* Each step keeps the types of the settings,                              *)
LEMMA SettingsTypeKept ==
  ASSUME TypeOK, [Next]_vars
  PROVE  SettingsType'
<1> USE DEF TypeOK, SettingsType, settings, servers
<1>1. ASSUME NEW c \in Clusters, OpenForm(c) PROVE SettingsType'
  <2>1. form'.cluster = c /\ form'.offered \subseteq Checks
    BY <1>1 DEF OpenForm, GetSelectedChecksById, GetChecksCatalogByGroup, GetChecksCatalog
  <2>2. QED
    BY <1>1, <2>1 DEF OpenForm
<1>2. CASE CreateSettings
  <2>1. PICK s \in SUBSET form.offered, u \in Users[form.cluster] :
          /\ CreateSelectedChecks(form.cluster, s)
          /\ posting' = posting \cup {[cluster |-> form.cluster, user |-> u,
                                        left |-> NodesOf[form.cluster], nr |-> posts]}
    BY <1>2 DEF CreateSettings
  <2>2. form.cluster \in Clusters /\ form.offered \subseteq Checks
    BY <1>2 DEF CreateSettings
  <2>3. (\A c \in Clusters : selected'[c] \subseteq Checks) /\ DOMAIN selected' = Clusters
    BY <2>1, <2>2 DEF CreateSelectedChecks
  <2>4. \A p \in posting' : p.cluster \in Clusters /\ p \in Posts(p.cluster)
    BY <2>1, <2>2 DEF Posts
  <2>5. posts' \in Nat /\ form' = NoForm
    BY <1>2 DEF CreateSettings
  <2>6. QED
    BY <1>2, <2>3, <2>4, <2>5 DEF CreateSettings
<1>3. ASSUME NEW p \in posting, NEW n \in Nodes, CreateConnectionSettings(p, n)
      PROVE  SettingsType'
  <2>1. /\ p.cluster \in Clusters /\ p \in Posts(p.cluster)
        /\ p.user \in Users[p.cluster] /\ n \in NodesOf[p.cluster]
    BY <1>3 DEF CreateConnectionSettings, Posts
  <2>2. DOMAIN users' = Clusters
    BY <1>3 DEF CreateConnectionSettings
  <2>3. ASSUME NEW c \in Clusters PROVE users'[c] \in [NodesOf[c] -> Users[c] \cup {NoRow}]
    BY <1>3, <2>1 DEF CreateConnectionSettings
  <2>4. ASSUME NEW q \in posting' PROVE q.cluster \in Clusters /\ q \in Posts(q.cluster)
    <3>1. q \in posting \/ q = [p EXCEPT !.left = @ \ {n}]
      BY <1>3 DEF CreateConnectionSettings
    <3>2. [p EXCEPT !.left = @ \ {n}] \in Posts(p.cluster)
      BY <2>1 DEF Posts
    <3>3. \A r \in Posts(p.cluster) : r.cluster = p.cluster
      BY DEF Posts
    <3>4. QED
      BY <2>1, <3>1, <3>2, <3>3
  <2>5. QED
    BY <1>3, <2>2, <2>3, <2>4 DEF CreateConnectionSettings
<1>4. ASSUME NEW p \in posting, CreateSettingsFails(p) PROVE SettingsType'
  BY <1>4 DEF CreateSettingsFails
<1>5. CASE UpsertCatalog \/ DeleteOldChecks
  BY <1>5, Constants DEF UpsertCatalog, DeleteOldChecks, RunnerType
<1>6. CASE UNCHANGED <<settings, catalog>>
  BY <1>6
<1>7. QED
  BY <1>1, <1>2, <1>3, <1>4, <1>5, <1>6
  DEF Next, WebStep, RunnerStep, FetchError, Outage, WebIsBack, AraIsBack,
      CreateAnsibleFilesFails, LoadAraPluginsFails, Killed, GetClustersFails,
      CreateInventoryFails, PlaybookFails, Boot, Start, MetaFails, EnterLoop, Tick,
      ReadSelected, ReadUsers, GetJsonPanics, CreateInventory, IsAraServerUp, RunPlaybook,
      Record, vars

(* The group that is added for an answer. *)
LEMMA NewGroup ==
  ASSUME NEW c \in Clusters, NEW answer \in Answers(c), NEW cloud \in BOOLEAN, NEW g,
         g = [cluster |-> c, checks |-> answer.checks,
              users |-> [n \in NodesOf[c] |-> UserOf(answer.users, n, cloud)]]
  PROVE  g \in Groups /\ OfAnswer(g, answer) /\ g.cluster = c
<1>1. [n \in NodesOf[c] |-> UserOf(answer.users, n, cloud)] \in [NodesOf[c] -> UserNames]
  BY UserTypes
<1>2. answer.checks \in SUBSET Checks
  BY DEF Answers
<1>3. g \in Groups
  BY <1>1, <1>2 DEF Groups
<1>4. QED
  BY <1>3 DEF OfAnswer

(* A cluster's group is added to the inventory, of what is answered for it.*)
LEMMA AddsGroup ==
  ASSUME TypeOK, TickInv, ReadUsers
  PROVE  \E c \in todo, g \in Groups :
           /\ inventory' = Append(inventory, g) /\ g.cluster = c
           /\ OfAnswer(g, answers'[c])
           /\ todo' = todo \ {c}
           /\ \A d \in Clusters \ {c} : answers'[d] = answers[d]
<1> DEFINE c == reading.cluster
           answer == JSONChecksSettings(c, reading.checks)
           G(cloud) == [cluster |-> c, checks |-> answer.checks,
                        users |-> [n \in NodesOf[c] |-> UserOf(answer.users, n, cloud)]]
<1>1. c \in todo /\ c \in Clusters
  BY DEF ReadUsers, TickInv, TypeOK, RunnerType
<1>2. answer \in Answers(c)
  BY <1>1, AnswerTypes DEF TypeOK, RunnerType
<1>3. PICK cloud \in BOOLEAN : inventory' = Append(inventory, G(cloud))
  BY DEF ReadUsers
<1>4. answers' = [answers EXCEPT ![c] = answer] /\ todo' = todo \ {c}
  BY DEF ReadUsers
<1> HIDE DEF answer
<1>5. G(cloud) \in Groups /\ OfAnswer(G(cloud), answer) /\ G(cloud).cluster = c
  BY <1>1, <1>2, NewGroup
<1> HIDE DEF G, c
<1>6. answers'[c] = answer /\ \A d \in Clusters \ {c} : answers'[d] = answers[d]
  BY <1>1, <1>4 DEF TypeOK, RunnerType
<1>7. QED
  BY <1>1, <1>3, <1>4, <1>5, <1>6

(* An inventory that is not written to its end. *)
LEMMA CutInventory ==
  ASSUME NEW inv \in Seq(Groups), NEW m \in 0..Len(inv) - 1
  PROVE  /\ SubSeq(inv, 1, m) \in Seq(Groups)
         /\ Len(SubSeq(inv, 1, m)) = m
         /\ \A i \in 1..m : i \in 1..Len(inv) /\ SubSeq(inv, 1, m)[i] = inv[i]
<1>1. Len(inv) \in Nat /\ m \in Int /\ m < Len(inv) /\ 0 <= m /\ m - 1 + 1 = m
  BY LenProperties
<1>2. \A i \in 1..m : i \in 1..Len(inv) /\ inv[i] \in Groups /\ 1 + i - 1 = i
  BY <1>1, ElementOfSeq
<1>3. /\ SubSeq(inv, 1, m) \in Seq(Groups)
      /\ Len(SubSeq(inv, 1, m)) = IF 1 <= m THEN m - 1 + 1 ELSE 0
      /\ \A i \in 1..(m - 1 + 1) : SubSeq(inv, 1, m)[i] = inv[1 + i - 1]
  BY <1>1, <1>2, SubSeqProperties, 1 \in Int
<1>4. QED
  BY <1>1, <1>2, <1>3

(* and those of the runner and of the record.                              *)
LEMMA RunnerTypeKept ==
  ASSUME TypeOK, TickInv, [Next]_vars
  PROVE  RunnerType'
<1> USE DEF TypeOK, RunnerType, tick, servers
<1>1. UNCHANGED tick \/ ReadUsers \/ UNCHANGED inventory
      \/ CreateInventoryFails \/ inventory' = <<>>
  BY DEF Next, WebStep, RunnerStep, OpenForm, CreateSettings, CreateConnectionSettings,
         CreateSettingsFails, FetchError, Outage, WebIsBack, AraIsBack,
         CreateAnsibleFilesFails, LoadAraPluginsFails, Killed, GetClustersFails,
         PlaybookFails, Boot, Start, UpsertCatalog, DeleteOldChecks, MetaFails, EnterLoop,
         Tick, ReadSelected, GetJsonPanics, CreateInventory, IsAraServerUp, RunPlaybook,
         Record, Leave, vars
<1>2. inventory' \in Seq(Groups)
  <2>1. CASE ReadUsers
    BY <2>1, AddsGroup, AppendProperties
  <2>2. CASE CreateInventoryFails
    BY <2>2, CutInventory, EmptySeq DEF CreateInventoryFails, Leave
  <2>3. QED
    BY <1>1, <2>1, <2>2, EmptySeq
<1>3. version' \in Versions
  BY DEF Next, WebStep, RunnerStep, OpenForm, CreateSettings, CreateConnectionSettings,
         CreateSettingsFails, FetchError, Outage, WebIsBack, AraIsBack,
         CreateAnsibleFilesFails, LoadAraPluginsFails, Killed, GetClustersFails,
         CreateInventoryFails, PlaybookFails, Boot, Start, UpsertCatalog, DeleteOldChecks,
         MetaFails, EnterLoop, Tick, ReadSelected, ReadUsers, GetJsonPanics,
         CreateInventory, IsAraServerUp, RunPlaybook, Record, vars
<1>4. pc' \in Places
  BY DEF Next, WebStep, RunnerStep, OpenForm, CreateSettings, CreateConnectionSettings,
         CreateSettingsFails, FetchError, Outage, WebIsBack, AraIsBack,
         CreateAnsibleFilesFails, LoadAraPluginsFails, Killed, GetClustersFails,
         CreateInventoryFails, PlaybookFails, Boot, Start, UpsertCatalog, DeleteOldChecks,
         MetaFails, EnterLoop, Tick, ReadSelected, ReadUsers, GetJsonPanics,
         CreateInventory, IsAraServerUp, RunPlaybook, Record, vars, GoTo, Leave,
         Places, Starting, InLoop, Ticking, Gone
<1>5. todo' \subseteq Clusters /\ DOMAIN answers' = Clusters
  BY DEF Next, WebStep, RunnerStep, OpenForm, CreateSettings, CreateConnectionSettings,
         CreateSettingsFails, FetchError, Outage, WebIsBack, AraIsBack,
         CreateAnsibleFilesFails, LoadAraPluginsFails, Killed, GetClustersFails,
         CreateInventoryFails, PlaybookFails, Boot, Start, UpsertCatalog, DeleteOldChecks,
         MetaFails, EnterLoop, Tick, ReadSelected, ReadUsers, GetJsonPanics,
         CreateInventory, IsAraServerUp, RunPlaybook, Record, vars, Leave, NoAnswers
<1>6. reading'.checks \subseteq Checks
  <2>1. CASE UNCHANGED reading \/ reading' = NoReading
    BY <2>1 DEF NoReading
  <2>2. ASSUME NEW c \in Clusters, ReadSelected(c) PROVE reading'.checks \subseteq Checks
    BY <2>2 DEF ReadSelected, GetSelectedChecksById, SettingsType
  <2>3. QED
    BY <2>1, <2>2
    DEF Next, WebStep, RunnerStep, OpenForm, CreateSettings, CreateConnectionSettings,
        CreateSettingsFails, FetchError, Outage, WebIsBack, AraIsBack,
        CreateAnsibleFilesFails, LoadAraPluginsFails, Killed, GetClustersFails,
        CreateInventoryFails, PlaybookFails, Boot, Start, UpsertCatalog, DeleteOldChecks,
        MetaFails, EnterLoop, Tick, ReadUsers, GetJsonPanics, CreateInventory,
        IsAraServerUp, RunPlaybook, Record, vars, Leave
<1>7. QED
  BY <1>2, <1>3, <1>4, <1>5, <1>6

-----------------------------------------------------------------------------
(* A tick.                                                                 *)

(* The inventory file is written up to some group. *)
Cut ==
  /\ pc = "selected" /\ pc' = "ara"
  /\ \E m \in 0..Len(inventory) - 1 : inventory' = SubSeq(inventory, 1, m)
  /\ UNCHANGED <<version, todo, answers, results>>

(* What a step may do to the place of the runner and to its tick.          *)
LEMMA TickSteps ==
  ASSUME [Next]_vars
  PROVE  \/ UNCHANGED <<pc, version, tick>>
         \/ pc \notin Ticking /\ pc' \notin Ticking /\ UNCHANGED tick
         \/ \E l \in {"select"} \cup Gone : Leave(l)
         \/ Tick \/ (\E c \in Clusters : ReadSelected(c)) \/ ReadUsers
         \/ \E c \in Clusters : FetchError(c)
         \/ pc' \in {"ara", "playbook"} /\ UNCHANGED <<version, tick>>
         \/ Cut \/ RunPlaybook
<1> USE DEF tick, GoTo, Gone
<1>1. CASE CreateInventoryFails
  BY <1>1 DEF CreateInventoryFails, Cut
<1>2. CASE Boot \/ Start \/ CreateAnsibleFilesFails \/ LoadAraPluginsFails \/ UpsertCatalog
           \/ DeleteOldChecks \/ MetaFails \/ EnterLoop
  BY <1>2 DEF Boot, Start, CreateAnsibleFilesFails, LoadAraPluginsFails, UpsertCatalog,
              DeleteOldChecks, MetaFails, EnterLoop, Ticking
<1>3. CASE Killed \/ GetClustersFails \/ PlaybookFails \/ GetJsonPanics \/ Record
  BY <1>3 DEF Killed, GetClustersFails, PlaybookFails, GetJsonPanics, Record
<1>4. CASE CreateInventory \/ IsAraServerUp
  BY <1>4 DEF CreateInventory, IsAraServerUp
<1>5. QED
  BY <1>1, <1>2, <1>3, <1>4
  DEF Next, WebStep, RunnerStep, OpenForm, CreateSettings, CreateConnectionSettings,
      CreateSettingsFails, Outage, WebIsBack, AraIsBack, vars

(* No step parts the inventory of a tick from the answers it is made of,   *)
(* or the results from the inventory.                                      *)
LEMMA TickKept ==
  ASSUME TypeOK, TickInv, [Next]_vars
  PROVE  TickInv'
<1>1. inventory \in Seq(Groups) /\ Len(inventory) \in Nat
      /\ \A i \in 1..Len(inventory) : inventory[i].cluster \in Clusters
  <2>1. \A i \in 1..Len(inventory) : inventory[i] \in Groups
    BY ElementOfSeq DEF TypeOK, RunnerType
  <2>2. QED
    BY <2>1, LenProperties DEF TypeOK, RunnerType, Groups
<1>2. CASE UNCHANGED <<pc, version, tick>>
  BY <1>2 DEF TickInv, tick
<1>3. CASE inventory' = <<>> /\ pc' \notin {"users", "record"}
  <2>1. Len(inventory') = 0
    BY <1>3, EmptySeq
  <2>2. QED
    BY <1>3, <2>1 DEF TickInv, Answered
<1>4. CASE pc \notin Ticking /\ pc' \notin Ticking /\ UNCHANGED tick
  BY <1>3, <1>4 DEF TickInv, tick, Ticking
<1>5. ASSUME NEW l \in {"select"} \cup Gone, Leave(l) PROVE TickInv'
  BY <1>3, <1>5 DEF Leave, Gone
<1>6. CASE Tick
  BY <1>3, <1>6 DEF Tick, TickInv, GoTo, Ticking
<1>7. ASSUME NEW c \in Clusters, ReadSelected(c) PROVE TickInv'
  BY <1>7 DEF ReadSelected, TickInv, GoTo, Ticking
<1>8. CASE ReadUsers
  <2>1. PICK c \in todo, g \in Groups :
          /\ inventory' = Append(inventory, g) /\ g.cluster = c
          /\ OfAnswer(g, answers'[c])
          /\ todo' = todo \ {c}
          /\ \A d \in Clusters \ {c} : answers'[d] = answers[d]
    BY <1>8, AddsGroup
  <2>2. /\ Len(inventory') = Len(inventory) + 1
        /\ \A i \in 1..Len(inventory) : inventory'[i] = inventory[i]
        /\ inventory'[Len(inventory) + 1] = g
    BY <1>1, <2>1, AppendProperties
  <2>3. ASSUME NEW i \in 1..Len(inventory')
        PROVE  /\ OfAnswer(inventory'[i], answers'[inventory'[i].cluster])
               /\ inventory'[i].cluster \notin todo'
    <3>1. CASE i = Len(inventory) + 1
      BY <2>1, <2>2, <3>1
    <3>2. CASE i \in 1..Len(inventory)
      <4>1. inventory'[i] = inventory[i] /\ inventory[i].cluster \in Clusters \ todo
        BY <1>1, <2>2, <3>2 DEF TickInv
      <4>2. answers'[inventory[i].cluster] = answers[inventory[i].cluster]
        BY <2>1, <4>1
      <4>3. QED
        BY <2>1, <3>2, <4>1, <4>2 DEF TickInv, Answered
    <3>3. QED
      BY <1>1, <2>2, <3>1, <3>2
  <2>4. pc' = "selected"
    BY <1>8 DEF ReadUsers, GoTo
  <2>5. QED
    BY <2>3, <2>4 DEF TickInv, Answered, Ticking
<1>9. ASSUME NEW c \in Clusters, FetchError(c) PROVE TickInv'
  BY <1>9 DEF FetchError, TickInv, GoTo, Ticking
<1>10. CASE pc' \in {"ara", "playbook"} /\ UNCHANGED <<version, tick>>
  BY <1>10 DEF TickInv, tick, Ticking
<1>11. CASE Cut
  <2>1. PICK m \in 0..Len(inventory) - 1 : inventory' = SubSeq(inventory, 1, m)
    BY <1>11 DEF Cut
  <2>2. /\ Len(inventory') = m
        /\ \A i \in 1..m : i \in 1..Len(inventory) /\ inventory'[i] = inventory[i]
    BY <1>1, <2>1, CutInventory
  <2>3. pc' = "ara" /\ answers' = answers /\ todo' = todo
    BY <1>11 DEF Cut
  <2>4. QED
    BY <2>2, <2>3 DEF TickInv, Answered, Ticking
<1>12. CASE RunPlaybook
  <2>1. Obtained(inventory, results', version)
    <3> SUFFICES ASSUME NEW n \in Nodes, results'[n] # Unreachable
                 PROVE  /\ Visited(inventory, n) /\ results'[n] \in ResultsIn(version)
                        /\ {k \in Shipped[version] : results'[n][k] # "skipped"}
                             = GroupOf(inventory, n).checks \cap Shipped[version]
      BY DEF Obtained
    <3>1. n \in UNION {NodesOf[c] : c \in GroupsOf(inventory)} /\ results'[n] \in RunOn(n)
      BY <1>12 DEF RunPlaybook
    <3>2. Visited(inventory, n)
      BY <1>1, <3>1, LenProperties DEF GroupsOf, Visited
    <3>3. PICK o \in [Shipped[version] -> Outcomes] :
            results'[n] = [k \in Shipped[version] |->
                             IF k \in GroupOf(inventory, n).checks THEN o[k] ELSE "skipped"]
      BY <3>1 DEF RunOn
    <3>4. \A k \in Shipped[version] : o[k] # "skipped"
      BY ChecksRunnerAssumption
    <3> HIDE DEF GroupOf
    <3>5. QED
      BY <3>2, <3>3, <3>4 DEF ResultsIn
  <2>2. pc' = "record" /\ UNCHANGED <<version, todo, inventory, answers>>
    BY <1>12 DEF RunPlaybook, GoTo
  <2>3. QED
    BY <2>1, <2>2 DEF TickInv, Ticking
<1>13. QED
  BY <1>2, <1>4, <1>5, <1>6, <1>7, <1>8, <1>9, <1>10, <1>11, <1>12, TickSteps

(* A record is of an inventory, the answers it was made of, and a playbook *)
(* that was run with it.                                                   *)
LEMMA RecordKept ==
  ASSUME TypeOK, TickInv, RecordInv, [Next]_vars
  PROVE  RecordInv'
<1>1. CASE UNCHANGED record
  BY <1>1 DEF RecordInv
<1>2. CASE Record
  <2>1. CASE record' = NewRecord
    <3>1. /\ record'.version = version /\ record'.inventory = inventory
          /\ record'.answers = answers /\ record'.results = results
      BY <2>1 DEF NewRecord
    <3>2. pc = "record"
      BY <1>2 DEF Record
    <3>3. QED
      BY <3>1, <3>2 DEF RecordInv, TickInv, TypeOK, RunnerType
  <2>2. QED
    BY <1>1, <1>2, <2>1 DEF Record
<1>3. QED
  BY <1>1, <1>2
  DEF Next, WebStep, RunnerStep, OpenForm, CreateSettings, CreateConnectionSettings,
      CreateSettingsFails, FetchError, Outage, WebIsBack, AraIsBack,
      CreateAnsibleFilesFails, LoadAraPluginsFails, Killed, GetClustersFails,
      CreateInventoryFails, PlaybookFails, Boot, Start, UpsertCatalog, DeleteOldChecks,
      MetaFails, EnterLoop, Tick, ReadSelected, ReadUsers, GetJsonPanics, CreateInventory,
      IsAraServerUp, RunPlaybook, vars, servers

(* The three parts of the invariant hold together.                         *)
LEMMA TickInvariant == Spec => [](TypeOK /\ TickInv /\ RecordInv)
<1>1. Init => TypeOK /\ TickInv /\ RecordInv
  <2> SUFFICES ASSUME Init PROVE TypeOK /\ TickInv /\ RecordInv
    OBVIOUS
  <2>1. SettingsType
    BY DEF Init, SettingsType
  <2>2. RunnerType
    BY EmptySeq, Constants DEF Init, RunnerType, Places, Gone, NoReading, NoAnswers
  <2>3. TickInv /\ RecordInv
    BY EmptySeq DEF Init, TickInv, RecordInv, Ticking, Answered
  <2>4. QED
    BY <2>1, <2>2, <2>3 DEF TypeOK
<1>2. TypeOK /\ TickInv /\ RecordInv /\ [Next]_vars => (TypeOK /\ TickInv /\ RecordInv)'
  BY SettingsTypeKept, RunnerTypeKept, TickKept, RecordKept DEF TypeOK
<1>3. QED
  BY <1>1, <1>2, PTL DEF Spec

-----------------------------------------------------------------------------
(* What the records are of.                                                *)

(* On each host of a record are the results of the checks that were        *)
(* selected for one of its clusters, as the user named for it              *)
(* (inventory.go:102-160).                                                 *)
THEOREM ResultsOfTheSettings == Spec => []ResultsAreOfTheSettings
<1>1. RecordInv => ResultsAreOfTheSettings
  <2> SUFFICES ASSUME RecordInv, NEW c \in InGroups(record), NEW n \in NodesOf[c],
                      record.results[n] # Unreachable
               PROVE  \E d \in InGroups(record) :
                        /\ n \in NodesOf[d] /\ record.answers[d] # NoAnswer
                        /\ {k \in DOMAIN record.results[n] : record.results[n][k] # "skipped"}
                             = record.answers[d].checks \cap Shipped[record.version]
                        /\ \E cloud \in BOOLEAN :
                             GroupOf(record.inventory, n).users[n]
                               = UserOf(record.answers[d].users, n, cloud)
    BY DEF ResultsAreOfTheSettings
  <2> DEFINE inv == record.inventory
             g == GroupOf(inv, n)
  <2>1. /\ record # NoRecord /\ record.version \in Versions /\ inv \in Seq(Groups)
        /\ Answered(inv, record.answers)
        /\ Obtained(inv, record.results, record.version)
    BY DEF RecordInv, InGroups
  <2>2. /\ Len(inv) \in Nat /\ DOMAIN inv = 1..Len(inv)
        /\ \A i \in 1..Len(inv) : inv[i].cluster \in Clusters
    <3>1. \A i \in 1..Len(inv) : inv[i] \in Groups
      BY <2>1, ElementOfSeq
    <3>2. QED
      BY <2>1, <3>1, LenProperties DEF Groups
  <2>3. c \in Clusters /\ n \in Nodes
    <3>1. c \in Clusters
      BY <2>1, <2>2 DEF InGroups, GroupsOf
    <3>2. QED
      BY <3>1, Constants
  <2>4. /\ Visited(inv, n) /\ record.results[n] \in ResultsIn(record.version)
        /\ {k \in Shipped[record.version] : record.results[n][k] # "skipped"}
             = g.checks \cap Shipped[record.version]
    BY <2>1, <2>3 DEF Obtained
  <2> HIDE DEF g, inv
  <2>5. PICK i \in 1..Len(inv) : g = inv[i] /\ n \in NodesOf[inv[i].cluster]
    BY <2>1, <2>4, GroupOfVisited DEF g
  <2>6. g.cluster \in Clusters /\ g.cluster \in InGroups(record)
    BY <2>1, <2>2, <2>5 DEF InGroups, GroupsOf, inv
  <2>7. OfAnswer(g, record.answers[g.cluster])
    BY <2>1, <2>5 DEF Answered
  <2>8. record.answers[g.cluster] # NoAnswer
    BY <2>6, <2>7, Constants DEF OfAnswer
  <2>9. {k \in DOMAIN record.results[n] : record.results[n][k] # "skipped"}
          = record.answers[g.cluster].checks \cap Shipped[record.version]
    BY <2>4, <2>7 DEF OfAnswer, ResultsIn
  <2>10. \E cloud \in BOOLEAN : g.users[n] = UserOf(record.answers[g.cluster].users, n, cloud)
    BY <2>5, <2>7 DEF OfAnswer
  <2>11. QED
    BY <2>5, <2>6, <2>8, <2>9, <2>10 DEF g, inv
<1>2. QED
  BY <1>1, TickInvariant, PTL

(* A result in a record is of a check that some version of the runner has. *)
LEMMA RecordedChecks ==
  ASSUME RecordInv, record # NoRecord, NEW n \in Nodes, record.results[n] # Unreachable
  PROVE  DOMAIN record.results[n] = Shipped[record.version]
         /\ Shipped[record.version] \subseteq Checks
BY Constants DEF RecordInv, Obtained, ResultsIn

(* A cluster shown as passing has a check that passed and no problem on a  *)
(* host that was reached (checks.go:162 and 214-256, trento.py:157-169).   *)
THEOREM GreenIsNoProblem == Spec => []GreenMeansNoProblem
<1>1. RecordInv => GreenMeansNoProblem
  <2> SUFFICES ASSUME RecordInv, NEW c \in Clusters, ClusterHealth(c) = "passing"
               PROVE  LET found == UNION {ResultsOn(record, c, k) : k \in Checks}
                      IN  "passing" \in found
                          /\ found \cap {"warning", "critical", "failed"} = {}
    BY DEF GreenMeansNoProblem
  <2> DEFINE found == UNION {ResultsOn(record, c, k) : k \in Checks}
             On(n) == {record.results[n][k] : k \in DOMAIN record.results[n]}
  <2>1. ASSUME NEW rs, Worst(rs) = "passing"
        PROVE  "passing" \in rs /\ "warning" \notin rs /\ "critical" \notin rs
    BY <2>1 DEF Worst
  <2>2. /\ \E n \in NodesOf[c] : HostHealth(c, n) = "passing"
        /\ \A n \in NodesOf[c] : HostHealth(c, n) \notin {"warning", "critical"}
    BY <2>1 DEF ClusterHealth
  <2>3. Found(c) /\ record # NoRecord /\ c \in Decoded(record)
    <3>1. Found(c)
      BY <2>2 DEF HostHealth
    <3>2. ara
      BY <3>1 DEF Found, NewestRecord, Decoded, InGroups
    <3>3. QED
      BY <3>1, <3>2 DEF Found, NewestRecord, Decoded, InGroups
  <2>4. \A n \in NodesOf[c] : n \in Nodes
    BY Constants
  <2>5. "passing" \in found
    <3>1. PICK n \in NodesOf[c] : HostHealth(c, n) = "passing"
      BY <2>2
    <3>2. record.results[n] # Unreachable /\ "passing" \in On(n)
      BY <2>1, <3>1 DEF HostHealth
    <3>3. PICK k \in DOMAIN record.results[n] : record.results[n][k] = "passing"
      BY <3>2
    <3>4. k \in Checks
      BY <2>3, <2>4, <3>2, RecordedChecks
    <3>5. QED
      BY <3>2, <3>3, <3>4 DEF ResultsOn
  <2>6. "failed" \notin found
    BY <2>3 DEF Decoded
  <2>7. ASSUME NEW r \in {"warning", "critical"}, r \in found PROVE FALSE
    <3>1. PICK n \in NodesOf[c] : record.results[n] # Unreachable /\ r \in On(n)
      BY <2>7 DEF ResultsOn
    <3>2. HostHealth(c, n) \in {"warning", "critical"}
      BY <2>3, <3>1, <2>7 DEF HostHealth, Worst
    <3>3. QED
      BY <2>2, <3>2
  <2>8. QED
    BY <2>5, <2>6, <2>7
<1>2. QED
  BY <1>1, TickInvariant, PTL

-----------------------------------------------------------------------------
(* The catalog.                                                            *)

(* The catalog has the checks of the runner in its loop.                   *)
LEMMA CatalogKept ==
  ASSUME TypeOK, CatalogInv, [Next]_vars
  PROVE  CatalogInv'
<1> USE DEF CatalogInv, InLoop, Ticking, Gone, GoTo, servers, Leave
<1>1. CASE UNCHANGED <<catalog, pc, version>>
  BY <1>1
<1>2. CASE Boot \/ Start \/ CreateAnsibleFilesFails \/ LoadAraPluginsFails \/ MetaFails
  BY <1>2 DEF Boot, Start, CreateAnsibleFilesFails, LoadAraPluginsFails, MetaFails
<1>3. CASE UpsertCatalog
  BY <1>3 DEF UpsertCatalog
<1>4. CASE DeleteOldChecks
  BY <1>4 DEF DeleteOldChecks
<1>5. CASE EnterLoop \/ Tick \/ CreateInventory \/ IsAraServerUp \/ RunPlaybook
  BY <1>5 DEF EnterLoop, Tick, CreateInventory, IsAraServerUp, RunPlaybook
<1>6. CASE ReadUsers \/ \E c \in Clusters : ReadSelected(c) \/ FetchError(c)
  BY <1>6 DEF ReadSelected, ReadUsers, FetchError
<1>7. CASE Killed \/ GetClustersFails \/ PlaybookFails \/ GetJsonPanics
  BY <1>7 DEF Killed, GetClustersFails, PlaybookFails, GetJsonPanics
<1>8. CASE CreateInventoryFails
  BY <1>8 DEF CreateInventoryFails
<1>9. CASE Record
  BY <1>9 DEF Record
<1>10. QED
  BY <1>1, <1>2, <1>3, <1>4, <1>5, <1>6, <1>7, <1>8, <1>9
  DEF Next, WebStep, RunnerStep, OpenForm, CreateSettings, CreateConnectionSettings,
      CreateSettingsFails, Outage, WebIsBack, AraIsBack, vars

(* In the loop of a runner every check that counts in a record of its      *)
(* version is on the page (runner.go:88-90, checks.go:129-138, 181-212).   *)
THEOREM PageHasEveryCheck == Spec => []PageExplainsHealth
<1>1. Init => CatalogInv
  BY DEF Init, CatalogInv, InLoop, Ticking
<1>2. TypeOK /\ CatalogInv /\ [Next]_vars => CatalogInv'
  BY CatalogKept
<1>3. RecordInv /\ CatalogInv => PageExplainsHealth
  <2> SUFFICES ASSUME RecordInv, CatalogInv, pc \in InLoop,
                      NEW c \in Clusters, Found(c), record.version = version
               PROVE  ResultsPage(c).checks = {k \in Checks : ResultsOn(record, c, k) # {}}
    BY DEF PageExplainsHealth, InLoop
  <2>1. catalog = Shipped[version]
    BY DEF CatalogInv
  <2>2. record # NoRecord
    BY DEF Found, NewestRecord, Decoded, InGroups
  <2>3. Shipped[version] \subseteq Checks
    BY <2>2, Constants DEF RecordInv
  <2>4. ASSUME NEW k, ResultsOn(record, c, k) # {} PROVE k \in Shipped[version]
    <3>1. PICK n \in NodesOf[c] : record.results[n] # Unreachable /\ k \in DOMAIN record.results[n]
      BY <2>4 DEF ResultsOn
    <3>2. n \in Nodes
      BY Constants
    <3>3. QED
      BY <2>2, <3>1, <3>2, RecordedChecks
  <2>5. ResultsPage(c).checks = {k \in catalog : ResultsOn(record, c, k) # {}}
    BY DEF ResultsPage, ChecksOnPage, GetChecksCatalog
  <2>6. QED
    BY <2>1, <2>3, <2>4, <2>5
<1>4. QED
  BY <1>1, <1>2, <1>3, TickInvariant, PTL DEF Spec

=============================================================================
