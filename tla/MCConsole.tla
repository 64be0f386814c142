------------------------------ MODULE MCConsole -----------------------------
(* Instances of Console for TLC. *)
EXTENDS Console

SmallestInteger == -1000   \* small enough to be no page of any list here
TwoHosts == <<"host1", "host2">>
Passing == [sids |-> {"PRD"}, health |-> "passing"]
Critical == [sids |-> {"PRD", "QAS"}, health |-> "critical"]
TwoNodeStates == {Passing, Critical}
OneOfEach == {[h \in {"host1", "host2"} |-> IF h = "host1" THEN Passing ELSE Critical]}
TwoAgents == <<[id |-> "agent1", sids |-> {"PRD"}], [id |-> "agent2", sids |-> {"QAS"}]>>
ThreeClusters ==
  <<[id |-> "c1", name |-> "hana", type |-> "scale-up", sids |-> {"PRD"}],
    [id |-> "c2", name |-> "hana", type |-> "unknown", sids |-> {}],
    [id |-> "c3", name |-> "hdb", type |-> "scale-up", sids |-> {"QAS"}]>>
ThreeSystems ==
  <<[id |-> "s1", kind |-> "sapsystems", sid |-> "HA1"], [id |-> "d1", kind |-> "databases", sid |-> "PRD"],
    [id |-> "d2", kind |-> "databases", sid |-> "QAS"]>>
SomeTags ==
  {Tag("hosts", "host1", "one"), Tag("clusters", "c1", "one"), Tag("databases", "d1", "two")}
SomeTargets == {"host1", "c1", "d1", "nothing"}

Q(op) == [op |-> op, sids |-> <<>>, name |-> {}, type |-> {}, tags |-> {}, health |-> {}, page |-> 1, size |-> 10]

(* Every filter, alone and with others, and pages of every kind.           *)
Pages(op, pages) == {[Q(op) EXCEPT !.page = p[1], !.size = p[2]] : p \in pages}
SomeQuestions ==
  Pages("hosts", {<<-1, -1>>, <<-1, 1>>, <<2, -1>>, <<2, 0>>, <<2, 1>>, <<3, 1>>, <<NotANumber, 1>>, <<1, NotANumber>>})
  \cup {[Q("hosts") EXCEPT !.sids = <<"QAS", "QAS">>]}
  \cup {[Q("hosts") EXCEPT !.sids = <<"PRD", "QAS">>, !.tags = {"one", "two"}]}
  \cup {[Q("hosts") EXCEPT !.sids = <<"QAS">>, !.health = {"critical"}]}
  \cup {[Q("hosts") EXCEPT !.tags = {"one"}, !.health = {"passing"}, !.size = 1]}
  \cup Pages("clusters", {<<-1, -1>>, <<0, 1>>, <<2, 1>>, <<2, 2>>, <<3, 1>>})
  \cup {[q EXCEPT !.tags = {"one"}] : q \in Pages("clusters", {<<1, 0>>, <<1, 1>>, <<2, 1>>})}
  \cup {[Q("clusters") EXCEPT !.name = f[1], !.type = f[2], !.sids = f[3], !.size = 1] :
          f \in {<<{}, {}, <<>>>>, <<{"hana"}, {}, <<>>>>, <<{}, {"scale-up"}, <<>>>>, <<{}, {}, <<"QAS">>>>,
                 <<{"hana"}, {"scale-up"}, <<>>>>, <<{"hana"}, {}, <<"QAS">>>>, <<{}, {"scale-up"}, <<"QAS">>>>}}
  \cup {[Q("clusters") EXCEPT !.tags = {"one", "two"}, !.name = {"hana"}, !.health = {"critical"}]}
  \cup {[Q("hosts_next") EXCEPT !.tags = t, !.sids = s] : t \in {{}, {"one"}}, s \in {<<>>, <<"PRD">>}}
  \cup {[Q("hosts_next") EXCEPT !.health = {"critical"}]}
  \cup {[Q("databases") EXCEPT !.sids = s, !.tags = t] : s \in {<<>>, <<"PRD">>}, t \in {{}, {"one", "two"}}}
  \cup {Q("sapsystems"), Q("tags"), [Q("tags") EXCEPT !.type = {"hosts"}]}

=============================================================================
