--------------------------- MODULE MCDataPipeline ---------------------------
(* Instances of DataPipeline for TLC. *)
EXTENDS DataPipeline, TLC

CONSTANTS a1, a2, c1, i1, none

Ev(id, agent, type) ==
  [id |-> id, agent |-> agent, type |-> type,
   cluster |-> IF type = "cluster" THEN c1 ELSE none,
   instances |-> IF type = "sapsystem" THEN {i1} ELSE {}, valid |-> TRUE]

(* One agent's tick and another's: three events in flight for two permits. *)
TickEvents == {Ev(2, a1, "cluster"), Ev(3, a1, "host"), Ev(4, a2, "host")}

(* The first events of an agent nobody has heard of.                       *)
FirstEvents == {Ev(1, a1, "cloud"), Ev(2, a1, "host")}

SmallRegistry == <<"clusters", "hosts">>
HostsRegistry == <<"hosts">>

(* The tables of a new installation, and tables in which every agent has   *)
(* been projected before.                                                  *)
EmptyTable  == [k \in SubscriptionKeys |-> 0]
SeededTable == [k \in SubscriptionKeys |-> 1]

=============================================================================
