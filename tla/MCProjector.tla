----------------------------- MODULE MCProjector -----------------------------
(* Instances of Projector for TLC. *)
EXTENDS Projector, TLC

CONSTANTS a1, a2, c1, i1, i2, none

Ev(id, agent, type) ==
  [id |-> id, agent |-> agent, type |-> type,
   cluster |-> IF type = "cluster" THEN c1 ELSE none,
   instances |-> {}, valid |-> TRUE]

(* Handlers that fail, two nodes writing one cluster row, one of them      *)
(* twice, subscriptions that are replaced and SAP instances that change.   *)
SomeEvents ==
  {Ev(2, a1, "cluster"),
   [Ev(3, a1, "sapsystem") EXCEPT !.instances = {i1}],
   Ev(4, a2, "cluster"),
   Ev(5, a1, "cluster"),
   [Ev(6, a1, "subscription") EXCEPT !.valid = FALSE],
   [Ev(7, a1, "sapsystem") EXCEPT !.instances = {i1, i2}],
   Ev(8, a1, "subscription")}

(* The projector of SAP systems meets its agents for the first time; the   *)
(* others have been there, 1 standing for an id below all the events'.     *)
MixedTable == [k \in SubscriptionKeys |-> IF k[1] = "sapsystems" THEN 0 ELSE 1]

=============================================================================
