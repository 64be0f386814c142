-------------------------- MODULE MCClusterDetails --------------------------
(* Instances of ClusterDetails for TLC. *)
EXTENDS ClusterDetails

TwoNodes == <<"n1", "n2">>
TwoSites == [n \in {"n1", "n2"} |-> IF n = "n1" THEN "WDF" ELSE "ROT"]

R(id, agent, part, node) == [id |-> id, agent |-> agent, part |-> part, node |-> node]

(* A HANA pair with fencing and an address, which is in a group or not,    *)
(* and a cluster without HANA.                                             *)
Hana(agent, part) ==
  <<R("sbd", "stonith:external/sbd", "resource", "n1"), R("ip", "IPaddr2", part, "n1"),
    R("hana", agent, "clone", "n1"), R("hana", agent, "clone", "n2"),
    R("topology", "SAPHanaTopology", "clone", "n1")>>

SomeLayouts ==
  {Hana("SAPHana", "resource"), Hana("SAPHanaController", "group"),
   <<R("dummy", "Dummy", "resource", "n1")>>}

(* No SID, that of the system, and those of a cost-optimised pair.         *)
SomeTopologies == {<<>>, <<"PRD">>, <<"PRD", "QAS">>}

(* No SBD_DEVICE, two devices, and a second line with one of them again. *)
SomeConfigs == {NoFile, <<>>, <<<<"vdb", "vdc">>>>, <<<<"vdb">>, <<"vdc">>>>}

=============================================================================
