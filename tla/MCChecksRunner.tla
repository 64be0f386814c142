--------------------------- MODULE MCChecksRunner ---------------------------
(* Instances of ChecksRunner for TLC. *)
EXTENDS ChecksRunner, TLC

CONSTANTS n1, n2, c1, c2, k1, k2

(* The second cluster has a node with the name of one of the first.        *)
SharedName == (c1 :> {n1, n2}) @@ (c2 :> {n2})

(* The shared node is on Azure. *)
OneOnAzure == (n1 :> "root") @@ (n2 :> "azure")

(* A user is entered for the first cluster, none for the second. *)
OneNamed == (c1 :> {"admin"}) @@ (c2 :> {""})

(* An upgrade of the runner brings another check in the place of the first. *)
Upgrade == <<{k1}, {k2}>>
TwoGroups == (k1 :> "Corosync") @@ (k2 :> "SBD")

=============================================================================
