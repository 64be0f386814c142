--------------------------- MODULE MCClustersStore ---------------------------
(* Instances of ClustersStore for TLC. *)
EXTENDS ClustersStore

CONSTANTS n1, n2, c1

(* A cluster of two nodes. *)
TwoNodes == [n \in {n1, n2} |-> c1]

=============================================================================
