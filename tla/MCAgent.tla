------------------------------- MODULE MCAgent -------------------------------
(* Instances of Agent for TLC. *)
EXTENDS Agent

(* Three of the five discoveries.                                          *)
ThreeDiscoveries == <<"cluster", "cloud", "subscription">>

=============================================================================
