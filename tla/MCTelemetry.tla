----------------------------- MODULE MCTelemetry ----------------------------
(* Instances of Telemetry for TLC. *)
EXTENDS Telemetry

ThreeIds == 1 .. 3

=============================================================================
