SPECIFICATION TelemetrySpec
CHECK_DEADLOCK FALSE
CONSTANTS
  Processes = {p1, p2}
  Ids <- ThreeIds
  Hosts = {h1}
  Starts = 4
  Faults = 1
INVARIANTS
  SecondIdentifierIsExplained
  IdentifiersAgree
PROPERTIES
  EveryHostIsReported
  StopEnds
