SPECIFICATION Spec
CONSTANTS
  a1 = a1
  a2 = a2
  c1 = c1
  i1 = i1
  none = none
  Agents = {a1}
  Clusters = {c1}
  NoCluster = none
  SAPInstances = {i1}
  Events <- FirstEvents
  Registry <- HostsRegistry
  InitialCursor <- EmptyTable
  WorkersNumber = 2
  MaxRuns = 1
PROPERTY CursorNeverRegresses
CHECK_DEADLOCK FALSE
