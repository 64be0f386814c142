SPECIFICATION FairSpec
CONSTANTS
  a1 = a1
  a2 = a2
  c1 = c1
  i1 = i1
  none = none
  Agents = {a1, a2}
  Clusters = {c1}
  NoCluster = none
  SAPInstances = {i1}
  Events <- TickEvents
  Registry <- SmallRegistry
  InitialCursor <- SeededTable
  WorkersNumber = 2
  MaxRuns = 2
INVARIANT DrainIsComplete
PROPERTIES AcceptedIsProjected ShutdownEnds
CHECK_DEADLOCK FALSE
