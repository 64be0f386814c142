SPECIFICATION FairSpec
CONSTANTS
  a1 = a1
  a2 = a2
  c1 = c1
  i1 = i1
  i2 = i2
  none = none
  Agents = {a1, a2}
  Clusters = {c1}
  NoCluster = none
  SAPInstances = {i1, i2}
  Events <- SomeEvents
  Projectors = {"clusters", "sles_subscriptions", "sapsystems"}
  Workers = {w1, w2}
  InitialCursor <- MixedTable
INVARIANTS CellsExplained NoUpdateLost
PROPERTIES ImplementsProjection ClusterRowOrderedPerAgent EveryCallEnds CursorRegressesOnlyOnFirstContact
CHECK_DEADLOCK FALSE
