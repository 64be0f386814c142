SPECIFICATION FairStoreSpec
CONSTANTS
  n1 = n1
  n2 = n2
  c1 = c1
  Nodes = {n1, n2}
  Clusters = {c1}
  ClusterOf <- TwoNodes
  Keys = {k1, k2}
  Readers = {r1}
  NoSession = NoSession
  DeadSession = DeadSession
  MaxVersion = 3
  MaxStoreFaults = 3
INVARIANTS WritersExclude WholeBetweenStores UndisturbedLoadIsWhole
PROPERTIES StoreCatchesUp LockIsReleased
