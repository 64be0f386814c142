SPECIFICATION FairSpec
CONSTANTS
  Discoveries <- ThreeDiscoveries
  Projectors = {"sles_subscriptions"}
  Absent = {2}
  CloudProvider = "azure"
  Fallible = {"cluster", "metadata service"}
  MaxVersion = 2
  MaxPending = 2
  MaxFaults = 1
INVARIANTS PassingIsRecent OnTimeNeverExpires
PROPERTIES ShownGoesBackOnlyByLate EveryCopyCatchesUp
