SPECIFICATION DetailsSpec
CONSTANTS
  Nodes <- TwoNodes
  Layouts <- SomeLayouts
  Topologies <- SomeTopologies
  HanaSID = "PRD"
  Site <- TwoSites
  Addresses = {"10.0.0.1", "none"}
  NoAddress = "none"
  Nowhere = "nowhere"
  Configs <- SomeConfigs
  NoFile = NoFile
  MaxFailures = 1
  MaxChanges = 3
INVARIANTS StoppedResourcesAreListed
