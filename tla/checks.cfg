SPECIFICATION FairSpec
CONSTANTS
  n1 = n1
  n2 = n2
  c1 = c1
  c2 = c2
  k1 = k1
  k2 = k2
  Clusters = {c1, c2}
  Nodes = {n1, n2}
  NodesOf <- SharedName
  Users <- OneNamed
  CloudUser <- OneOnAzure
  Shipped <- Upgrade
  Group <- TwoGroups
  Outcomes = {"passing", "critical", "failed"}
  NoRecord = NoRecord
  Unreachable = Unreachable
  NoRow = NoRow
  NoAnswer = NoAnswer
  NoForm = NoForm
  MaxPosts = 1
  MaxFaults = 1
INVARIANTS GreenMeansNoProblem ResultsAreOfTheSettings PageExplainsHealth
PROPERTIES SettingsTakeEffect
