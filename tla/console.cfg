SPECIFICATION Spec
CONSTANTS
  Unrepresentable <- SmallestInteger
  Hosts <- TwoHosts
  NodeStates <- TwoNodeStates
  NodesBefore <- OneOfEach
  Agents <- TwoAgents
  Clusters <- ThreeClusters
  Systems <- ThreeSystems
  Values = {"one", "two"}
  TagsBefore <- SomeTags
  Targets <- SomeTargets
  Editors = {e1}
  Questions <- SomeQuestions
  Edits = 1
  Changes = 1
  Faults = 1
  NotANumber = NotANumber
INVARIANTS
  ListIsRegular
  ChoicesAreRegular
  PageIsTheWindow
  FooterCoversTheList
