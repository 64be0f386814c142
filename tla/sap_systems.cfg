SPECIFICATION Spec
CONSTANTS
  noid = noid
  unreadable = unreadable
  NoProfile = noprofile
  NoId = noid
  Unreadable = unreadable
  None = none
  Hosts <- TwoHosts
  Disks <- SomeDisks
  Address <- SomeAddresses
  Texts <- SameText
  Resolve <- SomeNames
  KeyNames <- Keys
  MaxChanges = 1
  MaxFailures = 1
INVARIANTS DiscoveryIsShown HostsHaveTheirSystem RowsCoverPages TreesAreReloaded
PROPERTIES PagesCatchUp
