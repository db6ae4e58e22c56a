CONSTANTS
  v1 = v1
  v2 = v2
  Versions = {v1, v2}
  NoVersion = NoVersion
  Keg = Keg
  LastBuild = 3
  Pinned <- MCPinned
SPECIFICATION Spec
INVARIANTS IInv ListIsTrue SelectedIsWhole
PROPERTIES OnlyUninstallRemoves DoneMeansGone OperationEnds
