CONSTANTS
  IP = {x}
  Loop = {heartbeatLoop, diffLoop}
  MaxChange = 3
  MaxBase = 2
  MaxEdits = 3
  MayFullSync = TRUE
  DiffFails = TRUE
  SnapshotFails = TRUE
  ApplyFails = TRUE
SPECIFICATION FairSpec
INVARIANTS NothingSkipped WhitelistInSync
PROPERTIES ThreatsArrive WhitelistConverges
