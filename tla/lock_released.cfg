CONSTANTS
  Process = {p1, p2}
  MaxInode = 2
  MayRelease = TRUE
  MayMove = FALSE
SPECIFICATION LockSpec
SYMMETRY ProcessSymmetry
INVARIANTS SingleInstance
CHECK_DEADLOCK FALSE
