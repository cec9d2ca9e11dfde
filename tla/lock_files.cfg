CONSTANTS
  Process = {p1, p2, p3}
  MaxInode = 3
  MayRelease = TRUE
  MayMove = TRUE
SPECIFICATION LockSpec
SYMMETRY ProcessSymmetry
INVARIANTS LockIsHeld SingleWhileFileStays PidNamesAgent
CHECK_DEADLOCK FALSE
