CONSTANTS
  Openers = {p1, p2, p3}
  None = None
  Orphan = Orphan
  MaxTakes = 4
SPECIFICATION DirSpec
SYMMETRY Symmetries
CHECK_DEADLOCK FALSE
INVARIANT HoldersExclude
