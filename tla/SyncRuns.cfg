CONSTANTS
  a = a
  b = b
  Paths = {a, b}
  Poison = {3}
  Stuck = {b}
  Threshold = 2
  MaxMisses = 1
  MaxCommits = 3
  MaxFaults = 1
SPECIFICATION Spec
INVARIANTS EveryFileTracked BankedIsDone SkipsFollowBookmark
PROPERTIES Converges RowsClearWhenIndexed
