CONSTANTS
  Children = {c1, c2}
  Txs = {t1, t2, t3}
  Parent = Parent
SPECIFICATION Spec
SYMMETRY Symmetries
INVARIANTS LastEndWakes NoEarlyWake
CHECK_DEADLOCK FALSE
PROPERTY ActsAtOnce
