CONSTANTS
  c1 = c1
  c2 = c2
  c3 = c3
  p1 = p1
  p2 = p2
  Calls = {c1, c2, c3}
  Procs = {p1, p2}
  Pid <- TwoProcs
  NoCall = NoCall
  Events = {"crash", "age", "rewrite", "blind", "fail", "unfenced"}
SPECIFICATION Spec
SYMMETRY Symmetries
CONSTRAINT Exclusive
CHECK_DEADLOCK FALSE
INVARIANT FactsKept
