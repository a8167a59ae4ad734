CONSTANTS
  Children = {c1, c2}
  Runs = {r1, r2, r3}
  NoRun = NoRun
  Events = {"stall", "die", "lose", "fail"}
SPECIFICATION Spec
SYMMETRY Symmetries
CHECK_DEADLOCK FALSE
INVARIANT ReportTrue
