CONSTANTS
  Jobs = {j1, j2}
  Runs = {r1, r2}
  Keys = {}
  Lanes = {"l1", "l2"}
  Opts <- ExecutionOpts
  Events = {"cancel", "pause", "retry", "remove", "lease full"}
  MaxAttempts = 2
  MaxStalled = 2
  MaxSpawnDepth = 0
  CancelDepth = 3
  MaxClaims = 4
  MaxRoots = 2
  MaxCancels = 1
  NoJob = NoJob
  NoRun = NoRun
  NoKey = NoKey
SPECIFICATION Spec
SYMMETRY Symmetries
CHECK_DEADLOCK FALSE
INVARIANTS
  TypeOK
  ClaimsAccounted
  BudgetLeft
PROPERTIES
  KeepsLifecycle
  LostRunsChangeNothing
