CONSTANTS
  Jobs = {j1, j2, j3}
  Runs = {r1, r2}
  Keys = {"k1"}
  Lanes = {"l1", "l2"}
  Opts <- TreeOpts
  Events = {"cancel"}
  MaxAttempts = 1
  MaxStalled = 1
  MaxSpawnDepth = 2
  CancelDepth = 3
  MaxClaims = 3
  MaxRoots = 1
  MaxCancels = 1
  NoJob = NoJob
  NoRun = NoRun
  NoKey = NoKey
SPECIFICATION Spec
SYMMETRY Symmetries
CHECK_DEADLOCK FALSE
INVARIANTS
  ParentWaits
  StrandHasCause
  InboxComplete
  InboxTruthful
  FailureReachesParent
  OneLiveJobPerKey
PROPERTIES
  CancelCascades
