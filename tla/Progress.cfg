CONSTANTS
  Jobs = {j1, j2}
  Runs = {r1, r2}
  Keys = {}
  Lanes = {"l1", "l2"}
  Opts <- ExecutionOpts
  Events = {"cancel"}
  MaxAttempts = 2
  MaxStalled = 2
  MaxSpawnDepth = 1
  CancelDepth = 3
  MaxClaims = 7
  MaxRoots = 1
  MaxCancels = 1
  NoJob = NoJob
  NoRun = NoRun
  NoKey = NoKey
SPECIFICATION FairSpec
CHECK_DEADLOCK FALSE
PROPERTIES
  EveryJobEnds
