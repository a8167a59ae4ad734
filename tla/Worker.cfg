CONSTANTS
  Workers = {w1}
  Jobs = {j1, j2}
  Runs = {r1, r2}
  NoWorker = NoWorker
  NoJob = NoJob
  NoRun = NoRun
  Quiet = {j2}
  Concurrency = 1
  MaxUpsets = 2
SPECIFICATION FairSpec
CHECK_DEADLOCK FALSE
INVARIANT HandlersKeepTheirSlots
PROPERTIES DrainWaitsForAll InfrastructureSparesJobs EverySlotReturns ClaimsEnd
