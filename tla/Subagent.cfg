CONSTANTS
  Jobs = {j1}
  Runs = {r1, r2}
  NoJob = NoJob
  NoRun = NoRun
  Replies <- MixedReplies
  Cap = 1
  MaxTurns = 2
  MaxCalls = 5
  MaxUses = 3
  MaxFaults = 2
SPECIFICATION FairSpec
CHECK_DEADLOCK FALSE
INVARIANTS TypeOK CallsCapped RepliesKept TranscriptCoherent
PROPERTIES RerunsAreSafe EveryJobCompletes
