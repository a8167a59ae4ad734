CONSTANTS
  Calls = {1, 2, 3}
  Procs = {1, 2, 3}
  Pids = {1, 2, 3}
  Hosts = {"h1", "h2"}
  ProcOf <- OneCallEach
  PidOf <- OwnPids
  HostOf <- TwoHosts
  Ttl = 1
  StealGrace = 1
  TakeoverGrace = 0
  MaxAge = 1
  Purposes = {"reap"}
  Inspectors = {2}
  Signalled = {3}
  Crashing = {1, 2}
  NoRow = NoRow
SPECIFICATION FairSpec
CHECK_DEADLOCK FALSE
INVARIANTS
  TypeOK
  MutualExclusion
PROPERTIES
  AbandonedLockYields
  ReaperSparesTheLiving
