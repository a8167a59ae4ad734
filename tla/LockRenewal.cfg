CONSTANTS
  Duration = 12
  Interval = 6
  CallTimeout = 4
  Margin = 2
  ClaimDelay = 1
SPECIFICATION TickSpec
CHECK_DEADLOCK FALSE
INVARIANT OverlapBounded
