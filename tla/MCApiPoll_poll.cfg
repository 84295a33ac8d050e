SPECIFICATION FairSpec
CONSTANTS
  Endpoints = 2
  Interval <- IntervalOf
  RefillTicks = 4
  BucketSize = 2
  MaxRetries = 1
  Backoff = 1
  JoinTimeout = 1
  MaxTime = 4
  MaxCtrlC = 2
CHECK_DEADLOCK FALSE
INVARIANTS
  RateBound
  OneLateRequest
  ExitCodeTellsWhy
PROPERTIES
  NoBurst
  EndsAfterStop
