SPECIFICATION Spec
CONSTANTS
  e1 = e1
  e2 = e2
  Events = {e1, e2}
  Ts <- MCTs
  Bucket <- MCBucket
  Hour = 2
  SafetyLag = 1
  MaxAge = 1
  RebuildRanges <- MCRebuildRanges
  QueryRange <- MCQueryRange
  Start = 6
  MaxTime = 8
  MaxWalId = 5
  MaxRestarts = 0
  MaxFaults = 0
PROPERTIES
  UnflushedBelowWatermark
CHECK_DEADLOCK FALSE
