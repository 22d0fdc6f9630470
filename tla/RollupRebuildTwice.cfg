SPECIFICATION Spec
CONSTANTS
  e1 = e1
  e2 = e2
  Events = {e1, e2}
  Ts <- TwiceTs
  Bucket <- MCBucket
  Hour = 2
  SafetyLag = 1
  MaxAge = 1
  RebuildRanges <- OffHourRanges
  QueryRange <- MCQueryRange
  Start = 6
  MaxTime = 10
  MaxWalId = 5
  MaxRestarts = 2
  MaxFaults = 0
INVARIANTS
  RolledUpOnce
