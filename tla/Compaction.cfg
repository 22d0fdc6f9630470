SPECIFICATION FairSpec
CONSTANTS
  a = a
  b = b
  c = c
  Events = {a, b, c}
  Bucket <- MCBucket
  MaxSmall = 1
  Grace = 2
  Start = 1
  MaxTime = 3
  MaxFlushes = 3
  MaxRestarts = 1
  MaxFaults = 1
INVARIANTS
  GraceInv
  ContentPreserved
  ReaderComplete
PROPERTIES
  CatchesUp
