SPECIFICATION Spec
CONSTANTS
  None = None
  Corrupt = Corrupt
  TimeBits = 4
  QtyBits = 5
  GroupBits = 2
  Hour = 2
  BucketOf <- MCBucketOf
  Pool <- MCPool
  Filters <- MCFilters
  Wheres <- MCWheres
  Times = {0, 2, 3, 4, 6}
  MaxRows = 3
  MaxFaults = 1
INVARIANTS
  RoundTrip
  PruneExact
  DriftZero
  CheckCatches
  RebuildComplete
  ExplainNamesSources
  SqlExact
CHECK_DEADLOCK FALSE
