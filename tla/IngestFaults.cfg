SPECIFICATION Spec
CONSTANTS
  e1 = e1
  e2 = e2
  e3 = e3
  e4 = e4
  id1 = id1
  id2 = id2
  Events = {e1, e2}
  Ids = {e1, e2}
  EventId <- MCDistinctId
  Bucket <- MCTwoBuckets
  Clients = {c1}
  RollupWorker = rollup
  InOrderSends = FALSE
  Faults <- AllFaults
  ChannelCapacity = 1
  MaxBatch = 2
  MaxWalId = 3
  MaxCopies = 2
  MaxFaults = 2
INVARIANTS
  OneOwner
  OpenFileUnsealed
