SPECIFICATION Spec
CONSTANTS
  e1 = e1
  e2 = e2
  e3 = e3
  e4 = e4
  id1 = id1
  id2 = id2
  Events = {e1, e2, e3}
  Ids = {id1, id2}
  EventId <- MCEventId
  Bucket <- MCBucket
  Clients = {c1, c2}
  RollupWorker = rollup
  InOrderSends = TRUE
  Faults = {"save"}
  ChannelCapacity = 1
  MaxBatch = 2
  MaxWalId = 3
  MaxCopies = 2
  MaxFaults = 1
INVARIANTS
  AckedDurable
