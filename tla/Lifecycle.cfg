SPECIFICATION FairSpec
CONSTANTS
  a = a
  b = b
  c = c
  s = s
  adm = adm
  Events = {a, b, c}
  Ts <- MCTs
  TTL = 1
  Capacity = 2
  Servers = {s}
  Admins = {adm}
  Start = 2
  MaxTime = 4
  MaxStarts = 3
  ChannelCapacity = 1
  InOrderSends = TRUE
  MemtableLimit = 1
  MaxRows = 4
INVARIANTS
  LifecycleInv
  CacheUnique
  RetryDetected
  NothingDropped
PROPERTIES
  SegmentsKept
  DrainedAtShutdown
CHECK_DEADLOCK FALSE
