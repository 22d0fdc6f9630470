SPECIFICATION Spec
CONSTANTS
  a = a
  b = b
  c = c
  s = s
  adm = adm
  Events = {a, b, c}
  Ts <- AheadTs
  TTL = 1
  Capacity = 3
  Servers = {s}
  Admins = {}
  Start = 2
  MaxTime = 4
  MaxStarts = 2
  ChannelCapacity = 1
  InOrderSends = TRUE
  MemtableLimit = 0
  MaxRows = 5
INVARIANTS
  RetryDetected
CHECK_DEADLOCK FALSE
