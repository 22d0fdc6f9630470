SPECIFICATION FairSpec
CONSTANTS
  a = a
  b = b
  c = c
  s = s
  adm = adm
  Events = {a}
  Ts <- MCTs
  TTL = 1
  Capacity = 2
  Servers = {s}
  Admins = {}
  Start = 2
  MaxTime = 2
  MaxStarts = 1
  ChannelCapacity = 1
  InOrderSends = TRUE
  MemtableLimit = 1
  MaxRows = 1
PROPERTIES
  ShutdownTerminates
CHECK_DEADLOCK FALSE
