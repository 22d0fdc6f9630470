SPECIFICATION Spec
CONSTANTS
  u = u
  k = k
  p = p
  c1 = c1
  k1 = k1
  k2 = k2
  Events = {u, k}
  AllPeriods = {p}
  PeriodOf <- MCPeriodOf
  Ts <- MCTs
  UsageEvents = {u}
  WideEvents = {}
  LegacyClosed = {p}
  Clients = {c1}
  Closers = {k1, k2}
  MaxRequests = 2
  MaxWatermark = 1
  MaxReopens = 2
  MaxRestarts = 1
  MaxFaults = 1
SYMMETRY MCSymmetry
INVARIANTS
  PeriodsInv
  OneEntry
  UsageFrozen
  GetComplete
  AckedCloseKept
PROPERTIES
  FrozenStays
