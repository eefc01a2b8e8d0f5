SPECIFICATION Spec
CONSTANTS
  k1 = k1
  k2 = k2
  k3 = k3
  k4 = k4
  k5 = k5
  d1 = d1
  a1 = a1
  a2 = a2
  NoDrift = NoDrift
  Garbled = Garbled
  Calls <- FiveCalls
  Requests <- OnlyOversized
  Drifts = {d1}
  Attrs = {a1, a2}
  Outputs <- InOnly
  Spends = {0}
  Transport = "http"
  RatePerMinute = 2
  Minute = 2
  CacheTTL = 1
  RequestTimeout = 1
  ValidateRetryMax = 1
  MaxTime = 4
  MaxProcesses = 1
SYMMETRY AnyCall
INVARIANTS MinuteBudget RefusalIsHonest
CHECK_DEADLOCK FALSE
