SPECIFICATION Spec
CONSTANTS
  k1 = k1
  k2 = k2
  k3 = k3
  k4 = k4
  k5 = k5
  d1 = d1
  a1 = a1
  a2 = a2
  NoDrift = NoDrift
  Garbled = Garbled
  Calls <- TwoCalls
  Requests <- OneQuestion
  Drifts = {d1}
  Attrs = {a1, a2}
  Outputs <- InOnly
  Spends = {1}
  Transport = "stdio"
  RatePerMinute = 1
  Minute = 2
  CacheTTL = 2
  RequestTimeout = 1
  ValidateRetryMax = 0
  MaxTime = 2
  MaxProcesses = 2
SYMMETRY AnyCall
INVARIANT UnchangedDriftIsFree
CHECK_DEADLOCK FALSE
