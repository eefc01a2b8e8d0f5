SPECIFICATION FairSpec
CONSTANTS
  k1 = k1
  k2 = k2
  k3 = k3
  k4 = k4
  k5 = k5
  d1 = d1
  a1 = a1
  a2 = a2
  NoDrift = NoDrift
  Garbled = Garbled
  Calls <- TwoCalls
  Requests <- AllKinds
  Drifts = {d1}
  Attrs = {a1, a2}
  Outputs <- InOrOut
  Spends = {0, 1}
  Transport = "http"
  RatePerMinute = 1
  Minute = 1
  CacheTTL = 1
  RequestTimeout = 1
  ValidateRetryMax = 1
  MaxTime = 2
  MaxProcesses = 2
INVARIANTS TypeOK CountersAddUp AnswersAreAllowed AnswersAreFresh PaidOnce
CHECK_DEADLOCK FALSE
PROPERTY EveryCallReturns
