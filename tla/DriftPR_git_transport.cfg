SPECIFICATION Spec
CONSTANTS
  u1 = u1
  u2 = u2
  u3 = u3
  prod = prod
  web = web
  db = db
  log = log
  size = size
  tags = tags
  small = small
  large = large
  Null = Null
  Blank = Blank
  Gone = Gone
  NoRun = NoRun
  Runs <- ThreeRuns
  Roots = {prod}
  RootOf <- OneRoot
  Hosts <- GitTransport
  Items <- SomeItems
  Olds <- SomeOlds
  DriftSets <- SomeDrifts
  Quiet <- QuietLog
  MaxBlind = 0
INVARIANT CoveredByBranch
CHECK_DEADLOCK FALSE
