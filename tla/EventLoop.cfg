SPECIFICATION Spec
CONSTANTS
  c1 = c1  c2 = c2  b1 = b1  b2 = b2
  Clients = {c1, c2}
  Backends = {b1, b2}
  Fds = {0}
  Capacity = 1
  Unused = Unused
  Unresolved = Unresolved
  Missing = Missing
  IdleTimeout = 1
  EvictScanBudget = 1
  RouteBuckets = 3
  MaxRoutes = 2
  ServerIds = {1, 2}
  Normal <- Lower
  SniHash <- SniBuckets
  BackendHash <- BackendBuckets
  Resolves <- Hosts
  Default <- Defaults
  Documents <- Docs
  FirstDocument <- Both
  NameOf <- Asks
  InPlace <- Rewritten
  EditsAtStart = FALSE
  MaxEvents = 1
  ReceiveRounds = 1
  MaxQueue = 1
  MaxTime = 1
  MaxId = 2
CHECK_DEADLOCK FALSE
INVARIANTS TypeOK ResourcesFreed RoutesExact
PROPERTIES SurvivorsKeepFlow FileApplied RepliesServed StopExits
