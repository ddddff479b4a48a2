SPECIFICATION FairSpec
CONSTANTS
  c1 = c1  c2 = c2  c3 = c3  b1 = b1  b2 = b2
  Clients = {c1, c2, c3}
  Backends = {b1, b2}
  Fds = {0, 1}
  Capacity = 3
  Unused = Unused
  IdleTimeout = 1
  EvictScanBudget = 2
  MaxTime = 1
  MaxId = 5
INVARIANTS TypeOK FreeStack FdsOwned OneFlowPerClient
PROPERTIES GenerationStable AcquireEvictsOne IdleFlowsExpire
