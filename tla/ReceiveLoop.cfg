SPECIFICATION Spec
CONSTANTS
  c1 = c1  c2 = c2  c3 = c3  b1 = b1
  Backends = {b1}
  n1 = n1  n2 = n2  n3 = n3
  NoName = NoName
  MaxHello = 64
  Routes <- NameRoutes
  HelloOf <- ClientHellos
  SniEnd <- SniEnds
  PacketsOf <- Packets
  MainFd = 0
  Unused = Unused
  Clients = {c1, c2, c3}
  Fds = {1, 2}
  Capacity = 1
  Segments = 2
  QueueSize = 1
  MaxPending = 1
  MaxPackets = 2
  IdleTimeout = 1
  EvictScanBudget = 1
  PendingIdle = 1
  MaxTime = 1
  MaxId = 3
INVARIANTS TypeOK SendsWhatArrived NoStaleEntry StreamExact 
PROPERTIES WholeHelloForwarded
