SPECIFICATION Spec
CONSTANTS
  x1 = x1  x2 = x2  n1 = n1  n2 = n2
  c1 = c1  c2 = c2  c3 = c3  b1 = b1  b2 = b2
  Backends = {b1, b2}
  NameOf <- Asks
  Chosen = Chosen
  Unused = Unused
  Configs <- Plain
  Conns = {x1, x2}
  Names = {n1, n2}
  Clients = {c1, c2}
  Fds = {0, 1}
  Capacity = 2
  EarlyZeroRtt = TRUE
  LateReplies = FALSE
  Paces <- Usual
  MaxRebinds = 0
  MaxTime = 1
  MaxId = 3
  IdleTimeout = 1
  EvictScanBudget = 2
SYMMETRY Symmetric
INVARIANTS NameReached
