SPECIFICATION Spec
CONSTANTS
  k1 = k1  k2 = k2  k3 = k3  k4 = k4  k5 = k5
  Unused = Unused
  IdleTimeout = 1
  Keys = {k1, k2, k3, k4, k5}
  Backends = {b1, b2}
  Owners = {0}
  Capacity = 4
  Home <- Homes4
  CidLen <- Lens4
  EvictScanBudget = 2
  PressureMinCapacity = 4
  PressureLoadPercent = 75
  MaxTime = 1
INVARIANTS TypeOK CountMatches MaskCoversLive PressureKeepsRoom
