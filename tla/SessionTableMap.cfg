SPECIFICATION FairSpec
CONSTANTS
  k1 = k1  k2 = k2  k3 = k3  k4 = k4  k5 = k5
  Unused = Unused
  IdleTimeout = 1
  Keys = {k1, k2, k3, k4}
  Backends = {b1, b2}
  Owners = {0, 1}
  Capacity = 3
  Home <- Homes3
  CidLen <- NoLens
  EvictScanBudget = 3
  PressureMinCapacity = 4
  PressureLoadPercent = 90
  MaxTime = 1
INVARIANTS ProbeIntegrity WalkComplete RetryFindsSlot
PROPERTIES CallsReturn ImplementsMap
