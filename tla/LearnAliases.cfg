SPECIFICATION LearnSpec
CONSTANTS
  k1 = k1  k2 = k2  k3 = k3  k4 = k4
  Keys = {k1, k2, k3, k4}
  Backends = {b1, b2, zero}
  ZeroAddr = zero
  Owners = {0}
  Capacity = 4
  Home <- Homes
  CidLen <- Lens
  Unused = Unused
  IdleTimeout = 1
  EvictScanBudget = 4
  PressureMinCapacity = 4
  PressureLoadPercent = 75
  MaxTime = 2
INVARIANT LearnsTheSessionsBackend
