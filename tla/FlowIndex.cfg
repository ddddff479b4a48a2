SPECIFICATION Spec
CONSTANTS
  c1 = c1  c2 = c2  c3 = c3  c4 = c4  c5 = c5
  Clients = {c1, c2, c3, c4, c5}
  Capacity = 3
  Hash <- Hashes
  Unused = Unused
INVARIANTS TypeOK GetFindsFlow NoLeftovers
