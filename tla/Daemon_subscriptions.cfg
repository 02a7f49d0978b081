SPECIFICATION Spec
CONSTANTS
  b1 = b1
  b2 = b2
  r1 = r1
  r2 = r2
  s1 = s1
  s2 = s2
  None = None
  Billets = {b1}
  SubIds = {s1}
  Requests = {r1, r2}
  BilletsOf <- SharedBilletsOf
  IdOf <- CollidingIdOf
  Objects = {o1, o2}
  Serials = {k1, k2, k3}
  Loop = loop
  Workers = {w1}
  Configured = {}
  AutoPerBillet = FALSE
  CSREnabled = TRUE
  MaxFaults = 1
INVARIANTS ServesOwnToken SubscriptionKeyPaired
PROPERTY ImplementsService
SYMMETRY RequestSymmetry
