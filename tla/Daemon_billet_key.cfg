SPECIFICATION Spec
CONSTANTS
  b1 = b1
  b2 = b2
  r1 = r1
  r2 = r2
  s1 = s1
  s2 = s2
  None = None
  Billets = {b1, b2}
  SubIds = {s1}
  Requests = {r1}
  BilletsOf <- OneBilletOf
  IdOf <- OneIdOf
  Objects = {o1}
  Serials = {k1, k2, k3}
  Loop = loop
  Workers = {w1}
  Configured = {}
  AutoPerBillet = TRUE
  CSREnabled = TRUE
  MaxFaults = 2
INVARIANT BilletKeyPaired
SYMMETRY Symmetry
