SPECIFICATION FairSpec
CONSTANTS
  b1 = b1
  b2 = b2
  r1 = r1
  r2 = r2
  s1 = s1
  s2 = s2
  None = None
  Billets = {b1, b2}
  SubIds = {s1}
  Requests = {r1}
  BilletsOf <- OneBilletOf
  IdOf <- OneIdOf
  Objects = {o1}
  Serials = {k1}
  Loop = loop
  Workers = {w1}
  Configured = {}
  AutoPerBillet = TRUE
  CSREnabled = FALSE
  MaxFaults = 1
PROPERTIES Converges SubscriptionBecomesReady
