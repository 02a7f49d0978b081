SPECIFICATION Spec
CONSTANTS
  Billets = {b1}
  SubIds = {s1}
  Loop = loop
  Workers = {w1}
  Lifetimes = {6, 14}
  Margin = 4
  Floor = 1
  Default = 2
  MaxDuration = 1
  MaxFaults = 0
  None = None
INVARIANT RenewedBeforeExpiry
SYMMETRY Symmetry
