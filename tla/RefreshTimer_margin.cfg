\* A margin that covers the lifetimes; exchanges and discovery may fail.
SPECIFICATION Spec
CONSTANTS
  Billets = {b1}
  SubIds = {s1, s2}
  Loop = loop
  Workers = {w1}
  Lifetimes = {6, 7}
  Margin = 4
  Floor = 1
  Default = 2
  MaxDuration = 1
  MaxFaults = 1
  None = None
INVARIANTS TypeOK RenewedBeforeExpiry TimerInv DueInv DueIsTriedAgain
SYMMETRY Symmetry
