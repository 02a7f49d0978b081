\* The address is taken.
SPECIFICATION Spec
CONSTANTS
  Clients = {c1, c2}
  Workers = {w1}
INVARIANT ServesWhileRunning
