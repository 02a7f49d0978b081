\* Signals, failures and triggered refreshes at any moment.
SPECIFICATION Spec
CONSTANTS
  Clients = {c1, c2}
  Workers = {w1, w2}
INVARIANTS TypeOK ExitTellsWhy SourceOpenForRun
PROPERTY SignalStops
