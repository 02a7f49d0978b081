\* Requests, renewals and a deletion at once; who waits for whom in the RWMutex.
SPECIFICATION FairSpec
CONSTANTS
  Handlers = {h1}
  Writers = {w1, w2}
  MaxExchanges = 2
  None = None
INVARIANTS TypeOK EntryIsSnapshot ReadyIsFound ReadInv
PROPERTY NobodyWaitsForever
