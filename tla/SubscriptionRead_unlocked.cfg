\* A renewal during a request for the token.
SPECIFICATION Spec
CONSTANTS
  Handlers = {h1}
  Writers = {w1}
  MaxExchanges = 2
  None = None
INVARIANT TokenWhenReady
