CONSTANTS
  c1 = c1
  c2 = c2
  t1 = t1
  t2 = t2
  t3 = t3
  NoTransport = NoTransport
  Calls <- MCCalls
  Transports <- MCTransports
  Retries = 2

SYMMETRY Symmetry

SPECIFICATION UartSpec

INVARIANTS
  CoherentUnlessHasty

PROPERTIES
  LossTakesItsOwn
