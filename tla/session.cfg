CONSTANTS
  Conns = {k1, k2}
  User = User
  Heartbeat = Heartbeat
  None = None
  AutoReconnect = TRUE

SPECIFICATION FairSpec

INVARIANTS
  TypeOK
  CoherentUnlessOverlap

PROPERTIES
  ImplementsLink
  Recovers
  DisconnectReturns
