CONSTANTS
  Values <- MCValues
  Commands <- MCCommands
  EventFields <- MCEventFields
  TimeFields = {}
  NoTime = NoTime
  None = None
  Waiting = Waiting
  Calls = {s1, s2}
  Clients = {k1, k2}

SPECIFICATION IntegrationSpec

SYMMETRY Symmetry

INVARIANTS
  IntegrationTypeOK
  OneClient

PROPERTY StartAfterLoneStopIsFull
