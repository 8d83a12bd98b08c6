CONSTANTS
  Values <- MCValues
  Commands <- MCCommands
  EventFields <- MCEventFields
  TimeFields <- MCTimeFields
  NoTime = NoTime
  None = None
  Waiting = Waiting

SPECIFICATION CoordFairSpec

PROPERTIES
  ShownAsDocumented
  NeverForgets
  CatchesUp
  GoesUnavailable
