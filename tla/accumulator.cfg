CONSTANTS
  STX = 2
  LongMarkers = {129, 253}
  MaxFrame = 24
  Heartbeat <- MCHeartbeat
  Commands <- MCCommands
  Asked <- MCAsked
  Spoken <- MCSpoken
  Debris <- MCDebris
  Streams <- MCStreams
  MaxItems = 3

SPECIFICATION AnswerFairSpec

INVARIANTS
  RestIsPartial
  UnderstoodAsMeant

PROPERTIES
  ImplementsFraming
  ExtractEnds
