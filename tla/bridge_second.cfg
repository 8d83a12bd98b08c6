CONSTANTS
  STX = 2
  LongMarkers = {129, 253}
  MaxFrame = 10
  Heartbeat <- MCHeartbeat
  Streams <- MCStreams
  Clients = {c1, c2}
  None = None
  RecvSize = 7
  Backlog = 1
  RxCap = 1

SPECIFICATION FairSpec

PROPERTY ReconnectAccepted
