CONSTANTS
  Conns = {k1, k2, k3}
  User = User
  Heartbeat = Heartbeat
  None = None
  AutoReconnect = TRUE

SPECIFICATION Spec

INVARIANT StoppedAfterDisconnect

SYMMETRY ConnSymmetry
