CONSTANTS
  Polls = 2
  Values = {v1, v2}
  None = None
  KeepAlives = {TRUE, FALSE}
  MaxCycles = 3
  MaxFrames = 2

SPECIFICATION Spec

SYMMETRY ValueSymmetry

CHECK_DEADLOCK FALSE

INVARIANTS
  TypeOK
  LogIsHistory
  StraysAreLogged
