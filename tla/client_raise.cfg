CONSTANTS
  Callers = {a, b, c}
  NoCaller = NoCaller
  MaxTid = 4
  Retries = 2
  MaxLate = 1

SPECIFICATION Spec

SYMMETRY CallerSymmetry

INVARIANT ReturnsNoneOnError
