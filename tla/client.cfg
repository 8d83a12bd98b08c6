CONSTANTS
  Callers = {a, b}
  NoCaller = NoCaller
  MaxTid = 3
  Retries = 2
  MaxLate = 1

SPECIFICATION FairSpec

INVARIANTS
  TypeOK
  OwnAnswer
  FindsItsCall
  OneSimple
  NothingLeftBehind

PROPERTIES
  ForeignOnlyWhenLate
  LossEndsWaiting
  EveryCallEnds
