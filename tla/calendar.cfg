CONSTANTS
  DayLength = 2
  Tasks <- MCTasks
  MaxTasks = 2
  Instants <- MCInstants
  Refreshes = {r1, r2}
  NoEvent = NoEvent

SPECIFICATION Spec

SYMMETRY RefreshSymmetry

INVARIANTS
  CalTypeOK
  NextIsFirst
  EventsCover

PROPERTY CachesTheSchedule
