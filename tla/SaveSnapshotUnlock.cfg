SPECIFICATION Spec
CONSTANTS
  Actors = {a1, a2}
  MaxTime = 2
  MaxWrites = 1
  MaxFaults = 0
  Retention = 1
  Keep = 1
  ClockRegresses = FALSE
  GamesAnyTime = FALSE
INVARIANTS
  OneOperationAtATime
CHECK_DEADLOCK FALSE
