SPECIFICATION Spec
CONSTANTS
  Actors = {a1}
  MaxTime = 4
  MaxWrites = 2
  MaxFaults = 1
  Retention = 2
  Keep = 1
  ClockRegresses = FALSE
  GamesAnyTime = FALSE
INVARIANTS
  TypeOK
  TreesRecoverable
  RestoreAllOrNothing
  UpdateSnapshotKept
PROPERTIES
  RetentionKeepsNewest
CHECK_DEADLOCK FALSE
