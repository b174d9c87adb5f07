\* One failing write and no power loss.
CONSTANTS
  Releases = {v1, v2}
  Factory = v1
  None = None
  MaxBootAttempts = 3
  MaxFaults = 1
SPECIFICATION Spec
INVARIANTS RunningReleaseTracked
CHECK_DEADLOCK FALSE
