SPECIFICATION Spec
CONSTANTS
  MaxLaunches = 1
  MaxFaults = 0
  Guests = {}
  ClockFails = FALSE
INVARIANTS
  RunnerSettlesSession
CHECK_DEADLOCK FALSE
