SPECIFICATION Spec
CONSTANTS
  Threshold = 3
  MaxFailures = 4
  MaxId = 4
INVARIANTS
  TypeOK
  FailuresLatch
PROPERTIES
  LatchKept
  BootAgreesWithShell
