CONSTANTS
  Releases = {v1, v2, v3}
  Factory = v1
  None = None
  MaxBootAttempts = 3
  MaxFaults = 3
SPECIFICATION RestartedSpec
INVARIANTS TypeOK RecoverySourceRetained WipesForWholeReleaseOnly
PROPERTIES KeepsPromise UndisturbedRecovery UnconfirmedUpdateRollsBack
\* A wiped or half-unpacked card may have nothing left to boot.
CHECK_DEADLOCK FALSE
