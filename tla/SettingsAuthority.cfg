SPECIFICATION Spec
CONSTANTS
  Clients = {a, b}
  Requests = {"set", "reset", "activate", "rollback"}
  MaxGeneration = 3
  MaxFaults = 1
  MaxPresses = 1
  Outages = TRUE
INVARIANT TypeOK
PROPERTIES CommitsInOrder RollbackSparesCommits ResetKeepsBackup ProjectionConverges
SYMMETRY ClientSymmetry
