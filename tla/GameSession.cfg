SPECIFICATION FairSpec
CONSTANTS
  MaxLaunches = 2
  MaxFaults = 1
  Guests = {"probe", "operator"}
  ClockFails = TRUE
INVARIANTS
  TypeOK
  StoppedMeansFlushed
  ForcedKillNeverSucceeds
PROPERTIES
  OutcomeIsFinal
  RunningSessionEnds
