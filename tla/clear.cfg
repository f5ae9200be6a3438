SPECIFICATION FairSpec
CONSTANTS
  P = 2
  MaxAttempts = 3
  Forced = 1
  MaxCrashes = 2
  MaxVerdicts = 3
INVARIANTS
  LapsLeaveTheirSource
PROPERTIES
  CompletesVerified
  ShipsWhatWasTested
  ShipsOnTheLastVerdict
  RunnerEnds
\* A build that is blocked, or has shipped, stops.
CHECK_DEADLOCK FALSE
