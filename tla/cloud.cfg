SPECIFICATION FairSpec
CONSTANTS
  Workflows <- TwoWorkflows
  Calls <- TwoCalls
  Workers <- OneWorker
  MaxReceive = 2
  MaxResumes = 2
  MaxCrashes = 1
INVARIANTS StrandedPaidByCrashes EveryAnswerIsQueued
PROPERTIES QueueDrains
CHECK_DEADLOCK FALSE
