SPECIFICATION Spec
CONSTANTS
  Corpus <- MCCorpus
  Budget = 5
  MountLimit = 1
  Responses <- MCResponses
  Claims <- MCClaims
  Actionable = {"yes"}
  MaxCrashes = 2
INVARIANTS
  AuditComplete
  LifecycleOrder
  GapsPaidByCrashes
  AuditShowsCheckpoint
CHECK_DEADLOCK FALSE
