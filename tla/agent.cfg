SPECIFICATION Spec
CONSTANTS
  MaxTurns <- ShortRuns
  Worlds <- Scenarios
  AutoReject = {"escalate"}
  FreeWrites <- SomeWrites
  Strangers = 1
  MaxOthers = 2
  MaxCrashes = 1
INVARIANTS ExecutedAsApproved FailsOnlyIfOvertaken TraceComplete
CHECK_DEADLOCK FALSE
