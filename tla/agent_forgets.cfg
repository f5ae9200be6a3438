SPECIFICATION Spec
CONSTANTS
  MaxTurns <- LongRun
  Worlds <- NoScenario
  AutoReject = {"escalate"}
  FreeWrites <- NoWrites
  Strangers = 0
  MaxOthers = 0
  MaxCrashes = 0
INVARIANTS TraceComplete
CHECK_DEADLOCK FALSE
