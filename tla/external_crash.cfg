SPECIFICATION Spec
CONSTANTS
  e1 = e1
  e2 = e2
  N = 5
  Keys = {"send", "write"}
  Versions = {"v1"}
  Engines <- OneEngine
  GateSteps <- LongGates
  CommitSteps <- LongCommit
  RecheckSteps <- LongRecheck
  ContinueSteps <- NoSteps
  Consequential <- LongGates
  SendSteps <- LongSend
  ExternalSteps <- LongExternal
  ApprovalFor <- LongApproval
  KeyOf <- LongKeys
  GateWired = TRUE
  ExecuteFrom <- UnlessPaused
  SavesOverlap = FALSE
  Redecide = FALSE
  MonitorOn = FALSE
  Releases = FALSE
  MaxCrashes = 1
INVARIANTS ExternalStepNeverSkipped
CHECK_DEADLOCK FALSE
