SPECIFICATION FairSpec
CONSTANTS
  e1 = e1
  e2 = e2
  N = 5
  Keys = {"send", "write"}
  Versions = {"v1", "v2"}
  Engines <- OneEngine
  GateSteps <- LongGates
  CommitSteps <- LongCommit
  RecheckSteps <- LongRecheck
  ContinueSteps <- NoSteps
  Consequential <- LongGates
  SendSteps <- LongSend
  ExternalSteps <- LongExternal
  ApprovalFor <- LongApproval
  KeyOf <- LongKeys
  GateWired = TRUE
  ExecuteFrom <- UnlessPaused
  SavesOverlap = FALSE
  Redecide = FALSE
  MonitorOn = FALSE
  Releases = TRUE
  MaxCrashes = 2
INVARIANTS LoggedSendReported ExtraWritesPaidByCrashes WriteUnderApprovedDefinition NothingPassesAPendingGate RejectionTerminates ExternalStepNotSkipped
PROPERTIES EventuallyClosed
CHECK_DEADLOCK FALSE
