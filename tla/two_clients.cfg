SPECIFICATION Spec
CONSTANTS
  e1 = e1
  e2 = e2
  N = 2
  Keys = {}
  Versions = {"v1", "v2"}
  Engines <- TwoEngines
  GateSteps <- NoSteps
  CommitSteps <- NoSteps
  RecheckSteps <- NoSteps
  ContinueSteps <- NoSteps
  Consequential <- NoSteps
  SendSteps <- NoSteps
  ExternalSteps <- ClientExternal
  ApprovalFor <- NoFunction
  KeyOf <- NoFunction
  GateWired = TRUE
  ExecuteFrom <- Anyone
  SavesOverlap = TRUE
  Redecide = FALSE
  MonitorOn = TRUE
  Releases = TRUE
  MaxCrashes = 1
INVARIANTS OutcomeIsTheGateways
SYMMETRY Swap
CHECK_DEADLOCK FALSE
