SPECIFICATION Spec
CONSTANTS
  e1 = e1
  e2 = e2
  N = 2
  Keys = {"send", "write"}
  Versions = {"v1"}
  Engines <- TwoEngines
  GateSteps <- ShortGates
  CommitSteps <- ShortGates
  RecheckSteps <- NoSteps
  ContinueSteps <- ShortGates
  Consequential <- ShortGates
  SendSteps <- ShortSend
  ExternalSteps <- NoSteps
  ApprovalFor <- ShortApproval
  KeyOf <- ShortKeys
  GateWired = TRUE
  ExecuteFrom <- Anyone
  SavesOverlap = FALSE
  Redecide = TRUE
  MonitorOn = TRUE
  Releases = FALSE
  MaxCrashes = 0
INVARIANTS EffectNeedsApproval NothingUnrecorded OneGatePerEngine
PROPERTIES ImplementsDurableRun
SYMMETRY Swap
CHECK_DEADLOCK FALSE
