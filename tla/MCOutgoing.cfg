CONSTANTS
  Size = 4
  Workers = {w1, w2, w3}
  CanSend <- AllButLast
  Calls = {s1, s2}
  Declared = {v1}
  Decisions = {"accepted", "rejected"}
  Policies <- MCPolicies
  DefaultAttempts = 2
  DefaultBackoff = 1
  DefaultMaximum = 2
  Width = 3
SPECIFICATION AllSpec
INVARIANTS
  ReportTrue
  SliceNeedsNoLock
  ResultMeans
  PausesBounded
PROPERTIES
  CallReturns
  StopsSending
  SubmissionReturns
CHECK_DEADLOCK FALSE
