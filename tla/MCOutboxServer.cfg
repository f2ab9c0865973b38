CONSTANTS
  Jobs = {j1}
  Workers = {w1, w2}
  WorkerIDs <- Distinct
  Batch = 2
  MaximumAttempts = 2
  InitialBackoff = 1
  MaximumBackoff = 1
  LockTimeout = 1
  MaxDelay = 0
  MaxFaults = 1
SPECIFICATION ServerSpec
PROPERTIES
  LocksReleased
CHECK_DEADLOCK FALSE
