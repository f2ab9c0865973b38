CONSTANTS
  Jobs = {j1, j2}
  Workers = {w1}
  WorkerIDs <- Distinct
  Batch = 2
  MaximumAttempts = 2
  InitialBackoff = 1
  MaximumBackoff = 1
  LockTimeout = 1
  MaxDelay = 0
  MaxFaults = 2
SPECIFICATION FairSpec
PROPERTIES
  EveryJobSettles
CHECK_DEADLOCK FALSE
