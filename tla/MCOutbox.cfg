CONSTANTS
  Jobs = {j1, j2}
  Workers = {w1, w2}
  WorkerIDs <- EitherID
  Batch = 2
  MaximumAttempts = 2
  InitialBackoff = 1
  MaximumBackoff = 2
  LockTimeout = 1
  MaxDelay = 1
  MaxFaults = 1
SPECIFICATION Spec
SYMMETRY Symmetry
INVARIANTS
  AttemptsBounded
PROPERTIES
  DeliveryPromise
CHECK_DEADLOCK FALSE
