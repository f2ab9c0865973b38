CONSTANTS
  Users = {u1}
  Requests = {r1, r2}
  SessionIDs = {1, 2}
  TTL = 2
  AbsoluteLifetime = 3
  MaximumActive = 2
  RefreshBeforeExpiry = 1
  Retention = 2
  Batch = 1
  MaxInFlight = 1
  MaxTime = 5
SPECIFICATION Spec
INVARIANTS
  BarredStaysOut
  SessionOutlivesRequest
  LimitLeavesRoom
  RefreshBounded
PROPERTIES
  DeadSessionsReaped
CHECK_DEADLOCK FALSE
