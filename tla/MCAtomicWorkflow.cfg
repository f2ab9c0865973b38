CONSTANTS
  Tenants = {t1, t2}
  VoyageIDs = {v1, v2}
  InspectionIDs = {i1, i2}
  ReservationIDs = {r1, r2}
  c2 = c2
  Chambers = {c1, c2}
  Kinds = {"document"}
  MaxTime = 2
  MaxWindow = 4
  EntryLead = 1
  MaxPassage = 2
  Maintenance <- MCMaintenance
SPECIFICATION AtomicSpec
SYMMETRY Symmetry
INVARIANTS
  TypeOK
  ReleaseGated
  OneBooking
  AuditChain
  AuditMatchesTables
  OutboxMatchesTables
  MovementsMatchStatus
  HistoryReplays
  TimelineReplays
  EntryInOwnWindow
PROPERTIES
  TransitionsAllowed
CHECK_DEADLOCK FALSE
