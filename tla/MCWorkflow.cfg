CONSTANTS
  Tenants = {t1, t2}
  VoyageIDs = {v1, v2}
  InspectionIDs = {i1, i2}
  ReservationIDs = {r1, r2}
  Chambers = {c1}
  Kinds = {"document"}
  Requests = {p1, p2}
  MaxTime = 2
  MaxWindow = 2
  EntryLead = 1
  MaxPassage = 2
  Maintenance <- NoMaintenance
SPECIFICATION Spec
SYMMETRY Symmetry
INVARIANTS
  ChamberExclusive
PROPERTIES
  Serializable
CHECK_DEADLOCK FALSE
