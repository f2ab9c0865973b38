CONSTANTS
  Tenants = {t1, t2}
  VoyageIDs = {1, 2, 3}
  InspectionIDs = {1}
  ReservationIDs = {1}
  Chambers = {c1}
  Kinds = {"document", "seal"}
  MaxTime = 2
  MaxWindow = 2
  EntryLead = 0
  MaxPassage = 1
  Maintenance <- MCMaintenance
  Eta <- MCEta
  Limits = {0, 2, 4}
  Filters = {{}, {"declared"}}
  DefaultPageSize = 1
  MaximumPageSize = 3
  MaxEvents = 6
SPECIFICATION ReaderSpec
SYMMETRY Symmetry
INVARIANTS
  WalkExact
  AnswerWasTrue
  VerifiesUnlessCut
CHECK_DEADLOCK FALSE
