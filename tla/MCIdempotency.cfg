CONSTANTS
  Calls = {p1, p2, p3, p4}
  Keys = {k1}
  Commands = {d1, d2}
  Voyages = {v1}
  VoyageOf <- OneVoyage
  RecordTTL = 3
  StaleAfter = 1
  MaxTime = 4
SPECIFICATION Spec
SYMMETRY Symmetry
INVARIANTS
  OneOwner
  AnswersTrue
PROPERTIES
  RecordGuarded
CHECK_DEADLOCK FALSE
