CONSTANTS
  c2 = c2
  Chambers = {c1, c2}
  Slots = {s1, s2}
  Maintenance <- NoonClosed
  Entries <- MCEntries
  Canonical <- Upper
  Fitting = {c1, c2}
  DayLength = 8
  OperatingFrom = 1
  OperatingTo = 8
  Buffer = 2
  MaxPassage = 2
  Days = 2
  EntryIDs = {1, 2, 3}
  QueueTimes = {1, 2, 3}
  ContainerNos = {"A1", "a1", "B2", ""}
  Items = {"coal", "salt", "blank"}
  CompleteItems = {"coal", "salt"}
SPECIFICATION AllSpec
SYMMETRY Symmetry
INVARIANTS
  NextAvailableSkips
CHECK_DEADLOCK FALSE
