SPECIFICATION Spec
CONSTANTS
  Agreement = {a1}
  Client = {p1, p2}
  Sent <- MCSent
  MaxDay = 2
  MaxHistory = 3
  MaxEdits = 1
  NoDate = NoDate
  Unborn = Unborn
  Deleted = Deleted

SYMMETRY Symmetry
INVARIANTS HistoryTellsRow
PROPERTIES EndsUnlessStale
CHECK_DEADLOCK FALSE
