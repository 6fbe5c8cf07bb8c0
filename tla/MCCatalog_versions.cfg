SPECIFICATION Spec
CHECK_DEADLOCK FALSE
CONSTANTS
  Targets = {t1}
  Scenarios = {s1}
  Updates = {u1, u2, u3}
  Creations = {m1}
  None = None
  MaxEdits = 1
INVARIANTS HistoryIsNumbered CurrentIsLatest RunReferences
