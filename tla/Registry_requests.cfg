SPECIFICATION Spec
CONSTANTS
  Requests = {r1, r2}
  Handles = {h1, h2}
  Keys = {k1}
  Ids = {c1, c2, c3}
  Rows = {w1, w2, w3}
  None = None
  MaxAsked = 3
INVARIANTS TypeOK NoGroupLeftBehind SameNameSameGroup
PROPERTIES RequestsEnd
CHECK_DEADLOCK FALSE
