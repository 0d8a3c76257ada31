SPECIFICATION Spec
CONSTANTS
  a1 = a1
  a2 = a2
  s1 = s1
  s2 = s2
  c1 = c1
  c2 = c2
  None = None
  Arts = {a1, a2}
  Slots = {s1}
  Clients = {c1, c2}

CHECK_DEADLOCK FALSE
INVARIANTS RowsHaveFiles
