SPECIFICATION Spec
CONSTANTS
  Groups = {g1, g2}
  Items = {i1, i2, i3}
  GroupOf <- MCGroupOf
  KindChoices <- MCKinds
  MaxLost = 1
  g1 = g1
  g2 = g2
  i1 = i1
  i2 = i2
  i3 = i3
  Jobs = {j1, j2, j3}
  Clients = {c1, c2}
  MaxActive = 2
  MaxAttempts = 2
  Tries = 2
  None = None
SYMMETRY Symmetric
INVARIANTS JobsAccounted OneLiveJob CapacityKept
CHECK_DEADLOCK FALSE
