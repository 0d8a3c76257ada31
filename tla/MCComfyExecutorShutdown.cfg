SPECIFICATION FairSpec
CONSTANTS
  j1 = j1
  j2 = j2
  o1 = o1
  o2 = o2
  Jobs = {j1, j2}
  Outputs = {o1, o2}
  MaxLosses = 0
CHECK_DEADLOCK FALSE
PROPERTIES ShutdownEnds
