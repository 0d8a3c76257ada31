SPECIFICATION Spec
CONSTANTS
  Jobs = {1}
  Clients = {c1}
  Requested = {}
  FloatExponent = 10
  MaxErrors = 0
  MaxStops = 0
INVARIANTS CancelReachesExecutor
