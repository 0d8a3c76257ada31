SPECIFICATION Spec
CONSTANTS
  Runs = {r1, r2}
  Procs = {p1, p2}
  Requests = {q1, q2}
  MaxSurvivors = 1
  None = None
INVARIANTS OneSandbox RunsWhatWasApproved RunsAccounted
PROPERTIES EndsOnce SlotFreed
