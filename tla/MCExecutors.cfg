CONSTANTS
  j1 = j1
  j2 = j2
  o1 = o1
  o2 = o2
  Jobs = {j1, j2}
  Outputs = {o1, o2}
  MaxLosses = 2
  VoiceJobs = {v1, v2}
  Lines = 2
  VoiceLosses = 2
  ComposeJobs = {k1, k2}
  ComposeLosses = 2
SPECIFICATION MCSpec
INVARIANTS FilesMatchRows  LocalExecutorsSafe
PROPERTIES ImplementsExecution ExecutionEnds 
CHECK_DEADLOCK FALSE
