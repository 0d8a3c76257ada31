CONSTANTS
  a = a
  b = b
  k = k
  Characters = {a, b}
  Costumes = {k}
  CostumeOf <- MCCostumeOf
  CastsTried <- MCCasts
  Scenes = {s1, s2}
  Lines = {l1, l2}
  Editors = {e1, e2}
  MaxLines = 2
  MaxEdits = 3
  Kept = Kept
  Plain = Plain
  Sources <- MCSources
  PersonIds = {q1, q2, q3}
  SceneIds = {z1, z2, z3}
  Names = {"A"}
  Works = {"film", "take"}
  Filed <- MCFiled
  Runs = {i1, i2}
  MaxActs = 2
  None = None
  LegacyScenes = {"scene1", "scene2"}
  LegacyShots = {"shot1", "shot2"}
  ShotScene <- MCShotScene
  AtFirst = {"scene1", "shot1"}
  Pens = {c1, c2}
  MaxRequests = 4
  Pages = {p1, p2}
  UnitsOf <- MCUnits
  Silent = {"line3"}
  AdoptedAtFirst <- MCAdopted
  Contested = {"line2", "clip"}
  MaxPollFailures = 1
  MaxJobs = 2
  MaxStarts = 2
  MaxTabActs = 1
  Tabs = {t1, t2}
  QueueSize = 2
  MaxSubscribers = 1
  MaxChanges = 3
  MaxBreaks = 3
SPECIFICATION MCSpec
INVARIANTS StoryStands StoryImportSafe StructureSafe  
PROPERTIES EditsAreMild
CHECK_DEADLOCK FALSE
