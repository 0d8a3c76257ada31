SPECIFICATION MCSpec
CONSTANTS
  c1 = c1
  c2 = c2
  Jobs = {1, 2}
  Clients = {c1, c2}
  Requested = {0}
  FloatExponent = 10
  MaxErrors = 1
  MaxStops = 1
  Prompts <- MCPrompts
  Answers <- MCAnswers
  Quality = {"best"}
  Artists = {"@a"}
  Persons <- MCPersons
  Known = {"hat", "hats", "hoshino", "blue hair", "1girl", "2girls"}
  Characters = {"ai", "hoshino"}
  Alias <- MCAlias
  Brackets = {"hoshino"}
  Phrases = {"words"}
  Identity = {"blue hair"}
  Stem <- MCStem
  p1 = p1
  p2 = p2
  ch = ch
  ch2 = ch2
  co = co
  co2 = co2
  sc = sc
  sc2 = sc2
  li = li
  li2 = li2
  s1 = s1
  t1 = t1
  t2 = t2
  r1 = r1
  r2 = r2
  rv = rv
  Absent = Absent
  Requests <- MCRequestsOfJobs
  OwnerOf <- MCOwnerOf
  External = {p1}
  ShotsIn <- MCShotsIn
  CanonsOf <- MCCanonsOf
  Speakers <- MCSpeakers
  Defaults <- MCDefaults
  Recipes <- MCRecipes
SYMMETRY ClientSymmetry
INVARIANTS ActiveRowsHeld ExecutedAtMostOnce  AssistSound SubmissionSound
PROPERTIES StartOrder ImplementsLifecycle
