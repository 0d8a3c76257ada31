SPECIFICATION StorySpec
CONSTANTS
  a = a
  Characters = {a}
  Costumes = {}
  CostumeOf <- MCCostumeOf
  CastsTried <- MCCasts
  Scenes = {s1, s2}
  Lines = {}
  Editors = {e1, e2}
  MaxLines = 0
  MaxEdits = 4
  Kept = Kept
  Plain = Plain
INVARIANTS ReorderTakesEffect
CHECK_DEADLOCK FALSE
