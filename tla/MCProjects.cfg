CONSTANTS
  Projects = {p}
  Jobs = {j1, j2}
  Plans = {g}
  Clients = {c1, c2}
  None = None
  Gone = Gone
  Syncers = {s1, s2}
  Titles = {t1, t2}
  Revisions = 1
  m1 = m1
  m2 = m2
  i1 = i1
  i2 = i2
  i3 = i3
  i4 = i4
  Importers = {m1, m2}
  Items = {i1, i2, i3, i4}
  Embeds = {i1, i2}
  External = {i1, i2, i3, i4}
  Sha <- MCSha
  Path <- MCPath
  Packages <- MCPackages
  InitialRows <- MCRows
  Quota = 2
  NoLock = NoLock
  a = a
  b = b
  c = c
  v = v
  x = x
  Sources = {a, b, c, v}
  Cached = {c}
  Spare = {x}
  MaxReferences = 2
  Foreign = Foreign
  Nothing = Nothing
  Kind <- MCKind
  Base <- MCBase
  Submissions <- MCSubmissions
  h1 = h1
  h2 = h2
  Kinds = {"git", "fixture", "http"}
  Threads = {h1, h2}
  Asks <- MCAsks
  Trees <- MCTrees
  CanonTrees <- MCCanonTrees
  SourceProjects = {1, 2}
  Snapshot <- SnapshotOfFirst
  MaxMoves = 2
  Nowhere = Nowhere
SPECIFICATION MCSpec
SYMMETRY Symmetric
INVARIANTS   PreparedAsAsked SourceSound
PROPERTIES OnlyLegalMoves NamesAreChosen
CHECK_DEADLOCK FALSE
