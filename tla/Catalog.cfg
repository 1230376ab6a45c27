SPECIFICATION PartSpec
CONSTANTS
  \* Two saves, three discoveries; one crash, one damaged file.
  r1 = r1
  r2 = r2
  Refreshers = {r1, r2}
  MaxDamage = 1
  MaxCrashes = 1
  MaxFetches = 3
  \* An account of each region, the second without a uid.
  a1 = a1
  b1 = b1
  m1 = m1
  m2 = m2
  q1 = q1
  q2 = q2
  Subscribers = {a1, b1}
  Nameless = {b1}
  ModelKeys = {m1, m2}
  Published <- PublishedHere
  Askers = {q1, q2}
  Windows = {1, 2, 3}
  NoCatalog = NoCatalog
  MaxRenewals = 1
  MaxAsks = 3
  MaxOverrides = 1
  \* Two browsers, an upstream model and one that can be added.
  p1 = p1
  p2 = p2
  ModelIds = {"x", "y"}
  BaseModels = {"x"}
  Panels = {p1, p2}
  MaxEdits = 4
  MaxFailures = 1
  MaxReloads = 1
SYMMETRY Symmetry
CHECK_DEADLOCK FALSE
INVARIANTS Recoverable OwnCatalog EditsKept
PROPERTIES FutureKept LiveWins
