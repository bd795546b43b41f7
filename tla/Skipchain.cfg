SPECIFICATION MCSpec
CONSTANTS
  Server = {s1, s2}
  Data = {x, y}
  BaseHeight = 2
  MaximumHeight = 2
  Client = {c1, c2}
  Worker = {w1}
  MaxBlock = 3
  Scenario <- Scenarios
  MaxBase = 4
  MaxIndex = 40
CHECK_DEADLOCK FALSE
SYMMETRY Alike
INVARIANTS
  AckedEverywhere
  LinksMatchBackLinks
  LatestFound
  HigherLinksArrive
  HeightIsReference
  LinksAreNearest
PROPERTIES
  LinksOnlyGrow
