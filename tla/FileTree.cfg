SPECIFICATION Spec
CONSTANTS
  Root = root
  Dirs = {root, d1, d2}
  Files = {f1, f2}
  Names = {a, b}
  None = none
  Handlers = {h1, h2}
  Batch = 2
  MaxStale = 1
SYMMETRY Alike
CHECK_DEADLOCK FALSE
INVARIANTS TypeOK LivePlaces TrashListed StatsExact
PROPERTIES NothingLiveErased
