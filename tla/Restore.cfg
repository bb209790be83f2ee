\* A diamond of dependencies with adoptions, a second run that competes for the
\* same windows, and a receiver that lags.
SPECIFICATION Spec
CONSTANTS
  NULL = NULL
  r1 = r1 r2 = r2
  db = db api = api ui = ui tool = tool lost = lost other = other
  x = x y = y z = z
  w1 = w1 w2 = w2 w3 = w3
  Runs = {r1, r2}
  Slots = {db, api, ui, tool, lost, other}
  Windows = {w1, w2}
  Labels = {x, y, z, tool}
  App <- Diamond
  Adoptable <- Pairs
  MaxLags = 1
\* The runs end.
CHECK_DEADLOCK FALSE
INVARIANTS
  RegistryExact
  DependenciesSettled
PROPERTIES
  KeepsContract
  NoLateCorrelation
  RunsEnd
