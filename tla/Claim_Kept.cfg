\* A save before the first hydration.
SPECIFICATION Spec
CONSTANTS
  NULL = NULL
  a = a
  g1 = g1
  Windows = {w1}
  StableIds = {}
  Slugs = {a}
  Groups = {}
  Ids = {p1}
  Rules <- NoRules
  Imported <- NoImport
  MaxRuns = 0
  MaxRestarts = 1
SYMMETRY Symmetry
\* No request is possible forever: ids and restarts run out.
CHECK_DEADLOCK FALSE
INVARIANT KeptUntilHydrated
