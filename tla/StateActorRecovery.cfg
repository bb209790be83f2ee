\* Restart and recovery: one window with a stable id, one project slug, imports, a rule.
SPECIFICATION Spec
CONSTANTS
  NULL = NULL
  a = a
  g1 = g1
  Windows = {w1}
  StableIds = {s1}
  Slugs = {a}
  Groups = {}
  Ids = {p1, p2}
  Rules <- PlainRule
  Imported <- BlankImport
  MaxRuns = 2
  MaxRestarts = 1
SYMMETRY Symmetry
\* No request is possible forever: ids and restarts run out.
CHECK_DEADLOCK FALSE
INVARIANTS
  OnlyRestoreDangles
  RuntimeNamesLiveProjects
  IInv
PROPERTY
  PrecedenceRespected
