\* Two projects, a group that moves between them, a rule that names it.
SPECIFICATION Spec
CONSTANTS
  NULL = NULL
  a = a
  g1 = g1
  Windows = {w1}
  StableIds = {}
  Slugs = {a, b}
  Groups = {g1}
  Ids = {p1, p2}
  Rules <- GroupedRule
  Imported <- NoImport
  MaxRuns = 0
  MaxRestarts = 0
SYMMETRY Symmetry
\* No request is possible forever: ids and restarts run out.
CHECK_DEADLOCK FALSE
INVARIANTS
  FilesMatchProjects
  InheritedGroupExists
