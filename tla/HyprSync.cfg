\* Two windows, one loss of the connection, one failed request, one save.
SPECIFICATION Spec
CONSTANTS
  NULL = NULL
  Windows = {w1, w2}
  Places = {a, b}
  MaxChanges = 2
  MaxDrops = 1
  MaxFailures = 1
  MaxSaves = 1
\* The compositor may stop changing.
CHECK_DEADLOCK FALSE
INVARIANTS
  WindowsConverge
  PlacesConverge
  FactsComplete
PROPERTY Settles
