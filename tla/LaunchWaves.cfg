\* Every project of three slots with lists of at most two names.
SPECIFICATION Spec
CONSTANTS
  NULL = NULL
  Slots = {s1, s2, s3}
  Names = {x, y, z}
  MaxAfter = 2
  Afters <- Lists
\* The algorithm ends.
CHECK_DEADLOCK FALSE
INVARIANTS
  DependenciesFirst
  NoNeedlessWait
  VerdictExact
