\* Two slots, two windows, every agreement that differs in score.
SPECIFICATION MatchSpec
CONSTANTS
  Identities = {1, 2}
  Windows = {1, 2}
  Evidences <- Telling
  Owners = {"this", "other"}
\* The matching ends.
CHECK_DEADLOCK FALSE
INVARIANTS
  OneToOne
  NoBetterPairLost
