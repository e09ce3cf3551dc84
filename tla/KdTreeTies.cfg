\* The records found against those of brute force.
SPECIFICATION Spec
CONSTANTS
  dimension = 2
  Coord = {0, 1, 2}
  Corpora <- MCCorpora
  Limits = {1}
INVARIANTS
  KdMatchesBrute
CHECK_DEADLOCK FALSE
