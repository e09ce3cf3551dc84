\* Every small corpus, tree and query.
SPECIFICATION Spec
CONSTANTS
  dimension = 2
  Coord = {0, 1, 2}
  Corpora <- MCCorpora
  Limits = {0, 1, 2}
INVARIANTS
  TypeOK
  TreeSplits
  NothingLost
CHECK_DEADLOCK FALSE
