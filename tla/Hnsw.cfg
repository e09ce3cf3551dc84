\* Every way to draw the levels of small graphs, each searched.
SPECIFICATION Spec
CONSTANTS
  Point <- MCPoint
  Dist <- MCDist
  Corpora <- MCCorpora
  m = 2
  ef_construction = 2
  ef_search = 2
  MaxLevel = 2
  Queries = {0, 2, 5}
  Filters <- MCFilters
  Limits = {0, 2, 6}
INVARIANTS
  TypeOK
  EdgesSound
  EntryIsTop
  Navigable
  BeamKeepsBest
  ExactWhileSmall
CHECK_DEADLOCK FALSE
