\* Ids across a clear.
SPECIFICATION HistorySpec
CONSTANTS
  v1 = v1
  v2 = v2
  wrong = wrong
  Vector <- MCVector
  DimOf <- MCDimOf
  dimension = 2
  t1 = t1
  t2 = t2
  Text <- MCText
  NoIndex = NoIndex
  MaxNextId = 2
  MaxK = 1
PROPERTY
  IdsNeverReused
