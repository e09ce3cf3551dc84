\* What an HNSW search reports once a document has been deleted.
SPECIFICATION Spec
CONSTANTS
  v1 = v1
  v2 = v2
  wrong = wrong
  Vector <- MCVector
  DimOf <- MCDimOf
  dimension = 2
  t1 = t1
  t2 = t2
  Text <- MCText
  NoIndex = NoIndex
  MaxNextId = 3
  MaxK = 1
INVARIANT
  HnswReportsOwnVector
