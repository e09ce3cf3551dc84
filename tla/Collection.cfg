\* One collection, every handler: coherence of the stores, freshness of the
\* index, exact search and implementation of Corpus.
SPECIFICATION Spec
CONSTANTS
  v1 = v1
  v2 = v2
  wrong = wrong
  Vector <- MCVector
  DimOf <- MCDimOf
  dimension = 2
  t1 = t1
  t2 = t2
  Text <- MCText
  NoIndex = NoIndex
  MaxNextId = 4
  MaxK = 1
SYMMETRY Interchangeable
INVARIANTS
  TypeOK
  Coherent
  IndexFresh
  BruteSearchExact
  HnswExactWhileIdsAreOffsets
PROPERTY
  ImplementsCorpus
