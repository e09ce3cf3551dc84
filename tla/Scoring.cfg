SPECIFICATION ScoringSpec
CONSTANTS
  v1 = v1
  v2 = v2
  v3 = v3
  Vec <- MCVec
  Dimensions <- MCDimensions
  MaxVectors = 2
  Hosts <- MCHosts
  Lengths <- MCLengths
INVARIANTS
  TypeOK
  InBounds
  CountedOnce
  ScoresOneVector
PROPERTY
  ImplementsVectorList
SYMMETRY Symmetry
