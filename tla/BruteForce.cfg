\* Every small record store searched with every k.
SPECIFICATION Spec
CONSTANTS
  Corpora <- MCCorpora
  Limits = {0, 1, 2, 3}
INVARIANTS
  TypeOK
  KeepsNearest
  TiesGoToOldest
CHECK_DEADLOCK FALSE
