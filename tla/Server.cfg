\* The process from its start to its end, under calls of every kind of lock.
SPECIFICATION ServerSpec
CONSTANTS
  c1 = c1
  c2 = c2
  c3 = c3
  Client = {c1, c2, c3}
  Ops <- MCServerOps
  d = d
  Name = {d}
  Pinned = {d}
  Guard <- MCGuard
  None = None
  limit_bytes = 0
  MaxCount = 1
  MaxTick = 0
  MaxSessions = 1
CHECK_DEADLOCK FALSE
INVARIANTS
  StatsBracketed
  EmbeddingHoldsUpNobody
PROPERTIES
  CallsReturn
  ShutdownCompletes
