\* Two indexers, a reporter and no evictor.
SPECIFICATION Spec
CONSTANTS
  c1 = c1
  c2 = c2
  c3 = c3
  Client = {c1, c2, c3}
  Ops <- MCIndexOps
  a = a
  d = d
  Name = {a, d}
  Pinned = {d}
  Guard <- MCGuard
  None = None
  limit_bytes = 0
  MaxCount = 1
  MaxTick = 0
INVARIANTS
  IndexersNeverContend
