\* The calls the server offers, over the budget.
SPECIFICATION Spec
CONSTANTS
  c1 = c1
  c2 = c2
  c3 = c3
  Client = {c1, c2}
  Ops <- MCServedOps
  a = a
  d = d
  Name = {a, d}
  Pinned = {d}
  Guard <- MCGuard
  None = None
  limit_bytes = 1
  MaxCount = 2
  MaxTick = 0
INVARIANTS
  CapTriggersEviction
