\* Two writers race on and off the auto-create path while collections are
\* created, dropped and evicted.
SPECIFICATION Spec
CONSTANTS
  c1 = c1
  c2 = c2
  c3 = c3
  Client = {c1, c2, c3}
  Ops <- MCRaceOps
  a = a
  d = d
  Name = {a, d}
  Pinned = {d}
  Guard <- MCGuard
  None = None
  limit_bytes = 1
  MaxCount = 1
  MaxTick = 3
INVARIANTS
  TypeOK
  NoWaitCycle
  TicksDistinct
PROPERTIES
  OrphanedByRemovalOnly
  EvictsOnlyOverBudget
  PinnedNeverEvicted
  ImplementsCollectionMap
