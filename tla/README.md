# nanovec in TLA+

nanovec is an in-memory vector database for agents: an MCP server whose tools
index vectors or texts into named collections and search them.  This directory
models its logic, from the loops of the distance kernels to the start and the end of
the server, checks it with TLC on small instances and proves with TLAPS, for every
value of the constants, each safety property and refinement that those runs check.

    tlc -config Collection.cfg MCCollection       # one run of the table below
    tlapm CollectionProofs.tla                    # one proof module

`PROJECT.json` lists the runs, the mutations each property is known to catch, the
source lines of every definition, the findings, the hazards and the theorems.

## The system

| part | source (`src/src/`) | state | operations | what makes it correct |
|---|---|---|---|---|
| vector store | `store/mod.rs` | one flat array, a dimension, a count | insert, get, swap_remove, clear | every vector whole, where its record says |
| record store | `store/record.rs` | records, map id → index, next id | insert, get, remove, update_offset, clear | the map is the inverse of the ids; ids are fresh |
| collection | `store/collections.rs` | both stores, an optional HNSW index | handlers below | the index, when there is one, is over the present vectors |
| brute force | `index/brute.rs` | none | search, delete over both stores | the k nearest matches; delete takes one document away |
| bounded heap | `heap/mod.rs` | at most k items | push, peek_worst, into_sorted_vec | the k smallest scores offered |
| KD-tree | `index/kdtree.rs` | nodes | build, search | pruning loses nothing; same answer as brute force |
| HNSW | `index/hnsw.rs` | layers, levels, entry point | build, insert, search | hits are documents of the collection with their own distances; edges stay on their layer and under its cap; a beam keeps the best it saw |
| database | `store/database.rs` | map of guards under a lock, a lock and a tick per collection, a budget | resolve, create, drop, snapshot, recompute, evict | a name is one collection at a time; no deadlock; pinned collections stay; LRU |
| handlers | `mcp/mod.rs` | none of their own | the tools | each tool does all of its effect or none |
| SIMD, distances | `simd/`, `distance/` | none | dot, euclidean, cosine, for three kinds of host | every element read in its slice and counted once |
| collection map | `store/collections.rs` | map of collections, behind one lock | create, get_or_create, get_mut, drop | replaced by the database, which must behave as it did |
| embedder | `embed/mod.rs` | a model, read-only once loaded | load, embed | loaded before a transport opens; called with no lock held |
| transports, server | `transport/`, `server/`, `main.rs` | the sessions, a cancellation token | select, bind, serve, shut down | a shutdown completes; calls that begin come to their end |

How they meet.  `main` loads the embedder, makes one database and hands it to a transport.
Stdio is one session; HTTP gives every session a server over the one shared
`Arc<NanoVecDatabase>`.  Handlers run at the same time on different threads, do not await,
and embed a text before they ask for a lock.  A
handler first *resolves* a name, under the outer `parking_lot::RwLock` of the map,
to an `Arc<CollectionGuard>`; the outer lock is given back, and the rest of the
handler runs under the guard's inner lock (shared for searches, exclusive for
writes).  `snapshot` and `recompute_used_bytes` go over all collections with the
outer lock held and take each inner lock in turn.  Nothing is stored on disk and
no message is retried, so crashes and lost messages are no part of the system.

What is hard: the races between resolving a name and using the collection; two
first writers of an auto-created one; the LRU victim picked under one lock and
removed under another; walks that wait on one collection with the map locked; the
swap-removes of delete in two stores of different orders; the freshness of the
HNSW graph and its nodes, which are offsets where ids are expected; the exactness
of pruned search; reports put together from two walks; the boundaries of the blocked, unsafe loops, of which
a build has one set of three; and a shutdown with sessions open and handlers that wait for locks.  `PROJECT.json` lists each at its line.

## The modules

| module | models | extends / instantiates |
|---|---|---|
| `Corpus` | abstract: the documents of one collection by id | |
| `Collection` | the stores, the id map, the index slot, and every handler's effect on them | refines `Corpus` |
| `CollectionProofs` | theorems about `Collection` | `Collection`, TLAPS |
| `CollectionMap` | the sequential map behind one lock | |
| `NanoVecDatabase` | the locks, the map, ticks, budget, and each handler as steps of a thread | refines `CollectionMap` |
| `Server` | the process around the database: start-up, transports, sessions, shutdown | extends `NanoVecDatabase` |
| `NanoVecDatabaseProofs` | theorems about `NanoVecDatabase` and, at its end, about `Server` | `Server`, `SearchLemmas` |
| `VectorList` | abstract: a list of whole vectors | |
| `VectorStore` | the flat array and its copies | refines `VectorList` |
| `Kernels` | dispatch, the blocked loops, the reductions | |
| `KernelsProofs` | theorems about `Kernels` | `Kernels`, TLAPS |
| `Scoring` | kernels at work on slices of the store | `VectorStore`, `Kernels` |
| `ScoringProofs` | theorems about `Scoring` and the store in it | `Scoring`, `KernelsProofs` |
| `BoundedMaxHeap` | the heap as operators on sets of items | |
| `BruteForce` | the scan, record by record | `BoundedMaxHeap` |
| `SearchLemmas` | lemmas about numbers, sums, folds, recursions and the heap | `BoundedMaxHeap`, TLAPS |
| `BruteForceProofs` | theorems about `BruteForce` | `BruteForce`, `SearchLemmas` |
| `KdTree` | building and searching, with the recursion on a stack | `BoundedMaxHeap` |
| `KdTreeProofs` | theorems about `KdTree` | `KdTree`, `SearchLemmas` |
| `Hnsw` | building the graph node by node and searching it, a beam search one expansion at a time | `BoundedMaxHeap` |
| `HnswProofs` | theorems about `Hnsw` | `Hnsw`, `SearchLemmas` |
| `MC...` | small instances for TLC | the module named |

`Collection` and `NanoVecDatabase` divide one program.  A handler's work on a
collection is done under its inner lock and nobody else sees it half done, so
`Collection` has one action per handler.  `NanoVecDatabase` keeps the interleaving
and of a collection only how many documents it has: a lock is taken, a tick drawn,
a tick stored, a collection weighed in separate actions.

### Collection

Variables are the fields: `vectors`, `records`, `id_to_idx`, `next_id`, `hnsw`, and
`reply` for what the last handler answered.  Offsets and indices count from 0 as in
the code.  A vector is a model value with a dimension; the flat array is a sequence of
vectors.  A text stands for the text and the metadata of a record; a filter is the
set of texts whose metadata passes it.  `Relocate` is the search for the record
that points at the old last offset (`brute.rs:119-131`), including that it goes
through the id map, so that an error in one shows in the other.

`hnsw` is the vectors the graph was built over: at this level a beam may find any
non-empty set of nodes.  What `Hnsw::search` does with a node is exact: the distance
is that of the vector at the node's offset, and the node number is then used as the
*record id* for the filter and the answer.

A hit records the vector it was scored on rather than a number, so that "reported with
its own distance" can be said without arithmetic on floats; which `k` candidates are
nearest is left open here and settled in `BruteForce`.

### NanoVecDatabase

`call[c]` is the frame of client `c`'s call: where it is (`pc`), the Arc it holds, the
tick it has drawn and not stored, the collections it has still to weigh, or whose ticks
an eviction has still to read.  A lock is a
writer and a set of readers.  As in parking_lot, a writer first claims the lock, which
keeps new readers out, and enters when the readers inside have left.  A guard that
neither the map nor a frame reaches is freed.  Each document weighs one byte.
`used_bytes` is written by the walks and read back by no call, so it is left out.
The order of a walk is left open (it is the order of a HashMap, or of names).
`index` stands for `index_vector`, `stats` for `stats` and `memory`, `list` for
`list_collections`; `index_document` and `search_document` have the embedding of a text, which may
fail, as their first step.  An eviction picks its victim in steps too: `StartPick` takes the map's lock, `Inspect`
reads one tick, while lookups may store new ones, and keeps the smallest it has read and its name,
`PickVictim` gives the lock back, and `RemoveVictim` comes to that name later with the write lock.
`shrunk` is a history variable that no step reads: the reports and evictions during
which documents have gone, other than by the eviction's own removals.

`CollectionMap` is the code the database took the place of: a single lock, one call at a time.  The
repository still holds it, and it is what a client may assume of the database, so the refinement is
stated against it.  `Collection` there is an empty collection with an identity; two collections
of one name, one after the other, differ.

### Server

`NanoVecDatabase` with a process around it.  `phase` goes from loading the embedder through the transport to the
exit, and a call arrives only while a session is open.  A step that returns an error from `run` (the model
does not load, the address is taken, the handshake fails) leads straight to the end.  Cancelling the token, which the
binary never does and the users of `run_with_cancel` do, stops the listener and closes the sessions' streams; when
the last is closed `run` returns, `main` drops the runtime, and that waits for the
handlers that have begun.  Nothing is persisted, so the database is empty at the exit.

### VectorStore, Kernels, Scoring

In `VectorStore` an element of the array is the vector it came with and its coordinate there, so that a vector
torn or shifted by a copy shows.  `Iter` cuts the array into chunks as `chunks_exact` does, and the list of
chunks is what `Collection` calls `vectors`.

In `Kernels` an element is the slice it is read from and its position; a product or a squared difference is a *term*;
an accumulator lane and a sum are bags of terms.  Nine kernels share one control: `dot_avx2` and
its like say which terms they sum, over how many lanes, and how many blocks the body of the main loop takes.  The
entry asserts the lengths equal, or the call panics.  `hadd` keeps the duplicate lanes of the real instruction.  The
result is a function of the finished sums and is left out.

`Scoring` gives a kernel a query of any length and the slice of one vector; the store is borrowed, so it changes
between two calls only, as the code's borrows enforce.

### BruteForce, KdTree

A heap is the set of its items; the capacity is passed along.  `BruteForce` has a
step for a record the filter refuses and one for a record that is scored.  `KdTree`
holds the recursion of `build_subtree` and of `search_recursive` in stacks, `pending`
and `stack`.  The median is any that `select_nth_unstable_by` may give.  The far side
of a node is put on the stack with the distance to its plane, and the comparison with the
worst kept score is made when it is popped, after the near side, as in the code.  Distances
are squared on both sides of each comparison.  No handler uses the tree; it
is modelled because the repository offers it as an exact alternative to the scan.

### Hnsw

Variables are the fields, with nodes numbered from 1.  `layers[l][n]` keeps the order of a list, because a
beam meets neighbours in that order and it decides between equal ones.  The two binary heaps of `search_layer` are
ordered by distance and id, a total order, so `beam` holds them as sets.  `task` is the insert or search in progress:
both go down from the top with a beam of one to their `floor`, and from there an insert connects layer by
layer with `ef_construction`, a search takes the best of layer 0 with `ef_search`.  `Ascending` sorts by ranks: the
`i`-th of a set is the one that `i - 1` others are closer than.  A layer's beam search is one
action per expanded candidate; linking, with the pruning it sets off, is one action per layer.  The level of a
node is any of `0 .. MaxLevel`.  The store does not change during a build and a search starts after it, as
in `rebuild_index`, which holds the collection's lock throughout.  Node and record id are the same here; what
happens when they are not is in `Collection`, for which a beam may find any non-empty set of nodes.

## The runs

| run | configuration | states | what it shows |
|---|---|---|---|
| `collection` | `Collection.cfg` | 13 thousand | `TypeOK`, `Coherent`, `IndexFresh`, `BruteSearchExact`, `HnswExactWhileIdsAreOffsets`, `ImplementsCorpus` |
| `collection_hnsw` | `CollectionHnsw.cfg` | violation | `HnswReportsOwnVector` |
| `collection_ids` | `CollectionIds.cfg` | violation | `IdsNeverReused` |
| `database` | `NanoVecDatabase.cfg` | 611 thousand | `TypeOK`, `NoWaitCycle`, `TicksDistinct`, `OrphanedByRemovalOnly`, `EvictsOnlyOverBudget`, `PinnedNeverEvicted`, `ImplementsCollectionMap` |
| `server` | `Server.cfg` | 56 thousand | `StatsBracketed`, `EmbeddingHoldsUpNobody`, `CallsReturn`, `ShutdownCompletes` |
| `scoring` | `Scoring.cfg` | 7 thousand | `TypeOK`, `InBounds`, `CountedOnce`, `ScoresOneVector`, `ImplementsVectorList` |
| `database_contention` | `DatabaseContention.cfg` | violation | `IndexersNeverContend` |
| `database_budget` | `DatabaseBudget.cfg` | violation | `CapTriggersEviction` |
| `brute_force` | `BruteForce.cfg` | 120 thousand | `TypeOK`, `KeepsNearest`, `TiesGoToOldest` |
| `kdtree` | `KdTree.cfg` | 214 thousand | `TypeOK`, `TreeSplits`, `NothingLost` |
| `hnsw` | `Hnsw.cfg` | 218 thousand | `TypeOK`, `EdgesSound`, `EntryIsTop`, `Navigable`, `BeamKeepsBest`, `ExactWhileSmall` |
| `kdtree_ties` | `KdTreeTies.cfg` | violation | `KdMatchesBrute` |

Bounds.

- `Collection.cfg`: `MaxNextId = 4`, so up to four documents between two clears: the first
  size at which the two stores can be in different orders and the moved vector, the
  moved record and the removed one are three different documents.  Two vectors, of which
  documents may share one, and a third of the wrong dimension; two texts; `MaxK = 1`
  (a `k` under the number of matches and `k = 0`).  Vectors of the right dimension and texts
  are interchangeable, and the configuration says so with a symmetry set.
- `NanoVecDatabase.cfg`: three clients, one pinned and one unpinned name, a guard for each name
  and one for each client that may hold an orphan.  `MaxCount = 1` and a budget of 1: two
  documents set eviction off, and one fills the budget exactly and does not.  `MaxTick = 3`: ticks stop there, and `TicksDistinct` speaks
  of smaller ones only.  The other configurations need no tick order and set it to 0.
- `Server.cfg`: three clients on one pinned collection, which between them index a document, report, list, search, create and
  drop, so that each kind of lock request meets each other; one session at a time, `MaxCount = 1`.  The indexer needs the
  name to go and come back while it is on the auto-create path, which a creating and dropping client gives it.  Eviction is
  left to `NanoVecDatabase.cfg`, as no session can call it.
- `Scoring.cfg`: an ARM host, an x86 host with and without FMA, and another; dimensions 1 (remainder only), 8 (two NEON blocks, one AVX2
  block and nothing else), 43 (body, block and remainder on both) and 75 (two AVX2 bodies), queries of each and of 44.  Two vectors in the store
  and three to insert, which are interchangeable.
- `BruteForce.cfg`: every store of up to four records, three scores, ids in order and disturbed, with and
  without a filter, every choice of records that pass it, `k` from 0 to 3: under, at and over capacity, with ties.
- `KdTree.cfg`: every corpus of up to three records over four points of the plane, and
  chosen ones of four and five, so that both axes, ties on an axis, duplicates and
  nodes three deep occur; all nine queries, all filters, `k` from 0 to 2.
- `Hnsw.cfg`: `m = 2`, so lists of at most 2 above layer 0 and 4 on it; `ef_construction` and `ef_search` at 2, the least
  that `rebuild_index` accepts, so beams are full and evict; `MaxLevel = 2`, so descents of two layers and nodes above
  the old top.  Every corpus of up to three nodes in three directions, a mixture of five, and two of six that
  overfill lists on every layer: a hub that each newcomer is closer to, and six copies of one document.
  All draws of levels.  `k` of 0, 2 and 6, so `ef` under and over the size of the graph; four filters.

`CHECK_DEADLOCK FALSE` is set where a search, or the process in `Server.cfg`, comes to its end and the behaviour stops.  The
database runs check deadlock, and `NoWaitCycle` says more: no group of calls waits on
itself while others go on.

Fairness (`ServerSpec`).  Strong fairness of each client's step: a call that can go on again
and again does go on.  The threads are scheduled by the operating system, and the locks are
`parking_lot` (Cargo.toml), whose RwLock is eventually fair: a waiting thread is handed the lock
in time and a waiting writer keeps new readers out.  Weak fairness of the start-up, of the closing of sessions by a cancelled
token, of the return of a server that has no connections left, and of the exit once no handler is at work: these are
the runtime's own tasks and wait for nobody.  No client is assumed to connect, to call, to leave or to cancel.
Eviction is excepted from `CallsReturn`: its loop ends when the total is under the budget, and
other callers may fill the database as fast as it is emptied.

## What the violations show

- **HNSW hits after a delete** (`hnsw.rs:447,462,467`): nodes are offsets, and are used as ids.  Index a
  document and delete it, index two more, which get ids 1 and 2 at offsets 0 and 1, rebuild and search: the
  vector of node 0 is not reported at all (no document has id 0), and that of node 1, which
  belongs to document 2, is reported under the id and with the text of document 1.
  `HnswExactWhileIdsAreOffsets` holds: until the first delete the two coincide.
- **Ids after a clear** (`record.rs:81`): they start again at 0, against
  `docs/components/record-store.md:65`; the text of the tool `clear` announces it.
- **Indexers of different collections** (`database.rs:215,315`): a `stats` call holds the map while it
  waits for one busy collection; an index call for a missing pinned name comes to its auto-create and waits for the
  map, and so for an index call on the other collection.  Against
  `database.rs:10-11`.  Lookups that arrive meanwhile queue behind the waiting writer as well.  It is a delay and never a deadlock: `NoWaitCycle` and `CallsReturn` hold.
- **The memory cap** (`database.rs:343`, `README.md:116`): no handler calls the eviction.
- **Tree and scan on ties** (`heap/mod.rs:55`, `docs/components/kdtree.md:182`): a full heap refuses an equal
  score whatever the id, so the answer depends on the order of visit.  Distances are the same.

One disagreement shows in a run that passes.  The comment on `evict_until_under_budget` says that it drops collections "until
`used_bytes < limit_bytes`" (`database.rs:340-341`, as does `docs/plans/phase-6-multi-agent-plan.md:166`), and its loop stops at `<=` (`database.rs:348`).  They differ for a total that
equals the limit.  `docs/components/database.md:17-18` says "until usage fits", and the budget of a database that is exactly full
is not exceeded; so `EvictsOnlyOverBudget` states what the code does, that no collection is removed at the limit, and the comment is
listed as a finding.

## What is proved

By TLAPS, for every value of the constants that the assumptions allow: any number of clients, names and
documents, any `k`, corpus, distance or dimension.  Each invariant, action property and refinement of a passing
run has its theorem; `PROJECT.json` pairs them.  An `IInv` below is an inductive invariant; what it adds to the
property is where the argument lies.

**One collection** (`CollectionProofs`).

- `TypeCorrect`, `StoresCoherent`, `IndexNeverStale`.  `IInv` is `TypeOK /\ Coherent /\ IndexFresh`.  None of the
  parts of `Coherent` is inductive by itself: delete finds a record through the id map, takes its offset, and
  writes the offset of another record, again through the map; it is right only because the offsets are a bijection
  *and* the map is the inverse of the ids, and each needs the types to be said at all.  `SwapRemoveShape` and
  `DeleteLayout` say what the two swap-removes leave where; the rest is one step per action.
- `CollectionImplementsCorpus`: the refinement, from the same invariant, by three lemmas that map
  insertion, deletion and clearing; every other action maps to a stutter.
- `BruteSearchIsExact`, `HnswSearchOwnVectors`: the answers.  Both speak of `reply` and so of one step; the
  coherence of the state before it gives each id one record and each record one vector.

**The database and its server** (`NanoVecDatabaseProofs`).

- `Invariant`: `IInv` says at which step of a call which lock is held (`OuterOK`, `InnerOK`), what a frame has at each
  step (`FramesOK`), that a caller between its lookup and its touch keeps the map as it is, that ticks in the map
  and ticks drawn and not yet stored all differ (`TicksOK`), that an allocation keeps the name it was made under while anyone
  reaches it (`NamesAgree`), and that the ticks a pick has still to read are of unpinned collections (`PicksOK`).  `TypeCorrect` needs that an allocation is always
  to be had, which is counted (`AllocationSucceeds`).
- `OrphansWereRemoved`, `TicksNeverTie`, `PinnedStay`: from `IInv`.  The code acknowledges a write into a collection whose name has
  been dropped or evicted since the lookup, and the write is lost with it.  `OrphanedByRemovalOnly` says that nothing
  else loses one: from the lookup or the auto-create on, the name leads to what the call holds until that name is removed.
- `DeadlockFree`, `EmbeddingLocksNothing`: `Rank` numbers the points of a call by the order in which it takes locks, the map's before
  a collection's.  Whoever waits, waits for a caller of smaller rank (`WaitsDownhill`), and a cycle would go down for ever.
- `RefinesCollectionMap`: a create, a drop, a removal and an update of a collection's guard each map to a step of the sequential map
  (`MapCreate`, `MapDrop`, `MapUpdate`), everything else to a stutter; a guard that is reused is one that nobody can reach.
- `ReportsBracketed`, `EvictionsJustified`: about totals summed collection by collection under
  concurrent writes.  `Walking` says, of each walk during which no documents have gone: its total is at most what the collections
  already weighed hold by now; what a report listed is at most its total and what it has still to weigh; and while a victim is
  sought or about to be removed the weight is over the limit.  `Stages` says who is at these steps.  Weights are sums over the map, so each step is an
  inequality between two sums that differ in one collection or in none (`HeldGrows`, `HeldMoves`, `PartsGrow`).
- `ServiceInvariant`: the server keeps the database's invariant over the whole life of the process, at most one session
  is open on stdio, and no handler is at work before the embedder is loaded and a transport open or after `main` has
  returned.  `ServerDeadlockFree`, `ServerEmbeddingLocksNothing` and `ServerReportsBracketed` are the above for `ServerSpec`: a server's
  step is a step of its database, the end of the process with every handler done, or nothing to the database.

**Kernels and store** (`KernelsProofs`, `ScoringProofs`).

- `KernelsInBounds`, `KernelsCountOnce`: for every host and all lengths.  `KernelInv` says of
  every lane of every accumulator exactly which terms it holds: of accumulator `r`, lane `l`, those at the positions
  below the loop counter that fall to that block of the body and that lane.  That the lanes together hold
  every position below the counter once is then arithmetic of remainders (by 4, 8, 16 and 32, split into cases for the
  solver), and the reduction adds disjoint bags.  `CountedOnce` alone is not inductive: it says nothing before the end.
- `ScoringTypeCorrect`, `ScoringInBounds`, `ScoringCountsOnce`: a scoring behaviour is, by its kernel variables, a
  kernel behaviour, so the same invariant holds for any store.
- `StoreImplementsList`, `ScoresAreOfOneVector`: the array holds the vectors of a list one after the other, each whole, at its
  multiple of the dimension (`StoreInv`); an insert, the copy of the last vector in a swap-remove and the
  truncation after it are steps of that list; and a slice taken from the store is one whole vector for as long
  as a kernel reads it (`SliceInv`).

**Searches.**

- `SearchTypeCorrect`, `SearchExact`, `TiesFavourOldest` (`BruteForceProofs`): at every record the heap holds the `k` best
  of the matches seen.  `KeepsNearest` needs the strengthening that the heap is finite and has a
  top, that is, that each non-empty part of it has a largest item (`Topped`): `Push` chooses it, and its
  existence is what distinct ids give (`PrecedesOrder`, `TopIsTop`, `ToppedGrows`).
- `TreeAlwaysSplits`, `PruningLosesNothing` (`KdTreeProofs`).  While the tree is built, each node has two *rooms*, sets of
  records on either side of its plane, within which everything below it, built or pending, stays
  (`Rooms`); with each record in one node or one pending subtree (`OnceEach`) the rooms are the subtrees when nothing is
  pending.  A search's heap is the best of the matches that no frame of the stack waits for, and nothing else (`FramesOK`), and a frame that is
  pruned holds nothing that its plane does not put further away than a full heap's worst: the distance is at least
  what one axis adds to it (`BeyondPlane`, `DistanceBounds`).
- `HnswTypeCorrect`, `GraphStaysSound`, `DescentStaysOnLayers`, `BeamIsLocalOptimum` (`HnswProofs`), for any draw of the levels and any
  symmetric distance.  `IInv` says that every list is sound at every moment, that a node being inserted has no edge in either direction on the
  layers its insert has not left yet, and that a beam's result is the best of what it has visited, all of it on the layer it
  searches, with the neighbours of what it has expanded.
- `SmallLayersNavigable`, `SmallGraphsSearchExactly`: while a layer is under its cap its edges go both ways and no proper part
  of it is closed under them (`Unpruned`): a newcomer is linked both ways to somebody, which joins it to the rest
  (`Joins`).  So a beam as wide as the graph has visited all of it when its candidates are used up (`FindsAll`).

**How recursion is proved about.**  The prover cannot instantiate induction over data, so `SearchLemmas` does it
with sets in place of predicates: a set that contains 0 and with each number the next contains every number (`Climb`), which
rests on strict inclusion being well founded on finite sets.  A recursive function or a fold is a
`CHOOSE`, and says nothing until a solution is known to exist: `FoldExists`, `SumExists` and, for `Under` and `Reached`,
`FixedPoint` and `Iterates` build it.  Each lemma is for any operators and any sets and was written once for the proofs that cite it.

Assumptions: those the modules name, which TLC evaluates in the runs.  Dimensions are positive numbers; the mark for "no index" is no
sequence of vectors; ids of a record store are distinct (`CorporaAssumption`, which is `Coherent` above); names and clients are
finitely many and allocations do not run out (`SpaceAssumption`); the distance of `Hnsw` is symmetric
(`DistAssumption`; it need not be a metric, nor 0 from a point to itself, which the cosine distance of a zero vector is not); `ef_construction` is at least `m`, which `rebuild_index` requires
(`ParamsAssumption`).

Only model-checked: `CallsReturn` and `ShutdownCompletes`, as liveness is out of the prover's reach, and the violations, which are
counterexamples and need one instance.  The bounds `MaxNextId`, `MaxCount`, `MaxTick`, `MaxVectors` are constants of the
models and any number in the theorems.

## What is not claimed of HNSW

`Navigable` and `ExactWhileSmall` stop where pruning starts (a layer with more than cap + 1 nodes), because beyond it they
are false: TLC shows six copies of one document under `m = 2`, where the lists of the two oldest keep the
four lowest ids, so that no edge
leads to the sixth and, unless its level took it to a higher layer, no search finds it, at any `ef_search`.  With the default
`m = 16` that takes 34 copies.  It is a property of the algorithm that no doc or test of the repository denies,
hence a hazard and no finding.

## Not modelled

- The arithmetic of floats: rounding, NaN, and what `debug_assert`s say of values.  The kernels are exact up to the order of
  additions; the models of search take distances as totally ordered.
- What the embedder computes.  It is one call of the BERT libraries with tensors in and out, and the vector it returns
  is any vector of the right dimension; that it is loaded first, may fail, and is called before any
  lock is in the models.
- JSON in and out, logging, the formatting of errors, the sorting of listings, and `rmcp`, `axum` and `tokio`
  themselves: modelled by what the code relies on (a call per request, streams closed by the token, a runtime that waits for handlers).
- Crashes and restarts: nothing is persisted, so a restart is a start.

## Plan

Done: all modules of the table, and a theorem for each safety property and refinement the runs check.  To come:

1. `Collection`'s arbitrary beam as an abstraction of `Hnsw`: that what the graph's search answers is one of the answers
   the action of `Collection` may give.
2. The other half of `Coherent`'s use: that the corpora `BruteForce` and `KdTree` assume are those `Collection` reaches, as a refinement
   and no longer as an assumption.
3. LRU order: when `last_accessed` may go backwards, and eviction by two evictors.
