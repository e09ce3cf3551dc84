--------------------------- MODULE NanoVecDatabase --------------------------
(***************************************************************************)
(* The database of nanovec under concurrent tool calls: the outer          *)
(* read-write lock around the map of collections, one inner read-write     *)
(* lock per collection, the LRU ticks and the memory budget.               *)
(*                                                                         *)
(* A call runs on its client's thread and takes one action from one point  *)
(* at which another thread can interfere to the next.  What a call does to *)
(* the documents of a collection is Collection.tla; here a collection      *)
(* holds a number of documents of one byte each.                           *)
(***************************************************************************)
EXTENDS Integers, FiniteSets, Functions, FiniteSetsExt

CONSTANTS
  Client,       \* concurrent callers
  Ops,          \* Ops[c]: the calls that client c makes
  Name,         \* collection names
  Pinned,       \* the names for which is_pinned_name holds
  Guard,        \* identities of CollectionGuard allocations, natural numbers
  None,         \* no guard, no client, no name
  limit_bytes,  \* the memory budget
  MaxCount,     \* bound on the documents of one collection
  MaxTick       \* bound on the LRU ticks, which stop there

Indexes  == {"index", "index_document"}
Searches == {"search", "search_document"}
Writes   == Indexes \cup {"delete", "clear", "rebuild"}     \* end in inner.write()
OpNames  == Writes \cup Searches \cup {"create", "drop", "list", "stats", "evict"}

ASSUME OpsAssumption    == Ops \in [Client -> SUBSET OpNames]
ASSUME PinnedAssumption == Pinned \subseteq Name
ASSUME GuardAssumption  == /\ Guard \subseteq Nat
                           /\ None \notin Guard \cup Client \cup Name
(* An allocation does not fail: there is an identity for every name in the *)
(* map and every call at work, the one that allocates counted once.        *)
ASSUME SpaceAssumption  == /\ IsFiniteSet(Name) /\ IsFiniteSet(Client)
                           /\ IsFiniteSet(Guard) => Cardinality(Guard) >=
                                Cardinality(Name) + Cardinality(Client) - 1
ASSUME BoundAssumption  == /\ limit_bytes \in Nat
                           /\ MaxCount \in Nat
                           /\ MaxTick \in Nat

VARIABLES
  collections,  \* name -> guard, or None
  guards,       \* guard -> the allocation behind the Arc
  tick_counter,
  outer,        \* the lock of the map
  inner,        \* guard -> the lock of the collection
  call,         \* client -> the frame of its call
  shrunk        \* history: the reports and evictions in which documents
                \* have gone, other than by the eviction's own removals,
                \* since the walk that the property counts from began

dbVars == <<collections, guards, tick_counter, outer, inner, call>>
vars   == <<dbVars, shrunk>>

Free   == [name |-> None, pinned |-> FALSE, last_accessed |-> 0, count |-> 0]
Idle   == [pc |-> "idle", op |-> "none", name |-> None, held |-> None,
           tick |-> 0, todo |-> {}, total |-> 0, listed |-> 0]

-----------------------------------------------------------------------------
(* parking_lot's RwLock.  A writer first claims the lock, which turns new  *)
(* readers away, and enters when the readers that were inside have left.   *)
Unlocked        == [writer |-> None, readers |-> {}]
CanRead(lock)   == lock.writer = None
AddReader(lock, c)    == [lock EXCEPT !.readers = @ \cup {c}]
RemoveReader(lock, c) == [lock EXCEPT !.readers = @ \ {c}]
CanClaim(lock)  == lock.writer = None
Claimed(lock, c)      == [lock EXCEPT !.writer = c]
Entered(lock, c)      == lock.writer = c /\ lock.readers = {}

(* The last Arc to an allocation frees it.                                 *)
Reachable(map, frames) ==
  {map[n] : n \in Name} \cup {frames[c].held : c \in Client}
Collected(gs, map, frames) ==
  [g \in Guard |-> IF g \in Reachable(map, frames) THEN gs[g] ELSE Free]

Unallocated == Guard \ Reachable(collections, call)
NextTick    == IF tick_counter < MaxTick THEN tick_counter + 1 ELSE tick_counter
Live        == {collections[n] : n \in Name} \ {None}

(* Mutation: a delete counts down whether or not the id was found.         *)
Outcomes_DeleteUnchecked(op, count) ==
  CASE op \in Indexes -> {count} \cup ({count + 1} \cap 0 .. MaxCount)
    [] op = "delete"   -> {count - 1}
    [] OTHER           -> {0}

(* Counts that one write call may leave in a collection; a refused call    *)
(* leaves it as it is.                                                     *)
Outcomes(op, count) ==
  CASE op \in Indexes -> {count} \cup ({count + 1} \cap 0 .. MaxCount)
    [] op = "delete"   -> {count} \cup ({count - 1} \cap Nat)
    [] op = "clear"    -> {0}
    [] op = "rebuild"  -> {count}

-----------------------------------------------------------------------------
Init ==
  /\ collections = [n \in Name |-> None]
  /\ guards = [g \in Guard |-> Free]
  /\ tick_counter = 0
  /\ outer = Unlocked
  /\ inner = [g \in Guard |-> Unlocked]
  /\ call = [c \in Client |-> Idle]
  /\ shrunk = {}

At(c, pc) == call[c].pc = pc
Goto(c, pc) == call' = [call EXCEPT ![c].pc = pc]

(* The call is answered: its frame goes, and with it the Arc it held.      *)
Return(c) == call' = [call EXCEPT ![c] = Idle]

(* A tool call arrives.                                                    *)
FirstStep(op) ==
  CASE op \in {"index_document", "search_document"} -> "embed"
    [] op \in {"index", "delete", "clear", "rebuild", "search"} -> "lookup"
    [] op = "create" -> "create"
    [] op = "drop"   -> "drop"
    [] op \in {"list", "stats"} -> "snapshot"
    [] op = "evict"  -> "recompute"

Call(c, op, n) ==
  /\ At(c, "idle")
  /\ op \in Ops[c]
  /\ n = None <=> op \in {"list", "stats", "evict"}
  /\ call' = [call EXCEPT ![c] = [Idle EXCEPT !.pc = FirstStep(op), !.op = op, !.name = n]]
  /\ UNCHANGED <<collections, guards, tick_counter, outer, inner>>

-----------------------------------------------------------------------------
(* A document call embeds its text before it looks for the collection.     *)
Embed(c) ==
  /\ At(c, "embed")
  /\ Goto(c, "lookup")
  /\ UNCHANGED <<collections, guards, tick_counter, outer, inner>>

(* The text cannot be embedded: the call ends with an error.               *)
EmbedFails(c) ==
  /\ At(c, "embed")
  /\ Return(c)
  /\ UNCHANGED <<collections, guards, tick_counter, outer, inner>>

-----------------------------------------------------------------------------
(* resolve and resolve_readonly.                                           *)

(* The name is in the map: the outer read lock is kept until the guard has *)
(* been touched.                                                           *)
Lookup(c) ==
  LET g == collections[call[c].name]
  IN  /\ At(c, "lookup")
      /\ CanRead(outer)
      /\ g # None
      /\ outer' = AddReader(outer, c)
      /\ call' = [call EXCEPT ![c].pc = "tick", ![c].held = g]
      /\ UNCHANGED <<collections, guards, tick_counter, inner>>

(* The name is missing: a write call creates a pinned collection, a search *)
(* of one answers with no hits, and any other name is an error.            *)
LookupMissing(c) ==
  /\ At(c, "lookup")
  /\ CanRead(outer)
  /\ collections[call[c].name] = None
  /\ IF call[c].op \in Writes /\ call[c].name \in Pinned
       THEN Goto(c, "autocreate")
       ELSE Return(c)
  /\ UNCHANGED <<collections, guards, tick_counter, outer, inner>>

(* Mutation: next_tick reads the counter and does not add to it.           *)
TakeTick_ReadOnly(c) ==
  /\ At(c, "tick")
  /\ call' = [call EXCEPT ![c].pc = "touch", ![c].tick = NextTick]
  /\ UNCHANGED <<collections, guards, tick_counter, outer, inner>>

(* next_tick: taken by an atomic add, under the shared lock only.          *)
TakeTick(c) ==
  /\ At(c, "tick")
  /\ tick_counter' = NextTick
  /\ call' = [call EXCEPT ![c].pc = "touch", ![c].tick = NextTick]
  /\ UNCHANGED <<collections, guards, outer, inner>>

(* touch: a plain store of the tick taken before; then the outer lock goes *)
(* and only the Arc remains.                                               *)
Touch(c) ==
  /\ At(c, "touch")
  /\ guards' = [guards EXCEPT ![call[c].held].last_accessed = call[c].tick]
  /\ outer' = RemoveReader(outer, c)
  /\ call' = [call EXCEPT ![c].pc = IF call[c].op \in Searches THEN "read" ELSE "write", ![c].tick = 0]
  /\ UNCHANGED <<collections, tick_counter, inner>>

(* A collection enters the map under a new allocation.                     *)
NewGuard(n) ==
  [name |-> n, pinned |-> n \in Pinned, last_accessed |-> NextTick, count |-> 0]

(* Mutation: a caller that finds the collection created looks it up again. *)
AutoCreateFound_Retry(c) ==
  /\ At(c, "autocreate")
  /\ Entered(outer, c)
  /\ collections[call[c].name] # None
  /\ outer' = Unlocked
  /\ Goto(c, "lookup")
  /\ UNCHANGED <<collections, guards, tick_counter, inner>>

(* The auto-create path, under the outer write lock: another caller may    *)
(* have created the collection since the lookup, and then that one is      *)
(* used.                                                                   *)
AutoCreateFound(c) ==
  LET g == collections[call[c].name]
  IN  /\ At(c, "autocreate")
      /\ Entered(outer, c)
      /\ g # None
      /\ tick_counter' = NextTick
      /\ guards' = [guards EXCEPT ![g].last_accessed = NextTick]
      /\ outer' = Unlocked
      /\ call' = [call EXCEPT ![c].pc = "write", ![c].held = g]
      /\ UNCHANGED <<collections, inner>>

(* Mutation: the collection is made without the second look.               *)
AutoCreate_NoRecheck(c) ==
  /\ At(c, "autocreate")
  /\ Entered(outer, c)
  /\ LET g == Min(Unallocated)
     IN  /\ guards' = [guards EXCEPT ![g] = NewGuard(call[c].name)]
         /\ collections' = [collections EXCEPT ![call[c].name] = g]
         /\ call' = [call EXCEPT ![c].pc = "write", ![c].held = g]
  /\ tick_counter' = NextTick
  /\ outer' = Unlocked
  /\ UNCHANGED inner

AutoCreate(c) ==
  /\ At(c, "autocreate")
  /\ Entered(outer, c)
  /\ collections[call[c].name] = None
  /\ LET g == Min(Unallocated)
     IN  /\ guards' = [guards EXCEPT ![g] = NewGuard(call[c].name)]
         /\ collections' = [collections EXCEPT ![call[c].name] = g]
         /\ call' = [call EXCEPT ![c].pc = "write", ![c].held = g]
  /\ tick_counter' = NextTick
  /\ outer' = Unlocked
  /\ UNCHANGED inner

-----------------------------------------------------------------------------
(* Mutation: a document is embedded with the collection locked.            *)
ClaimInner_EmbedInside(c) ==
  LET g == call[c].held
  IN  /\ At(c, "write")
      /\ CanClaim(inner[g])
      /\ inner' = [inner EXCEPT ![g] = Claimed(@, c)]
      /\ Goto(c, IF call[c].op = "index_document" THEN "embed" ELSE "mutate")
      /\ UNCHANGED <<collections, guards, tick_counter, outer>>

(* The rest of a write call: index_vector, delete, clear, rebuild_index.   *)
(* The collection locked is the one looked up, whatever the map says now.  *)
ClaimInner(c) ==
  LET g == call[c].held
  IN  /\ At(c, "write")
      /\ CanClaim(inner[g])
      /\ inner' = [inner EXCEPT ![g] = Claimed(@, c)]
      /\ Goto(c, "mutate")
      /\ UNCHANGED <<collections, guards, tick_counter, outer>>

(* Mutation: the used bytes are recomputed before the write lock is given  *)
(* back.                                                                   *)
Mutate_RecomputeInside(c) ==
  LET g == call[c].held
  IN  /\ At(c, "mutate")
      /\ Entered(inner[g], c)
      /\ Goto(c, "recompute")
      /\ \E count \in Outcomes(call[c].op, guards[g].count) :
           guards' = [guards EXCEPT ![g].count = count]
      /\ UNCHANGED <<collections, tick_counter, outer, inner>>

Mutate(c) ==
  LET g == call[c].held
  IN  /\ At(c, "mutate")
      /\ Entered(inner[g], c)
      /\ inner' = [inner EXCEPT ![g] = Unlocked]
      /\ Return(c)
      /\ \E count \in Outcomes(call[c].op, guards[g].count) :
           guards' = Collected([guards EXCEPT ![g].count = count], collections, call')
      /\ UNCHANGED <<collections, tick_counter, outer>>

(* The rest of a search, under the inner read lock.                        *)
StartSearch(c) ==
  LET g == call[c].held
  IN  /\ At(c, "read")
      /\ CanRead(inner[g])
      /\ inner' = [inner EXCEPT ![g] = AddReader(@, c)]
      /\ Goto(c, "reading")
      /\ UNCHANGED <<collections, guards, tick_counter, outer>>

FinishSearch(c) ==
  /\ At(c, "reading")
  /\ inner' = [inner EXCEPT ![call[c].held] = RemoveReader(@, c)]
  /\ Return(c)
  /\ guards' = Collected(guards, collections, call')
  /\ UNCHANGED <<collections, tick_counter, outer>>

-----------------------------------------------------------------------------
(* create_collection, drop_collection and the removal step of eviction,    *)
(* each under the outer write lock.                                        *)
ClaimOuter(c) ==
  /\ call[c].pc \in {"autocreate", "create", "drop", "remove"}
  /\ CanClaim(outer)
  /\ outer' = Claimed(outer, c)
  /\ UNCHANGED <<collections, guards, tick_counter, inner, call>>

(* Mutation: a collection that exists is replaced.                         *)
CreateCollection_Overwrites(c) ==
  /\ At(c, "create")
  /\ Entered(outer, c)
  /\ LET g == Min(Unallocated)
     IN  /\ collections' = [collections EXCEPT ![call[c].name] = g]
         /\ Return(c)
         /\ guards' = Collected([guards EXCEPT ![g] = NewGuard(call[c].name)], collections', call')
  /\ tick_counter' = NextTick
  /\ outer' = Unlocked
  /\ UNCHANGED inner

CreateCollection(c) ==
  /\ At(c, "create")
  /\ Entered(outer, c)
  /\ IF collections[call[c].name] = None
       THEN LET g == Min(Unallocated)
            IN  /\ guards' = [guards EXCEPT ![g] = NewGuard(call[c].name)]
                /\ collections' = [collections EXCEPT ![call[c].name] = g]
                /\ tick_counter' = NextTick
       ELSE UNCHANGED <<guards, collections, tick_counter>>
  /\ outer' = Unlocked
  /\ Return(c)
  /\ UNCHANGED inner

(* Removing a name leaves the allocation to the callers that still hold    *)
(* it.                                                                     *)
DropCollection(c) ==
  /\ At(c, "drop")
  /\ Entered(outer, c)
  /\ collections' = [collections EXCEPT ![call[c].name] = None]
  /\ outer' = Unlocked
  /\ Return(c)
  /\ guards' = Collected(guards, collections', call')
  /\ UNCHANGED <<tick_counter, inner>>

-----------------------------------------------------------------------------
(* snapshot and recompute_used_bytes (whose total is also stored in        *)
(* used_bytes, which no call reads) both walk over every collection with   *)
(* the outer read lock held throughout and each inner read lock in turn.   *)
Walks == {"snapshot", "recompute"}

(* Mutation: the total is added to the last one.                           *)
StartWalk_AddsUp(c) ==
  /\ call[c].pc \in Walks
  /\ c \notin outer.readers
  /\ CanRead(outer)
  /\ outer' = AddReader(outer, c)
  /\ call' = [call EXCEPT ![c].todo = Live]
  /\ UNCHANGED <<collections, guards, tick_counter, inner>>

StartWalk(c) ==
  /\ call[c].pc \in Walks
  /\ c \notin outer.readers
  /\ CanRead(outer)
  /\ outer' = AddReader(outer, c)
  /\ call' = [call EXCEPT ![c].todo = Live, ![c].total = 0]
  /\ UNCHANGED <<collections, guards, tick_counter, inner>>

(* approx_bytes of one collection: the inner lock is taken and given back. *)
Weigh(c, g) ==
  /\ call[c].pc \in Walks
  /\ g \in call[c].todo
  /\ CanRead(inner[g])
  /\ call' = [call EXCEPT ![c].todo = @ \ {g}, ![c].total = @ + guards[g].count]
  /\ UNCHANGED <<collections, guards, tick_counter, outer, inner>>

Walked(c, pc) == At(c, pc) /\ c \in outer.readers /\ call[c].todo = {}

(* list_collections is done after the snapshot; stats, and memory, go on   *)
(* to recompute, the outer lock free in between.                           *)
FinishSnapshot(c) ==
  /\ Walked(c, "snapshot")
  /\ outer' = RemoveReader(outer, c)
  /\ IF call[c].op = "list"
       THEN Return(c)
       ELSE call' = [call EXCEPT ![c].pc = "recompute", ![c].listed = call[c].total]
  /\ UNCHANGED <<collections, guards, tick_counter, inner>>

FinishRecompute(c) ==
  /\ Walked(c, "recompute")
  /\ outer' = RemoveReader(outer, c)
  /\ IF call[c].op = "evict" /\ call[c].total > limit_bytes
       THEN call' = [call EXCEPT ![c].pc = "pick", ![c].total = 0]
       ELSE Return(c)
  /\ UNCHANGED <<collections, guards, tick_counter, inner>>

-----------------------------------------------------------------------------
(* Mutation: pinned collections are candidates too.                        *)
Candidates_Pinned == {n \in Name : collections[n] # None}

(* evict_until_under_budget: the victim is picked under the outer read     *)
(* lock, which is given back before the outer write lock is asked for.     *)
Candidates == {n \in Name : collections[n] # None /\ ~guards[collections[n]].pinned}

StartPick(c) ==
  /\ At(c, "pick")
  /\ c \notin outer.readers
  /\ CanRead(outer)
  /\ outer' = AddReader(outer, c)
  /\ call' = [call EXCEPT ![c].todo = {collections[n] : n \in Candidates}]
  /\ UNCHANGED <<collections, guards, tick_counter, inner>>

(* The ticks are read one at a time, while lookups may store new ones; the *)
(* frame keeps the smallest that was read and whose it was.                *)
Inspect(c, n) ==
  LET g == collections[n]
  IN  /\ At(c, "pick")
      /\ g \in call[c].todo
      /\ IF call[c].name = None \/ guards[g].last_accessed < call[c].tick
           THEN call' = [call EXCEPT ![c].todo = @ \ {g}, ![c].name = n,
                                     ![c].tick = guards[g].last_accessed]
           ELSE call' = [call EXCEPT ![c].todo = @ \ {g}]
      /\ UNCHANGED <<collections, guards, tick_counter, outer, inner>>

PickVictim(c) ==
  /\ At(c, "pick")
  /\ c \in outer.readers /\ call[c].todo = {}
  /\ outer' = RemoveReader(outer, c)
  /\ IF call[c].name = None
       THEN Return(c)
       ELSE call' = [call EXCEPT ![c].pc = "remove", ![c].tick = 0]
  /\ UNCHANGED <<collections, guards, tick_counter, inner>>

(* Mutation: the total is summed once, before the loop.                    *)
RemoveVictim_OneSum(c) ==
  /\ At(c, "remove")
  /\ Entered(outer, c)
  /\ collections' = [collections EXCEPT ![call[c].name] = None]
  /\ outer' = Unlocked
  /\ call' = [call EXCEPT ![c].pc = "pick", ![c].name = None]
  /\ guards' = Collected(guards, collections', call')
  /\ UNCHANGED <<tick_counter, inner>>

(* Whatever collection has the victim's name now is removed, and the loop  *)
(* starts again.                                                           *)
RemoveVictim(c) ==
  /\ At(c, "remove")
  /\ Entered(outer, c)
  /\ collections' = [collections EXCEPT ![call[c].name] = None]
  /\ outer' = Unlocked
  /\ call' = [call EXCEPT ![c].pc = "recompute", ![c].name = None]
  /\ guards' = Collected(guards, collections', call')
  /\ UNCHANGED <<tick_counter, inner>>

-----------------------------------------------------------------------------
(* The steps a call takes once it has arrived.                             *)
Step(c) ==
  \/ Embed(c) \/ EmbedFails(c)
  \/ Lookup(c) \/ LookupMissing(c) \/ TakeTick(c) \/ Touch(c)
  \/ AutoCreateFound(c) \/ AutoCreate(c)
  \/ ClaimInner(c) \/ Mutate(c) \/ StartSearch(c) \/ FinishSearch(c)
  \/ ClaimOuter(c) \/ CreateCollection(c) \/ DropCollection(c)
  \/ StartWalk(c) \/ (\E g \in Guard : Weigh(c, g)) \/ FinishSnapshot(c) \/ FinishRecompute(c)
  \/ StartPick(c) \/ (\E n \in Name : Inspect(c, n)) \/ PickVictim(c) \/ RemoveVictim(c)

LiveNames == {n \in Name : collections[n] # None}
Weight    == MapThenSumSet(LAMBDA n : guards[collections[n]].count, LiveNames)

(* A report counts from its snapshot, an eviction from its last recompute. *)
Restarts(c) ==
  /\ c \in outer'.readers \ outer.readers
  /\ call[c].pc = IF call[c].op = "stats" THEN "snapshot" ELSE "recompute"

(* The eviction of c removes its victim.                                   *)
Removes(c) == At(c, "remove") /\ call'[c] # call[c]

Observe ==
  shrunk' = {c \in Client : /\ call'[c].op \in {"stats", "evict"}
                            /\ ~ Restarts(c)
                            /\ c \in shrunk \/ (Weight' < Weight /\ ~ Removes(c))}

Next == /\ \E c \in Client :
             \/ \E op \in OpNames, n \in Name \cup {None} : Call(c, op, n)
             \/ Step(c)
        /\ Observe

Spec == Init /\ [][Next]_vars

-----------------------------------------------------------------------------
(* Properties.                                                             *)

PCs == {"idle", "embed", "lookup", "tick", "touch", "autocreate", "write", "mutate", "read",
        "reading", "create", "drop", "snapshot", "recompute", "pick", "remove"}

Lock       == [writer : Client \cup {None}, readers : SUBSET Client]
Allocation == [name : Name \cup {None}, pinned : BOOLEAN,
               last_accessed : 0 .. MaxTick, count : 0 .. MaxCount]
Frame      == [pc : PCs, op : OpNames \cup {"none"}, name : Name \cup {None},
               held : Guard \cup {None}, tick : 0 .. MaxTick,
               todo : SUBSET Guard, total : Nat, listed : Nat]

(* Every variable has its type.                                            *)
TypeOK ==
  /\ collections \in [Name -> Guard \cup {None}]
  /\ guards \in [Guard -> Allocation]
  /\ tick_counter \in 0 .. MaxTick
  /\ outer \in Lock
  /\ inner \in [Guard -> Lock]
  /\ call \in [Client -> Frame]
  /\ shrunk \subseteq Client

(* The clients that a client's next step waits for.                        *)
Holders(lock)   == {lock.writer} \ {None}
WaitsFor(c) ==
  CASE \/ At(c, "lookup")
       \/ call[c].pc \in Walks \cup {"pick"} /\ c \notin outer.readers -> Holders(outer)
    [] call[c].pc \in Walks /\ c \in outer.readers ->
         UNION {Holders(inner[g]) : g \in call[c].todo}
    [] call[c].pc \in {"autocreate", "create", "drop", "remove"} ->
         IF outer.writer = c THEN outer.readers ELSE Holders(outer)
    [] call[c].pc = "write"  -> Holders(inner[call[c].held])
    [] call[c].pc = "mutate" -> inner[call[c].held].readers
    [] call[c].pc = "read"   -> Holders(inner[call[c].held])
    [] OTHER -> {}

(* No group of calls waits on itself: however lookups, writes, walks,      *)
(* creates, drops and evictions meet on the two levels of locks, none of   *)
(* them blocks the others for good.                                        *)
NoWaitCycle ==
  ~ \E group \in (SUBSET Client) \ {{}} : \A c \in group : WaitsFor(c) \cap group # {}

(* c cannot go on before d has: d is in every group that c belongs to and  *)
(* that waits for nobody outside.                                          *)
HeldUpBy(c, d) ==
  \A group \in SUBSET Client :
    (c \in group /\ UNION {WaitsFor(x) : x \in group} \subseteq group) => d \in group

(* "Two clients indexing into different collections never contend": no     *)
(* index call is held up, through others if need be, by an index call that *)
(* is at its write to another collection.                                  *)
IndexersNeverContend ==
  \A c, d \in Client :
    (/\ call[c].op = "index"
     /\ call[d].op = "index" /\ At(d, "mutate")
     /\ call[c].name # call[d].name) => ~HeldUpBy(c, d)

(* A tick is given to one access of one collection, whichever calls race   *)
(* for it, so that eviction's coldest collection is never a tie.           *)
TicksDistinct ==
  \A g, h \in Live : (g # h /\ guards[g].last_accessed < MaxTick) =>
                       guards[g].last_accessed # guards[h].last_accessed

(* The name of its call still leads to the collection that c holds.        *)
Reaches(c) == call[c].held # None /\ collections[call[c].name] = call[c].held

(* What a lookup or an auto-create hands out is what the name leads to,    *)
(* and a call at work on it loses it to a drop or an eviction of that name *)
(* and to nothing else: a write that is acknowledged into a collection     *)
(* which no name reaches, and is lost with it, was overtaken by the        *)
(* removal of the collection it was meant for (database.rs:226-281).       *)
OrphanedByRemovalOnly ==
  [][\A c \in Client :
       (call'[c].held # None /\ (call[c].held = None \/ Reaches(c))) =>
         \/ Reaches(c)'
         \/ \E d \in Client : /\ call[d].pc \in {"drop", "remove"} /\ call'[d] # call[d]
                               /\ call[d].name = call[c].name]_vars

(* A pinned collection leaves the map by a drop call for it and never by   *)
(* an eviction.                                                            *)
PinnedNeverEvicted ==
  [][\A n \in Pinned :
       (collections[n] # None /\ collections'[n] # collections[n]) =>
         \E c \in Client : call[c].op = "drop" /\ call[c].name = n]_vars

(* Unless others took documents away meanwhile, an eviction only removes a *)
(* collection while the database is over its budget, although the total is *)
(* summed collection by collection under concurrent writes and the victim  *)
(* is picked and removed later (database.rs:343-369).  A database that     *)
(* fills its budget exactly is not over it: the code stops at              *)
(* used <= limit_bytes, where its comment says used_bytes < limit_bytes.   *)
EvictsOnlyOverBudget ==
  [][\A c \in Client :
       (/\ call[c].op = "evict" /\ c \notin shrunk
        /\ collections' # collections /\ call'[c] # call[c])
         => Weight > limit_bytes]_vars

(* Unless documents went away meanwhile, the total that stats reports is   *)
(* at least the sum of the collections it lists beside it, which another   *)
(* walk counted earlier, and no more than what is there when it answers    *)
(* (mcp/mod.rs:570-576).                                                   *)
StatsBracketed ==
  \A c \in Client :
    (call[c].op = "stats" /\ Walked(c, "recompute") /\ c \notin shrunk) =>
      call[c].listed <= call[c].total /\ call[c].total <= Weight

(* The embedding of a text, by far the longest step of any call, holds     *)
(* nobody up: not a write or a search of the same collection, and not a    *)
(* create or a report that others would then queue behind                  *)
(* (mcp/mod.rs:186-202, 316-330).                                          *)
EmbeddingHoldsUpNobody ==
  \A c, d \in Client : (c # d /\ At(c, "embed")) => ~ HeldUpBy(d, c)

(* "Soft per-process memory cap; triggers LRU eviction of unpinned         *)
(* collections": when every call has been answered and the database is     *)
(* over its budget, only pinned collections are left.                      *)
CapTriggersEviction ==
  (\A c \in Client : At(c, "idle")) =>
    (Weight > limit_bytes => \A n \in LiveNames : guards[collections[n]].pinned)

-----------------------------------------------------------------------------
(* The locks taken away, the database is the map of collections it         *)
(* replaced: each call changes one name at one moment or nothing at all.   *)
mapBar == [n \in LiveNames |->
             [id |-> collections[n], count |-> guards[collections[n]].count]]

Offered == Writes \cap UNION {Ops[c] : c \in Client}
AnyOutcome(count) == UNION {Outcomes(op, count) : op \in Offered}

M == INSTANCE CollectionMap
       WITH collections <- mapBar, Id <- Guard, Outcomes <- AnyOutcome

(* Every step of the locked, shared database is one create, drop or update *)
(* of the map behind a single lock or leaves it unchanged: of racing       *)
(* auto-creates one makes the collection and the others find it, and a     *)
(* write to a dropped collection never reaches its successor               *)
(* (database.rs:226-258, collections.rs:84-86).                            *)
ImplementsCollectionMap == M!Spec
=============================================================================
