----------------------- MODULE NanoVecDatabaseProofs -----------------------
(***************************************************************************)
(* Proofs about NanoVecDatabase for any number of clients and names, and,  *)
(* at the end, about Server: what holds of the database holds of it in a   *)
(* process that starts, serves any number of sessions and is shut down,    *)
(* and no handler runs outside the process's time of service.              *)
(***************************************************************************)
EXTENDS Server, SearchLemmas

(* A set of natural numbers that is not empty has a smallest member.       *)
LEMMA MinMember ==
  ASSUME NEW S \in SUBSET Nat, S # {}
  PROVE  Min(S) \in S /\ \A y \in S : Min(S) <= y
  BY Least DEF Min

(* An allocation does not fail: while a caller that holds no guard adds a  *)
(* name that is missing, the map and the other callers reach at most       *)
(* |Name| + |Client| - 2 allocations.                                      *)
LEMMA AllocationSucceeds ==
  ASSUME TypeOK, NEW c \in Client, call[c].held = None,
         NEW n \in Name, collections[n] = None
  PROVE  Min(Unallocated) \in Unallocated
  <1> DEFINE held == [d \in Client |-> call[d].held]
             mapped == {collections[m] : m \in Name}
             kept == {held[d] : d \in Client}
             used == (mapped \ {None}) \cup (kept \ {None})
  <1>1. /\ IsFiniteSet(mapped) /\ Cardinality(mapped) <= Cardinality(Name)
        /\ IsFiniteSet(kept) /\ Cardinality(kept) <= Cardinality(Client)
    <2>1. collections \in Surjection(Name, mapped)
      BY DEF TypeOK, Surjection
    <2>2. held \in Surjection(Client, kept)
      BY DEF Surjection
    <2>3. IsFiniteSet(Name) /\ IsFiniteSet(Client)
      BY SpaceAssumption
    <2> HIDE DEF held, mapped, kept
    <2>4. IsFiniteSet(mapped) /\ Cardinality(mapped) <= Cardinality(Name)
      BY <2>1, <2>3, FS_Surjection
    <2>5. IsFiniteSet(kept) /\ Cardinality(kept) <= Cardinality(Client)
      BY <2>2, <2>3, FS_Surjection
    <2>6. QED
      BY <2>4, <2>5
  <1>2. None \in mapped /\ None \in kept
    OBVIOUS
  <1>3. Unallocated = Guard \ used
    BY GuardAssumption DEF Unallocated, Reachable
  <1> HIDE DEF mapped, kept
  <1>4. /\ IsFiniteSet(used)
        /\ Cardinality(used) <= Cardinality(Name) + Cardinality(Client) - 2
    <2>1. /\ IsFiniteSet(mapped \ {None})
          /\ Cardinality(mapped \ {None}) = Cardinality(mapped) - 1
      BY <1>1, <1>2, FS_RemoveElement
    <2>2. /\ IsFiniteSet(kept \ {None})
          /\ Cardinality(kept \ {None}) = Cardinality(kept) - 1
      BY <1>1, <1>2, FS_RemoveElement
    <2> DEFINE A == mapped \ {None}
               B == kept \ {None}
    <2>3. /\ Cardinality(mapped) \in Nat /\ Cardinality(kept) \in Nat
          /\ Cardinality(Name) \in Nat /\ Cardinality(Client) \in Nat
      BY <1>1, SpaceAssumption, FS_CardinalityType
    <2> HIDE DEF A, B
    <2>4. /\ IsFiniteSet(A \cup B) /\ IsFiniteSet(A \cap B)
          /\ Cardinality(A \cup B) = Cardinality(A) + Cardinality(B) - Cardinality(A \cap B)
      BY <2>1, <2>2, FS_Union, FS_Intersection DEF A, B
    <2>5. Cardinality(A \cap B) \in Nat
      BY <2>4, FS_CardinalityType
    <2>6. Cardinality(A) = Cardinality(mapped) - 1 /\ Cardinality(B) = Cardinality(kept) - 1
      BY <2>1, <2>2 DEF A, B
    <2>7. Cardinality(A \cup B) <= Cardinality(Name) + Cardinality(Client) - 2
      BY <1>1, <2>3, <2>4, <2>5, <2>6
    <2>8. QED
      BY <2>4, <2>7 DEF A, B
  <1> HIDE DEF used
  <1>5. ~ (Guard \subseteq used)
    <2>1. SUFFICES ASSUME Guard \subseteq used PROVE FALSE
      OBVIOUS
    <2>2. IsFiniteSet(Guard) /\ Cardinality(Guard) <= Cardinality(used)
      BY <1>4, <2>1, FS_Subset
    <2>3. /\ Cardinality(Guard) \in Nat /\ Cardinality(used) \in Nat
          /\ Cardinality(Name) \in Nat /\ Cardinality(Client) \in Nat
      BY <1>4, <2>2, SpaceAssumption, FS_CardinalityType
    <2>4. QED
      BY <1>4, <2>2, <2>3, SpaceAssumption
  <1>6. Unallocated \in SUBSET Nat /\ Unallocated # {}
    BY <1>3, <1>5, GuardAssumption
  <1>7. QED
    BY <1>6, MinMember

-----------------------------------------------------------------------------
(* The inductive invariant.                                                *)

(* What a frame holds at each point of its call: the name it was given,    *)
(* the Arc from the lookup to the end, a call that can be there.           *)
Holding == {"tick", "touch", "write", "mutate", "read", "reading"}
Naming  == Holding \cup {"embed", "lookup", "autocreate", "create", "drop", "remove"}

FrameOK(f, offered) ==
  /\ f.op \in offered \cup {"none"}
  /\ f.held # None <=> f.pc \in Holding
  /\ f.pc \in Naming => f.name \in Name
  /\ f.pc \in {"embed", "lookup", "tick", "touch"} => f.op \in Writes \cup Searches
  /\ f.pc \in {"autocreate", "write", "mutate"} => f.op \in Writes
  /\ f.pc = "drop" => f.op = "drop"
  /\ f.pc \in Walks \cup {"pick", "remove"} => f.name \notin Pinned

FramesOK == \A c \in Client : FrameOK(call[c], Ops[c])

(* Who is in a lock is at a step that gives it back, and who is at a step  *)
(* that gives a lock back is in it.  A caller between its lookup and its   *)
(* touch keeps the map as it is, so that the name still has the guard.     *)
Claiming == {"autocreate", "create", "drop", "remove"}

OuterOK ==
  /\ \A c \in outer.readers : call[c].pc \in {"tick", "touch", "pick"} \cup Walks
  /\ outer.writer # None => call[outer.writer].pc \in Claiming
  /\ \A c \in Client : call[c].pc \in {"tick", "touch"} =>
       c \in outer.readers /\ collections[call[c].name] = call[c].held

InnerOK ==
  \A g \in Guard, c \in Client :
    /\ inner[g].writer = c  <=> call[c].pc = "mutate"  /\ call[c].held = g
    /\ c \in inner[g].readers <=> call[c].pc = "reading" /\ call[c].held = g

(* A write goes to an allocation made under the name the caller gave, even *)
(* when that name has been dropped and created again since the lookup, and *)
(* a name never maps to the allocation of another.                         *)
NamesAgree ==
  /\ \A c \in Client : call[c].held # None => guards[call[c].held].name = call[c].name
  /\ \A n \in Name : collections[n] # None => guards[collections[n]].name = n

PinsOK ==
  \A n \in Name : collections[n] # None =>
                    (guards[collections[n]].pinned <=> n \in Pinned)

(* The ticks in the map and those about to be stored in it have been       *)
(* issued, and no two of them are the same.                                *)
Differ(t, u) == t < MaxTick => t # u
TicksOK ==
  /\ \A g \in Live : /\ guards[g].last_accessed <= tick_counter
                      /\ \A h \in Live : g # h =>
                           Differ(guards[g].last_accessed, guards[h].last_accessed)
  /\ \A c \in Client : At(c, "touch") =>
       /\ call[c].tick <= tick_counter
       /\ \A g \in Live : Differ(call[c].tick, guards[g].last_accessed)
       /\ \A d \in Client : (At(d, "touch") /\ c # d) => Differ(call[c].tick, call[d].tick)

(* The tick of a pinned collection is not among those a pick has to read.  *)
PicksOK ==
  \A c \in Client : At(c, "pick") =>
    IF c \in outer.readers THEN \A n \in Pinned : collections[n] \notin call[c].todo
                           ELSE call[c].todo = {}

IInv == TypeOK /\ FramesOK /\ OuterOK /\ InnerOK /\ NamesAgree /\ PinsOK /\ TicksOK /\ PicksOK

-----------------------------------------------------------------------------
(* What the last Arc frees is an allocation like any other, and what is    *)
(* still reachable stays as it was.                                        *)
LEMMA CollectedKeeps ==
  ASSUME NEW gs \in [Guard -> Allocation], NEW map, NEW frames
  PROVE  /\ Collected(gs, map, frames) \in [Guard -> Allocation]
         /\ \A g \in Guard : g \in Reachable(map, frames) =>
              Collected(gs, map, frames)[g] = gs[g]
  <1>1. Free \in Allocation
    BY BoundAssumption DEF Free, Allocation
  <1>2. QED
    BY <1>1 DEF Collected

(* The tick that is next, and a new allocation, are in range.              *)
LEMMA NextTickType ==
  ASSUME TypeOK
  PROVE  /\ NextTick \in 0 .. MaxTick
         /\ tick_counter \in 0 .. MaxTick /\ tick_counter <= NextTick
         /\ \A n \in Name : NewGuard(n) \in Allocation
  BY BoundAssumption DEF TypeOK, NextTick, NewGuard, Allocation

(* A write leaves a count in range.                                        *)
LEMMA OutcomesType ==
  ASSUME NEW op \in Writes, NEW count \in 0 .. MaxCount, NEW left \in Outcomes(op, count)
  PROVE  left \in 0 .. MaxCount
  BY BoundAssumption DEF Writes, Indexes, Outcomes

(* The initial state has the invariant.                                    *)
LEMMA InitInvariant == Init => IInv
  <1>1. Idle \in Frame /\ Free \in Allocation /\ Unlocked \in Lock
    BY BoundAssumption DEF Idle, Frame, PCs, Free, Allocation, Unlocked, Lock
  <1> SUFFICES ASSUME Init PROVE IInv
    OBVIOUS
  <1>2. TypeOK
    BY <1>1, BoundAssumption DEF Init, TypeOK
  <1>3. FramesOK
    BY DEF Init, FramesOK, FrameOK, Idle, Holding, Naming, Walks
  <1>4. OuterOK
    BY DEF Init, OuterOK, Idle, Unlocked
  <1>5. InnerOK
    BY GuardAssumption DEF Init, InnerOK, Idle, Unlocked
  <1>6. NamesAgree /\ PinsOK
    BY DEF Init, NamesAgree, PinsOK, Idle
  <1>7. TicksOK
    BY DEF Init, TicksOK, Live, At, Idle
  <1>8. PicksOK
    BY DEF Init, PicksOK, At, Idle
  <1>9. QED
    BY <1>2, <1>3, <1>4, <1>5, <1>6, <1>7, <1>8 DEF IInv

-----------------------------------------------------------------------------
(* The frame of the client that takes a step, after the step: where it is, *)
(* its call, the name, the Arc and the tick.  No other frame changes.      *)
Turn(c, pc, op, name, held, tick) ==
  /\ call' \in [Client -> Frame]
  /\ call'[c].pc = pc     /\ call'[c].op = op     /\ call'[c].name = name
  /\ call'[c].held = held /\ call'[c].tick = tick
  /\ \A d \in Client \ {c} : call'[d] = call[d]

Moves(c, pc, held, tick) == Turn(c, pc, call[c].op, call[c].name, held, tick)
Stays(c, pc) == Turn(c, pc, call[c].op, call[c].name, call[c].held, call[c].tick)
Ends(c)      == Turn(c, "idle", "none", None, None, 0)

(* A step that replaces one frame.                                         *)
LEMMA TurnTo ==
  ASSUME TypeOK, NEW c \in Client, NEW f \in Frame, call' = [call EXCEPT ![c] = f]
  PROVE  Turn(c, f.pc, f.op, f.name, f.held, f.tick)
  BY DEF TypeOK, Turn

(* A call that is answered.                                                *)
LEMMA IdleTurn ==
  ASSUME TypeOK, NEW c \in Client, Return(c)
  PROVE  Ends(c)
  <1>1. Idle \in Frame
    BY BoundAssumption DEF Idle, Frame, PCs
  <1>2. Turn(c, Idle.pc, Idle.op, Idle.name, Idle.held, Idle.tick)
    BY <1>1, TurnTo DEF Return
  <1>3. QED
    BY <1>2 DEF Ends, Idle

(* Both steps that put a new collection into the map allocate it.          *)
LEMMA AllocationStep ==
  ASSUME TypeOK, FramesOK, NEW c \in Client,
         AutoCreate(c) \/ (CreateCollection(c) /\ collections[call[c].name] = None)
  PROVE  /\ Min(Unallocated) \in Guard /\ Min(Unallocated) # None
         /\ Min(Unallocated) \notin Reachable(collections, call)
         /\ call[c].name \in Name
  <1>1. call[c].pc \in {"autocreate", "create"} /\ collections[call[c].name] = None
    BY DEF AutoCreate, CreateCollection, At
  <1>2. call[c].name \in Name /\ call[c].held = None
    BY <1>1 DEF FramesOK, FrameOK, Naming, Holding
  <1>3. Min(Unallocated) \in Unallocated
    BY <1>1, <1>2, AllocationSucceeds
  <1>4. QED
    BY <1>2, <1>3, GuardAssumption DEF Unallocated

(* A touch, and the second look of an auto-create, store a tick in a guard *)
(* and nothing else.                                                       *)
LEMMA TouchedGuard ==
  ASSUME TypeOK, FramesOK, NEW c \in Client, Touch(c) \/ AutoCreateFound(c)
  PROVE  \E g \in Guard, t \in 0 .. MaxTick :
           /\ Touch(c) => g = call[c].held /\ t = call[c].tick
           /\ AutoCreateFound(c) => g = collections[call[c].name] /\ t = NextTick
           /\ guards' \in [Guard -> Allocation] /\ guards'[g].last_accessed = t
           /\ \A h \in Guard \ {g} : guards'[h] = guards[h]
           /\ \A h \in Guard : /\ guards'[h].name = guards[h].name
                               /\ guards'[h].pinned = guards[h].pinned
                               /\ guards'[h].count = guards[h].count
  <1>1. /\ guards \in [Guard -> Allocation] /\ NextTick \in 0 .. MaxTick
        /\ call[c].held \in Guard \cup {None} /\ call[c].tick \in 0 .. MaxTick
        /\ collections \in [Name -> Guard \cup {None}] /\ FrameOK(call[c], Ops[c])
    <2>1. call[c] \in Frame
      BY DEF TypeOK
    <2>2. QED
      BY <2>1, NextTickType DEF TypeOK, FramesOK, Frame
  <1>2. ~ (Touch(c) /\ AutoCreateFound(c))
    BY DEF Touch, AutoCreateFound, At
  <1>3. PICK g \in Guard, t \in 0 .. MaxTick :
          /\ Touch(c) => g = call[c].held /\ t = call[c].tick
          /\ AutoCreateFound(c) => g = collections[call[c].name] /\ t = NextTick
          /\ guards' = [guards EXCEPT ![g].last_accessed = t]
    <2>1. CASE Touch(c)
      BY <1>1, <1>2, <2>1 DEF Touch, At, FrameOK, Holding
    <2>2. CASE AutoCreateFound(c)
      BY <1>1, <1>2, <2>2 DEF AutoCreateFound, At, FrameOK, Naming
    <2>3. QED
      BY <2>1, <2>2
  <1>4. /\ guards' \in [Guard -> Allocation] /\ guards'[g].last_accessed = t
        /\ \A h \in Guard \ {g} : guards'[h] = guards[h]
        /\ \A h \in Guard : /\ guards'[h].name = guards[h].name
                            /\ guards'[h].pinned = guards[h].pinned
                            /\ guards'[h].count = guards[h].count
    BY <1>1, <1>3 DEF Allocation
  <1>5. QED
    BY <1>3, <1>4

(* A write changes the count of the allocation that the caller holds, and  *)
(* of those still reachable nothing else.                                  *)
LEMMA WrittenGuard ==
  ASSUME TypeOK, FramesOK, NEW c \in Client, Mutate(c)
  PROVE  /\ call[c].held \in Guard /\ call[c].op \in Writes /\ call[c].op \in Ops[c]
         /\ collections' = collections /\ guards' \in [Guard -> Allocation]
         /\ \E count \in Outcomes(call[c].op, guards[call[c].held].count) :
              \A h \in Guard : h \in Reachable(collections, call') =>
                /\ guards'[h].name = guards[h].name
                /\ guards'[h].pinned = guards[h].pinned
                /\ guards'[h].last_accessed = guards[h].last_accessed
                /\ guards'[h].count = IF h = call[c].held THEN count ELSE guards[h].count
  <1> DEFINE g == call[c].held
  <1>1. g \in Guard /\ call[c].op \in Writes /\ call[c].op \in Ops[c]
    <2>1. call[c] \in Frame /\ FrameOK(call[c], Ops[c])
      BY DEF TypeOK, FramesOK
    <2>2. QED
      BY <2>1 DEF Mutate, At, FrameOK, Holding, Frame, Writes, Indexes
  <1>2. PICK count \in Outcomes(call[c].op, guards[g].count) :
          guards' = Collected([guards EXCEPT ![g].count = count], collections, call')
    BY DEF Mutate
  <1>3. count \in 0 .. MaxCount
    BY <1>1, OutcomesType DEF TypeOK, Allocation
  <1> DEFINE gs == [guards EXCEPT ![g].count = count]
  <1>4. /\ gs \in [Guard -> Allocation] /\ guards' = Collected(gs, collections, call')
        /\ \A h \in Guard : /\ gs[h].name = guards[h].name /\ gs[h].pinned = guards[h].pinned
                            /\ gs[h].last_accessed = guards[h].last_accessed
                            /\ gs[h].count = IF h = g THEN count ELSE guards[h].count
    BY <1>1, <1>2, <1>3 DEF TypeOK, Allocation
  <1> HIDE DEF gs
  <1>5. /\ guards' \in [Guard -> Allocation]
        /\ \A h \in Guard : h \in Reachable(collections, call') => guards'[h] = gs[h]
    BY <1>4, CollectedKeeps
  <1>6. collections' = collections
    BY DEF Mutate
  <1>7. QED
    BY <1>1, <1>4, <1>5, <1>6

(* Where each step takes the client that takes it.                         *)
LEMMA Turns ==
  ASSUME TypeOK, FramesOK, NEW c \in Client
  PROVE  /\ \A op \in OpNames, n \in Name \cup {None} :
              Call(c, op, n) => Turn(c, FirstStep(op), op, n, None, 0)
         /\ Embed(c) => Stays(c, "lookup")
         /\ EmbedFails(c) => Ends(c)
         /\ Lookup(c) => Moves(c, "tick", collections[call[c].name], call[c].tick)
         /\ LookupMissing(c) => Ends(c) \/ (call[c].op \in Writes /\ Stays(c, "autocreate"))
         /\ TakeTick(c) => Moves(c, "touch", call[c].held, NextTick)
         /\ Touch(c) => Moves(c, IF call[c].op \in Searches THEN "read" ELSE "write",
                              call[c].held, 0)
         /\ AutoCreateFound(c) => Moves(c, "write", collections[call[c].name], call[c].tick)
         /\ AutoCreate(c) => Moves(c, "write", Min(Unallocated), call[c].tick)
         /\ ClaimInner(c) => Stays(c, "mutate")
         /\ Mutate(c) => Ends(c)
         /\ StartSearch(c) => Stays(c, "reading")
         /\ FinishSearch(c) => Ends(c)
         /\ ClaimOuter(c) => Stays(c, call[c].pc)
         /\ CreateCollection(c) => Ends(c)
         /\ DropCollection(c) => Ends(c)
         /\ StartWalk(c) => Stays(c, call[c].pc)
         /\ \A g \in Guard : Weigh(c, g) => Stays(c, call[c].pc)
         /\ FinishSnapshot(c) => Ends(c) \/ Stays(c, "recompute")
         /\ FinishRecompute(c) => Ends(c) \/ (call[c].op = "evict" /\ Stays(c, "pick"))
         /\ StartPick(c) => Stays(c, "pick")
         /\ \A n \in Name : Inspect(c, n) =>
              \/ Stays(c, "pick")
              \/ /\ collections[n] \in call[c].todo
                 /\ Turn(c, "pick", call[c].op, n, call[c].held,
                         guards[collections[n]].last_accessed)
         /\ PickVictim(c) => Ends(c) \/ (call[c].name # None /\ Moves(c, "remove", call[c].held, 0))
         /\ RemoveVictim(c) => Turn(c, "recompute", call[c].op, None, call[c].held, call[c].tick)
  <1>1. call[c] \in Frame /\ FrameOK(call[c], Ops[c])
    BY DEF TypeOK, FramesOK
  <1>2. ASSUME NEW op \in OpNames, NEW n \in Name \cup {None}, Call(c, op, n)
        PROVE  Turn(c, FirstStep(op), op, n, None, 0)
    <2> DEFINE f == [Idle EXCEPT !.pc = FirstStep(op), !.op = op, !.name = n]
    <2>1. call' = [call EXCEPT ![c] = f]
      BY <1>2 DEF Call
    <2>2. FirstStep(op) \in PCs
      BY <1>2 DEF FirstStep, OpNames, Writes, Indexes, Searches, PCs
    <2>3. f \in Frame
      <3>1. Idle \in Frame
        BY BoundAssumption DEF Idle, Frame, PCs
      <3>2. QED
        BY <2>2, <3>1 DEF Frame
    <2>4. Turn(c, f.pc, f.op, f.name, f.held, f.tick)
      <3> HIDE DEF f
      <3>1. QED
        BY <2>1, <2>3, TurnTo
    <2>5. QED
      BY <2>4 DEF Idle
  <1>3. ASSUME Embed(c)
        PROVE  Stays(c, "lookup")
    <2> DEFINE f == [call[c] EXCEPT !.pc = "lookup"]
    <2>1. call' = [call EXCEPT ![c] = f]
      BY <1>3 DEF Embed, Goto
    <2>2. f \in Frame
      BY <1>1, <1>3 DEF Frame, PCs
    <2>3. Turn(c, f.pc, f.op, f.name, f.held, f.tick)
      <3> HIDE DEF f
      <3>1. QED
        BY <2>1, <2>2, TurnTo
    <2>4. QED
      BY <1>1, <2>3 DEF Stays, Frame
  <1>4. ASSUME EmbedFails(c)
        PROVE  Ends(c)
    BY <1>4, IdleTurn DEF EmbedFails
  <1>5. ASSUME Lookup(c)
        PROVE  Moves(c, "tick", collections[call[c].name], call[c].tick)
    <2> DEFINE f == [call[c] EXCEPT !.pc = "tick", !.held = collections[call[c].name]]
    <2>0. collections[call[c].name] \in Guard
      BY <1>1, <1>5 DEF Lookup, At, TypeOK, FrameOK, Naming, Holding
    <2>1. call' = [call EXCEPT ![c] = f]
      BY <1>5 DEF Lookup
    <2>2. f \in Frame
      BY <1>1, <1>5, <2>0 DEF Frame, PCs
    <2>3. Turn(c, f.pc, f.op, f.name, f.held, f.tick)
      <3> HIDE DEF f
      <3>1. QED
        BY <2>1, <2>2, TurnTo
    <2>4. QED
      BY <1>1, <2>3 DEF Moves, Frame
  <1>6. ASSUME LookupMissing(c)
        PROVE  Ends(c) \/ (call[c].op \in Writes /\ Stays(c, "autocreate"))
    <2>1. CASE call[c].op \in Writes /\ call[c].name \in Pinned
      <3> DEFINE f == [call[c] EXCEPT !.pc = "autocreate"]
      <3>1. call' = [call EXCEPT ![c] = f]
        BY <1>6, <2>1 DEF LookupMissing, Goto
      <3>2. f \in Frame
        BY <1>1 DEF Frame, PCs
      <3>3. Turn(c, f.pc, f.op, f.name, f.held, f.tick)
        <4> HIDE DEF f
        <4>1. QED
          BY <3>1, <3>2, TurnTo
      <3>4. QED
        BY <1>1, <2>1, <3>3 DEF Stays, Frame
    <2>2. CASE ~ (call[c].op \in Writes /\ call[c].name \in Pinned)
      BY <1>6, <2>2, IdleTurn DEF LookupMissing
    <2>3. QED
      BY <2>1, <2>2
  <1>7. ASSUME TakeTick(c)
        PROVE  Moves(c, "touch", call[c].held, NextTick)
    <2> DEFINE f == [call[c] EXCEPT !.pc = "touch", !.tick = NextTick]
    <2>1. call' = [call EXCEPT ![c] = f]
      BY <1>7 DEF TakeTick
    <2>2. f \in Frame
      BY <1>1, <1>7, NextTickType DEF Frame, PCs
    <2>3. Turn(c, f.pc, f.op, f.name, f.held, f.tick)
      <3> HIDE DEF f
      <3>1. QED
        BY <2>1, <2>2, TurnTo
    <2>4. QED
      BY <1>1, <2>3 DEF Moves, Frame
  <1>8. ASSUME Touch(c)
        PROVE  Moves(c, IF call[c].op \in Searches THEN "read" ELSE "write", call[c].held, 0)
    <2> DEFINE f == [call[c] EXCEPT !.tick = 0,
                                    !.pc = IF call[c].op \in Searches THEN "read" ELSE "write"]
    <2>1. call' = [call EXCEPT ![c] = f]
      BY <1>8 DEF Touch
    <2>2. f \in Frame
      <3>1. 0 \in 0 .. MaxTick /\ {"read", "write"} \subseteq PCs
        BY BoundAssumption DEF PCs
      <3>2. QED
        BY <1>1, <3>1 DEF Frame
    <2>3. Turn(c, f.pc, f.op, f.name, f.held, f.tick)
      <3> HIDE DEF f
      <3>1. QED
        BY <2>1, <2>2, TurnTo
    <2>4. QED
      BY <1>1, <2>3 DEF Moves, Frame
  <1>9. ASSUME AutoCreateFound(c)
        PROVE  Moves(c, "write", collections[call[c].name], call[c].tick)
    <2> DEFINE f == [call[c] EXCEPT !.pc = "write", !.held = collections[call[c].name]]
    <2>0. collections[call[c].name] \in Guard
      BY <1>1, <1>9 DEF AutoCreateFound, At, TypeOK, FrameOK, Naming, Holding
    <2>1. call' = [call EXCEPT ![c] = f]
      BY <1>9 DEF AutoCreateFound
    <2>2. f \in Frame
      BY <1>1, <1>9, <2>0 DEF Frame, PCs
    <2>3. Turn(c, f.pc, f.op, f.name, f.held, f.tick)
      <3> HIDE DEF f
      <3>1. QED
        BY <2>1, <2>2, TurnTo
    <2>4. QED
      BY <1>1, <2>3 DEF Moves, Frame
  <1>10. ASSUME AutoCreate(c)
        PROVE  Moves(c, "write", Min(Unallocated), call[c].tick)
    <2> DEFINE f == [call[c] EXCEPT !.pc = "write", !.held = Min(Unallocated)]
    <2>0. Min(Unallocated) \in Guard
      BY <1>10, AllocationStep
    <2>1. call' = [call EXCEPT ![c] = f]
      BY <1>10 DEF AutoCreate
    <2>2. f \in Frame
      BY <1>1, <1>10, <2>0 DEF Frame, PCs
    <2>3. Turn(c, f.pc, f.op, f.name, f.held, f.tick)
      <3> HIDE DEF f
      <3>1. QED
        BY <2>1, <2>2, TurnTo
    <2>4. QED
      BY <1>1, <2>3 DEF Moves, Frame
  <1>11. ASSUME ClaimInner(c)
        PROVE  Stays(c, "mutate")
    <2> DEFINE f == [call[c] EXCEPT !.pc = "mutate"]
    <2>1. call' = [call EXCEPT ![c] = f]
      BY <1>11 DEF ClaimInner, Goto
    <2>2. f \in Frame
      BY <1>1, <1>11 DEF Frame, PCs
    <2>3. Turn(c, f.pc, f.op, f.name, f.held, f.tick)
      <3> HIDE DEF f
      <3>1. QED
        BY <2>1, <2>2, TurnTo
    <2>4. QED
      BY <1>1, <2>3 DEF Stays, Frame
  <1>12. ASSUME Mutate(c)
        PROVE  Ends(c)
    BY <1>12, IdleTurn DEF Mutate
  <1>13. ASSUME StartSearch(c)
        PROVE  Stays(c, "reading")
    <2> DEFINE f == [call[c] EXCEPT !.pc = "reading"]
    <2>1. call' = [call EXCEPT ![c] = f]
      BY <1>13 DEF StartSearch, Goto
    <2>2. f \in Frame
      BY <1>1, <1>13 DEF Frame, PCs
    <2>3. Turn(c, f.pc, f.op, f.name, f.held, f.tick)
      <3> HIDE DEF f
      <3>1. QED
        BY <2>1, <2>2, TurnTo
    <2>4. QED
      BY <1>1, <2>3 DEF Stays, Frame
  <1>14. ASSUME FinishSearch(c)
        PROVE  Ends(c)
    BY <1>14, IdleTurn DEF FinishSearch
  <1>15. ASSUME ClaimOuter(c)
        PROVE  Stays(c, call[c].pc)
    BY <1>1, <1>15 DEF ClaimOuter, TypeOK, Stays, Turn
  <1>16. ASSUME CreateCollection(c)
        PROVE  Ends(c)
    BY <1>16, IdleTurn DEF CreateCollection
  <1>17. ASSUME DropCollection(c)
        PROVE  Ends(c)
    BY <1>17, IdleTurn DEF DropCollection
  <1>18. ASSUME StartWalk(c)
        PROVE  Stays(c, call[c].pc)
    <2> DEFINE f == [call[c] EXCEPT !.todo = Live, !.total = 0]
    <2>1. call' = [call EXCEPT ![c] = f]
      BY <1>18 DEF StartWalk
    <2>2. f \in Frame
      <3>1. Live \in SUBSET Guard
        BY DEF Live, TypeOK
      <3>2. QED
        BY <1>1, <3>1 DEF Frame
    <2>3. Turn(c, f.pc, f.op, f.name, f.held, f.tick)
      <3> HIDE DEF f
      <3>1. QED
        BY <2>1, <2>2, TurnTo
    <2>4. QED
      BY <1>1, <2>3 DEF Stays, Frame
  <1>19. ASSUME NEW g \in Guard, Weigh(c, g)
        PROVE  Stays(c, call[c].pc)
    <2> DEFINE f == [call[c] EXCEPT !.todo = @ \ {g}, !.total = @ + guards[g].count]
    <2>1. call' = [call EXCEPT ![c] = f]
      BY <1>19 DEF Weigh
    <2>2. f \in Frame
      <3>1. call[c].total + guards[g].count \in Nat
        BY <1>1, BoundAssumption DEF TypeOK, Frame, Allocation
      <3>2. QED
        BY <1>1, <3>1 DEF Frame
    <2>3. Turn(c, f.pc, f.op, f.name, f.held, f.tick)
      <3> HIDE DEF f
      <3>1. QED
        BY <2>1, <2>2, TurnTo
    <2>4. QED
      BY <1>1, <2>3 DEF Stays, Frame
  <1>20. ASSUME FinishSnapshot(c)
        PROVE  Ends(c) \/ Stays(c, "recompute")
    <2>1. CASE call[c].op = "list"
      BY <1>20, <2>1, IdleTurn DEF FinishSnapshot
    <2>2. CASE call[c].op # "list"
      <3> DEFINE f == [call[c] EXCEPT !.pc = "recompute", !.listed = call[c].total]
      <3>1. call' = [call EXCEPT ![c] = f]
        BY <1>20, <2>2 DEF FinishSnapshot, Goto
      <3>2. f \in Frame
        BY <1>1 DEF Frame, PCs
      <3>3. Turn(c, f.pc, f.op, f.name, f.held, f.tick)
        <4> HIDE DEF f
        <4>1. QED
          BY <3>1, <3>2, TurnTo
      <3>4. QED
        BY <1>1, <2>2, <3>3 DEF Stays, Frame
    <2>3. QED
      BY <2>1, <2>2
  <1>21. ASSUME FinishRecompute(c)
        PROVE  Ends(c) \/ (call[c].op = "evict" /\ Stays(c, "pick"))
    <2>1. CASE call[c].op = "evict" /\ call[c].total > limit_bytes
      <3> DEFINE f == [call[c] EXCEPT !.pc = "pick", !.total = 0]
      <3>1. call' = [call EXCEPT ![c] = f]
        BY <1>21, <2>1 DEF FinishRecompute, Goto
      <3>2. f \in Frame
        BY <1>1 DEF Frame, PCs
      <3>3. Turn(c, f.pc, f.op, f.name, f.held, f.tick)
        <4> HIDE DEF f
        <4>1. QED
          BY <3>1, <3>2, TurnTo
      <3>4. QED
        BY <1>1, <2>1, <3>3 DEF Stays, Frame
    <2>2. CASE ~ (call[c].op = "evict" /\ call[c].total > limit_bytes)
      BY <1>21, <2>2, IdleTurn DEF FinishRecompute
    <2>3. QED
      BY <2>1, <2>2
  <1>22. ASSUME StartPick(c)
        PROVE  Stays(c, "pick")
    <2> DEFINE f == [call[c] EXCEPT !.todo = {collections[n] : n \in Candidates}]
    <2>1. call' = [call EXCEPT ![c] = f]
      BY <1>22 DEF StartPick
    <2>2. f \in Frame
      <3>1. {collections[n] : n \in Candidates} \subseteq Guard
        BY DEF Candidates, TypeOK
      <3>2. QED
        BY <1>1, <3>1 DEF Frame
    <2>3. Turn(c, f.pc, f.op, f.name, f.held, f.tick)
      <3> HIDE DEF f
      <3>1. QED
        BY <2>1, <2>2, TurnTo
    <2>4. QED
      BY <1>1, <1>22, <2>3 DEF Stays, Frame, StartPick, At
  <1>23. ASSUME NEW n \in Name, Inspect(c, n)
        PROVE  \/ Stays(c, "pick")
               \/ /\ collections[n] \in call[c].todo
                  /\ Turn(c, "pick", call[c].op, n, call[c].held,
                          guards[collections[n]].last_accessed)
    <2> DEFINE g == collections[n]
               kept == [call[c] EXCEPT !.todo = @ \ {g}]
               taken == [call[c] EXCEPT !.todo = @ \ {g}, !.name = n,
                                        !.tick = guards[g].last_accessed]
    <2>1. g \in call[c].todo /\ call[c].pc = "pick"
      BY <1>23 DEF Inspect, At
    <2>2. guards[g] \in Allocation /\ call \in [Client -> Frame]
      BY <1>1, <2>1 DEF TypeOK, Frame
    <2>3. kept \in Frame /\ taken \in Frame
      BY <1>1, <2>2 DEF Frame, Allocation
    <2>4. call' = [call EXCEPT ![c] = kept] \/ call' = [call EXCEPT ![c] = taken]
      BY <1>23 DEF Inspect
    <2>5. CASE call' = [call EXCEPT ![c] = kept]
      <3>1. Turn(c, kept.pc, kept.op, kept.name, kept.held, kept.tick)
        <4> HIDE DEF kept
        <4>1. QED
          BY <2>3, <2>5, TurnTo
      <3>2. QED
        BY <1>1, <2>1, <3>1 DEF Stays, Frame
    <2>6. CASE call' = [call EXCEPT ![c] = taken]
      <3>1. Turn(c, taken.pc, taken.op, taken.name, taken.held, taken.tick)
        <4> HIDE DEF taken
        <4>1. QED
          BY <2>3, <2>6, TurnTo
      <3>2. QED
        BY <1>1, <2>1, <3>1 DEF Frame
    <2>7. QED
      BY <2>4, <2>5, <2>6
  <1>24. ASSUME PickVictim(c)
        PROVE  Ends(c) \/ (call[c].name # None /\ Moves(c, "remove", call[c].held, 0))
    <2>1. CASE call[c].name = None
      BY <1>24, <2>1, IdleTurn DEF PickVictim
    <2>2. CASE call[c].name # None
      <3> DEFINE f == [call[c] EXCEPT !.pc = "remove", !.tick = 0]
      <3>1. call' = [call EXCEPT ![c] = f]
        BY <1>24, <2>2 DEF PickVictim
      <3>2. f \in Frame
        <4>1. 0 \in 0 .. MaxTick /\ "remove" \in PCs
          BY BoundAssumption DEF PCs
        <4>2. QED
          BY <1>1, <4>1 DEF Frame
      <3>3. Turn(c, f.pc, f.op, f.name, f.held, f.tick)
        <4> HIDE DEF f
        <4>1. QED
          BY <3>1, <3>2, TurnTo
      <3>4. QED
        BY <1>1, <2>2, <3>3 DEF Moves, Frame
    <2>3. QED
      BY <2>1, <2>2
  <1>25. ASSUME RemoveVictim(c)
        PROVE  Turn(c, "recompute", call[c].op, None, call[c].held, call[c].tick)
    <2> DEFINE f == [call[c] EXCEPT !.pc = "recompute", !.name = None]
    <2>1. call' = [call EXCEPT ![c] = f]
      BY <1>25 DEF RemoveVictim
    <2>2. f \in Frame
      BY <1>1, <1>25 DEF Frame, PCs
    <2>3. Turn(c, f.pc, f.op, f.name, f.held, f.tick)
      <3> HIDE DEF f
      <3>1. QED
        BY <2>1, <2>2, TurnTo
    <2>4. QED
      BY <1>1, <2>3 DEF Stays, Frame
  <1>26. QED
    BY <1>2, <1>3, <1>4, <1>5, <1>6, <1>7, <1>8, <1>9, <1>10, <1>11, <1>12, <1>13,
       <1>14, <1>15, <1>16, <1>17, <1>18, <1>19, <1>20, <1>21, <1>22, <1>23,
       <1>24, <1>25

(* Types are kept.                                                         *)
LEMMA TypeStep ==
  ASSUME TypeOK, FramesOK, Next
  PROVE  TypeOK'
  <1>1. shrunk' \subseteq Client
    BY DEF Next, Observe
  <1>2. PICK c \in Client :
          \/ \E op \in OpNames, n \in Name \cup {None} : Call(c, op, n)
          \/ Step(c)
    BY DEF Next
  <1>3. /\ call[c] \in Frame /\ FrameOK(call[c], Ops[c])
        /\ Unlocked \in Lock /\ NextTick \in 0 .. MaxTick
        /\ call' \in [Client -> Frame]
    BY <1>2, NextTickType, Turns
       DEF TypeOK, FramesOK, Unlocked, Lock, Step, Moves, Turn, Stays, Ends
  <1>4. ASSUME NEW op \in OpNames, NEW n \in Name \cup {None}, Call(c, op, n)
        PROVE  TypeOK'
    BY <1>1, <1>3, <1>4 DEF Call, TypeOK
  <1>5. CASE Embed(c)
    BY <1>1, <1>3, <1>5 DEF Embed, TypeOK
  <1>6. CASE EmbedFails(c)
    BY <1>1, <1>3, <1>6 DEF EmbedFails, TypeOK
  <1>7. CASE Lookup(c)
    BY <1>1, <1>3, <1>7 DEF Lookup, AddReader, Lock, TypeOK
  <1>8. CASE LookupMissing(c)
    BY <1>1, <1>3, <1>8 DEF LookupMissing, TypeOK
  <1>9. CASE TakeTick(c)
    BY <1>1, <1>3, <1>9 DEF TakeTick, TypeOK
  <1>10. CASE Touch(c)
    <2>1. guards' \in [Guard -> Allocation]
      BY <1>10, TouchedGuard
    <2>2. QED
      BY <1>1, <1>3, <1>10, <2>1 DEF Touch, RemoveReader, Lock, TypeOK
  <1>11. CASE AutoCreateFound(c)
    <2>1. guards' \in [Guard -> Allocation]
      BY <1>11, TouchedGuard
    <2>2. QED
      BY <1>1, <1>3, <1>11, <2>1 DEF AutoCreateFound, TypeOK
  <1>12. CASE AutoCreate(c)
    <2>1. /\ NewGuard(call[c].name) \in Allocation
          /\ Min(Unallocated) \in Guard
      BY <1>12, AllocationStep, NextTickType
    <2>2. QED
      BY <1>1, <1>3, <1>12, <2>1 DEF AutoCreate, TypeOK
  <1>13. CASE ClaimInner(c)
    <2>1. call[c].held \in Guard
      BY <1>1, <1>3, <1>13 DEF ClaimInner, At, FrameOK, Holding, Frame
    <2>2. QED
      BY <1>1, <1>3, <1>13, <2>1 DEF ClaimInner, Claimed, Lock, TypeOK
  <1>14. CASE Mutate(c)
    <2>1. call[c].held \in Guard /\ guards' \in [Guard -> Allocation]
      BY <1>14, WrittenGuard
    <2>2. QED
      BY <1>1, <1>3, <1>14, <2>1 DEF Mutate, TypeOK
  <1>15. CASE StartSearch(c)
    <2>1. call[c].held \in Guard
      BY <1>1, <1>3, <1>15 DEF StartSearch, At, FrameOK, Holding, Frame
    <2>2. QED
      BY <1>1, <1>3, <1>15, <2>1 DEF StartSearch, AddReader, Lock, TypeOK
  <1>16. CASE FinishSearch(c)
    <2>1. guards' \in [Guard -> Allocation]
      BY <1>16, CollectedKeeps DEF FinishSearch, TypeOK
    <2>2. call[c].held \in Guard
      BY <1>1, <1>3, <1>16 DEF FinishSearch, At, FrameOK, Holding, Frame
    <2>3. QED
      BY <1>1, <1>3, <1>16, <2>1, <2>2 DEF FinishSearch, RemoveReader, Lock, TypeOK
  <1>17. CASE ClaimOuter(c)
    BY <1>1, <1>3, <1>17 DEF ClaimOuter, Claimed, Lock, TypeOK
  <1>18. CASE CreateCollection(c)
    <2>1. CASE collections[call[c].name] = None
      <3>1. /\ NewGuard(call[c].name) \in Allocation
            /\ Min(Unallocated) \in Guard
        BY <1>18, <2>1, AllocationStep, NextTickType
      <3>2. QED
        BY <1>1, <1>3, <1>18, <2>1, <3>1 DEF CreateCollection, TypeOK
    <2>2. CASE collections[call[c].name] # None
      BY <1>1, <1>3, <1>18, <2>2 DEF CreateCollection, TypeOK
    <2>3. QED
      BY <2>1, <2>2
  <1>19. CASE DropCollection(c)
    <2>1. guards' \in [Guard -> Allocation]
      BY <1>19, CollectedKeeps DEF DropCollection, TypeOK
    <2>2. QED
      BY <1>1, <1>3, <1>19, <2>1 DEF DropCollection, TypeOK
  <1>20. CASE StartWalk(c)
    BY <1>1, <1>3, <1>20 DEF StartWalk, AddReader, Lock, TypeOK
  <1>21. ASSUME NEW g \in Guard, Weigh(c, g) PROVE TypeOK'
    BY <1>1, <1>3, <1>21 DEF Weigh, TypeOK
  <1>22. CASE FinishSnapshot(c)
    BY <1>1, <1>3, <1>22 DEF FinishSnapshot, RemoveReader, Lock, TypeOK
  <1>23. CASE FinishRecompute(c)
    BY <1>1, <1>3, <1>23 DEF FinishRecompute, RemoveReader, Lock, TypeOK
  <1>24. CASE StartPick(c)
    BY <1>1, <1>3, <1>24 DEF StartPick, AddReader, Lock, TypeOK
  <1>25. ASSUME NEW n \in Name, Inspect(c, n) PROVE TypeOK'
    BY <1>1, <1>3, <1>25 DEF Inspect, TypeOK
  <1>26. CASE PickVictim(c)
    BY <1>1, <1>3, <1>26 DEF PickVictim, RemoveReader, Lock, TypeOK
  <1>27. CASE RemoveVictim(c)
    <2>1. guards' \in [Guard -> Allocation]
      BY <1>27, CollectedKeeps DEF RemoveVictim, TypeOK
    <2>2. QED
      BY <1>1, <1>3, <1>27, <2>1 DEF RemoveVictim, TypeOK
  <1>28. QED
    BY <1>2, <1>4, <1>5, <1>6, <1>7, <1>8, <1>9, <1>10, <1>11, <1>12, <1>13, <1>14,
       <1>15, <1>16, <1>17, <1>18, <1>19, <1>20, <1>21, <1>22, <1>23, <1>24, <1>25,
       <1>26, <1>27
       DEF Step

(* Frames keep what they hold at each point of the call.                   *)
LEMMA FramesStep ==
  ASSUME TypeOK, FramesOK, PicksOK, Next
  PROVE  FramesOK'
  <1>1. TypeOK /\ FramesOK
    OBVIOUS
  <1>2. PICK c \in Client :
          \/ \E op \in OpNames, n \in Name \cup {None} : Call(c, op, n)
          \/ Step(c)
    BY DEF Next
  <1>3. /\ call[c] \in Frame /\ FrameOK(call[c], Ops[c])
        /\ \A d \in Client \ {c} : call'[d] = call[d]
    BY <1>2, Turns DEF TypeOK, FramesOK, Step, Moves, Turn, Stays, Ends
  <1> SUFFICES FrameOK(call'[c], Ops[c])
    BY <1>3 DEF FramesOK
  <1>4. ASSUME NEW op \in OpNames, NEW n \in Name \cup {None}, Call(c, op, n)
        PROVE  FrameOK(call'[c], Ops[c])
    <2>1. /\ op \in Ops[c] /\ Turn(c, FirstStep(op), op, n, None, 0)
          /\ n = None <=> op \in {"list", "stats", "evict"}
      BY <1>4, Turns DEF Call
    <2>2. /\ FirstStep(op) \in {"snapshot", "recompute", "embed", "lookup", "create", "drop"}
          /\ FirstStep(op) \in {"embed", "lookup"} => op \in Writes \cup Searches
          /\ FirstStep(op) = "drop" => op = "drop"
          /\ op \in {"list", "stats", "evict"} => FirstStep(op) \in {"snapshot", "recompute"}
      BY DEF FirstStep, OpNames, Writes, Searches, Indexes
    <2>3. None \notin Pinned
      BY PinnedAssumption, GuardAssumption
    <2>4. FirstStep(op) \in Walks => n = None
      BY <2>1 DEF FirstStep, Walks, OpNames, Writes, Searches, Indexes
    <2>5. QED
      BY <2>1, <2>2, <2>3, <2>4 DEF Turn, FrameOK, Holding, Naming, Walks
  <1>5. CASE Embed(c)
    <2>1. Stays(c, "lookup")
      BY <1>5, Turns
    <2>2. QED
      BY <1>3, <1>5, <2>1 DEF Embed, At, Turn, Stays, FrameOK, Holding, Naming, Walks
  <1>6. CASE EmbedFails(c)
    <2>1. Ends(c)
      BY <1>6, Turns
    <2>2. QED
      BY <2>1 DEF Ends, Turn, FrameOK, Holding, Naming, Walks
  <1>7. CASE Lookup(c)
    <2>1. Moves(c, "tick", collections[call[c].name], call[c].tick)
      BY <1>7, Turns
    <2>2. QED
      BY <1>3, <1>7, <2>1 DEF Lookup, At, Turn, Moves, FrameOK, Holding, Naming, Walks
  <1>8. CASE LookupMissing(c)
    <2>1. Ends(c) \/ (call[c].op \in Writes /\ Stays(c, "autocreate"))
      BY <1>8, Turns
    <2>2. QED
      BY <1>3, <1>8, <2>1
         DEF LookupMissing, At, Turn, Stays, Ends, FrameOK, Holding, Naming, Walks
  <1>9. CASE TakeTick(c)
    <2>1. Moves(c, "touch", call[c].held, NextTick)
      BY <1>9, Turns
    <2>2. QED
      BY <1>3, <1>9, <2>1 DEF TakeTick, At, Turn, Moves, FrameOK, Holding, Naming, Walks
  <1>10. CASE Touch(c)
    <2>1. CASE call[c].op \in Searches
      <3>1. Moves(c, "read", call[c].held, 0)
        BY <1>10, <2>1, Turns
      <3>2. QED
        BY <1>3, <1>10, <2>1, <3>1 DEF Touch, At, Turn, Moves, FrameOK, Holding, Naming, Walks
    <2>2. CASE call[c].op \notin Searches
      <3>1. Moves(c, "write", call[c].held, 0)
        BY <1>10, <2>2, Turns
      <3>2. QED
        BY <1>3, <1>10, <2>2, <3>1 DEF Touch, At, Turn, Moves, FrameOK, Holding, Naming, Walks
    <2>3. QED
      BY <2>1, <2>2
  <1>11. CASE AutoCreateFound(c)
    <2>1. Moves(c, "write", collections[call[c].name], call[c].tick)
      BY <1>11, Turns
    <2>2. QED
      BY <1>3, <1>11, <2>1
         DEF AutoCreateFound, At, Turn, Moves, FrameOK, Holding, Naming, Walks
  <1>12. CASE AutoCreate(c)
    <2>1. Moves(c, "write", Min(Unallocated), call[c].tick)
      BY <1>12, Turns
    <2>2. Min(Unallocated) # None
      BY <1>12, AllocationStep
    <2>3. QED
      BY <1>3, <1>12, <2>1, <2>2
         DEF AutoCreate, At, Turn, Moves, FrameOK, Holding, Naming, Walks
  <1>13. CASE ClaimInner(c)
    <2>1. Stays(c, "mutate")
      BY <1>13, Turns
    <2>2. QED
      BY <1>3, <1>13, <2>1 DEF ClaimInner, At, Turn, Stays, FrameOK, Holding, Naming, Walks
  <1>14. CASE Mutate(c)
    <2>1. Ends(c)
      BY <1>14, Turns
    <2>2. QED
      BY <2>1 DEF Ends, Turn, FrameOK, Holding, Naming, Walks
  <1>15. CASE StartSearch(c)
    <2>1. Stays(c, "reading")
      BY <1>15, Turns
    <2>2. QED
      BY <1>3, <1>15, <2>1 DEF StartSearch, At, Turn, Stays, FrameOK, Holding, Naming, Walks
  <1>16. CASE FinishSearch(c)
    <2>1. Ends(c)
      BY <1>16, Turns
    <2>2. QED
      BY <2>1 DEF Ends, Turn, FrameOK, Holding, Naming, Walks
  <1>17. CASE ClaimOuter(c)
    <2>1. Stays(c, call[c].pc)
      BY <1>17, Turns
    <2>2. QED
      BY <1>3, <1>17, <2>1 DEF ClaimOuter, At, Turn, Stays, FrameOK, Holding, Naming, Walks
  <1>18. CASE CreateCollection(c)
    <2>1. Ends(c)
      BY <1>18, Turns
    <2>2. QED
      BY <2>1 DEF Ends, Turn, FrameOK, Holding, Naming, Walks
  <1>19. CASE DropCollection(c)
    <2>1. Ends(c)
      BY <1>19, Turns
    <2>2. QED
      BY <2>1 DEF Ends, Turn, FrameOK, Holding, Naming, Walks
  <1>20. CASE StartWalk(c)
    <2>1. Stays(c, call[c].pc)
      BY <1>20, Turns
    <2>2. QED
      BY <1>3, <1>20, <2>1 DEF StartWalk, At, Turn, Stays, FrameOK, Holding, Naming, Walks
  <1>21. ASSUME NEW g \in Guard, Weigh(c, g) PROVE FrameOK(call'[c], Ops[c])
    <2>1. Stays(c, call[c].pc)
      BY <1>21, Turns
    <2>2. QED
      BY <1>3, <1>21, <2>1 DEF Weigh, At, Turn, Stays, FrameOK, Holding, Naming, Walks
  <1>22. CASE FinishSnapshot(c)
    <2>1. Ends(c) \/ Stays(c, "recompute")
      BY <1>22, Turns
    <2>2. QED
      BY <1>3, <1>22, <2>1
         DEF FinishSnapshot, At, Walked, Turn, Stays, Ends, FrameOK, Holding, Naming, Walks
  <1>23. CASE FinishRecompute(c)
    <2>1. Ends(c) \/ (call[c].op = "evict" /\ Stays(c, "pick"))
      BY <1>23, Turns
    <2>2. QED
      BY <1>3, <1>23, <2>1
         DEF FinishRecompute, At, Walked, Turn, Stays, Ends, FrameOK, Holding, Naming, Walks
  <1>24. CASE StartPick(c)
    <2>1. Stays(c, "pick")
      BY <1>24, Turns
    <2>2. QED
      BY <1>3, <1>24, <2>1 DEF StartPick, At, Turn, Stays, FrameOK, Holding, Naming, Walks
  <1>25. ASSUME NEW n \in Name, Inspect(c, n) PROVE FrameOK(call'[c], Ops[c])
    <2>1. \/ Stays(c, "pick")
          \/ /\ collections[n] \in call[c].todo
             /\ Turn(c, "pick", call[c].op, n, call[c].held, guards[collections[n]].last_accessed)
      BY <1>25, Turns
    <2>2. call[c].pc = "pick"
      BY <1>25 DEF Inspect, At
    <2>3. n \notin Pinned \/ Stays(c, "pick")
      BY <2>1, <2>2 DEF PicksOK, At
    <2>4. QED
      BY <1>3, <2>1, <2>2, <2>3 DEF Turn, Stays, FrameOK, Holding, Naming, Walks
  <1>26. CASE PickVictim(c)
    <2>1. Ends(c) \/ (call[c].name # None /\ Moves(c, "remove", call[c].held, 0))
      BY <1>26, Turns
    <2>2. call[c].pc = "pick" /\ call[c].name \in Name \cup {None}
      BY <1>3, <1>26 DEF PickVictim, At, Frame
    <2>3. QED
      BY <1>3, <2>1, <2>2 DEF Turn, Moves, Ends, FrameOK, Holding, Naming, Walks
  <1>27. CASE RemoveVictim(c)
    <2>1. Turn(c, "recompute", call[c].op, None, call[c].held, call[c].tick)
      BY <1>27, Turns
    <2>2. None \notin Pinned
      BY PinnedAssumption, GuardAssumption
    <2>3. QED
      BY <1>3, <1>27, <2>1, <2>2 DEF RemoveVictim, At, Turn, FrameOK, Holding, Naming, Walks
  <1>28. QED
    BY <1>2, <1>4, <1>5, <1>6, <1>7, <1>8, <1>9, <1>10, <1>11, <1>12, <1>13, <1>14,
       <1>15, <1>16, <1>17, <1>18, <1>19, <1>20, <1>21, <1>22, <1>23, <1>24, <1>25,
       <1>26, <1>27
       DEF Step

(* The lock of the map.  A step that changes the map waits until the       *)
(* readers have left, so that none is between its lookup and its touch.    *)
LEMMA OuterStep ==
  ASSUME TypeOK, FramesOK, OuterOK, Next
  PROVE  OuterOK'
  <1>1. TypeOK /\ FramesOK
    OBVIOUS
  <1>2. PICK c \in Client :
          \/ \E op \in OpNames, n \in Name \cup {None} : Call(c, op, n)
          \/ Step(c)
    BY DEF Next
  <1>3. /\ call[c] \in Frame /\ FrameOK(call[c], Ops[c])
        /\ outer \in Lock /\ None \notin Client
    BY GuardAssumption DEF TypeOK, FramesOK
  <1>4. ASSUME NEW op \in OpNames, NEW n \in Name \cup {None}, Call(c, op, n)
        PROVE  OuterOK'
    <2>1. \E pc \in {"snapshot", "recompute", "embed", "lookup", "create", "drop"} :
            Turn(c, pc, op, n, None, 0)
      BY <1>4, Turns DEF FirstStep, OpNames, Writes, Searches, Indexes
    <2>2. QED
      BY <1>3, <1>4, <2>1 DEF Call, At, Turn, OuterOK, Lock, Claiming, Walks
  <1>5. CASE Embed(c)
    <2>1. Stays(c, "lookup")
      BY <1>5, Turns
    <2>2. QED
      BY <1>3, <1>5, <2>1 DEF Embed, At, Turn, Stays, OuterOK, Lock, Claiming, Walks
  <1>6. CASE EmbedFails(c)
    <2>1. Ends(c)
      BY <1>6, Turns
    <2>2. QED
      BY <1>3, <1>6, <2>1 DEF EmbedFails, At, Turn, Ends, OuterOK, Lock, Claiming, Walks
  <1>7. CASE Lookup(c)
    <2>1. Moves(c, "tick", collections[call[c].name], call[c].tick)
      BY <1>7, Turns
    <2>2. QED
      BY <1>3, <1>7, <2>1
         DEF Lookup, CanRead, AddReader, At, Turn, Moves, OuterOK, Lock, Claiming, Walks
  <1>8. CASE LookupMissing(c)
    <2>1. Ends(c) \/ Stays(c, "autocreate")
      BY <1>8, Turns
    <2>2. QED
      BY <1>3, <1>8, <2>1
         DEF LookupMissing, At, Turn, Stays, Ends, OuterOK, Lock, Claiming, Walks
  <1>9. CASE TakeTick(c)
    <2>1. Moves(c, "touch", call[c].held, NextTick)
      BY <1>9, Turns
    <2>2. QED
      BY <1>3, <1>9, <2>1 DEF TakeTick, At, Turn, Moves, OuterOK, Lock, Claiming, Walks
  <1>10. CASE Touch(c)
    <2>1. \E pc \in {"read", "write"} : Moves(c, pc, call[c].held, 0)
      BY <1>10, Turns
    <2>2. QED
      BY <1>3, <1>10, <2>1
         DEF Touch, RemoveReader, At, Turn, Moves, OuterOK, Lock, Claiming, Walks
  <1>11. CASE AutoCreateFound(c)
    <2>1. Moves(c, "write", collections[call[c].name], call[c].tick)
      BY <1>11, Turns
    <2>2. outer.readers = {} /\ outer' = Unlocked
      BY <1>11 DEF AutoCreateFound, Entered
    <2>3. QED
      BY <1>3, <2>1, <2>2 DEF Turn, Moves, OuterOK, Unlocked
  <1>12. CASE AutoCreate(c)
    <2>1. Moves(c, "write", Min(Unallocated), call[c].tick)
      BY <1>12, Turns
    <2>2. outer.readers = {} /\ outer' = Unlocked
      BY <1>12 DEF AutoCreate, Entered
    <2>3. QED
      BY <1>3, <2>1, <2>2 DEF Turn, Moves, OuterOK, Unlocked
  <1>13. CASE ClaimInner(c)
    <2>1. Stays(c, "mutate")
      BY <1>13, Turns
    <2>2. QED
      BY <1>3, <1>13, <2>1
         DEF ClaimInner, At, Turn, Stays, OuterOK, Lock, Claiming, Walks
  <1>14. CASE Mutate(c)
    <2>1. Ends(c)
      BY <1>14, Turns
    <2>2. QED
      BY <1>3, <1>14, <2>1 DEF Mutate, At, Turn, Ends, OuterOK, Lock, Claiming, Walks
  <1>15. CASE StartSearch(c)
    <2>1. Stays(c, "reading")
      BY <1>15, Turns
    <2>2. QED
      BY <1>3, <1>15, <2>1
         DEF StartSearch, At, Turn, Stays, OuterOK, Lock, Claiming, Walks
  <1>16. CASE FinishSearch(c)
    <2>1. Ends(c)
      BY <1>16, Turns
    <2>2. QED
      BY <1>3, <1>16, <2>1
         DEF FinishSearch, At, Turn, Ends, OuterOK, Lock, Claiming, Walks
  <1>17. CASE ClaimOuter(c)
    <2>1. Stays(c, call[c].pc)
      BY <1>17, Turns
    <2>2. QED
      BY <1>3, <1>17, <2>1
         DEF ClaimOuter, Claimed, CanClaim, At, Turn, Stays, OuterOK, Lock, Claiming,
             Walks
  <1>18. CASE CreateCollection(c)
    <2>1. Ends(c)
      BY <1>18, Turns
    <2>2. outer.readers = {} /\ outer' = Unlocked
      BY <1>18 DEF CreateCollection, Entered
    <2>3. QED
      BY <1>3, <2>1, <2>2 DEF Turn, Ends, OuterOK, Unlocked
  <1>19. CASE DropCollection(c)
    <2>1. Ends(c)
      BY <1>19, Turns
    <2>2. outer.readers = {} /\ outer' = Unlocked
      BY <1>19 DEF DropCollection, Entered
    <2>3. QED
      BY <1>3, <2>1, <2>2 DEF Turn, Ends, OuterOK, Unlocked
  <1>20. CASE StartWalk(c)
    <2>1. Stays(c, call[c].pc)
      BY <1>20, Turns
    <2>2. QED
      BY <1>3, <1>20, <2>1
         DEF StartWalk, AddReader, CanRead, At, Turn, Stays, OuterOK, Lock, Claiming,
             Walks
  <1>21. ASSUME NEW g \in Guard, Weigh(c, g) PROVE OuterOK'
    <2>1. Stays(c, call[c].pc)
      BY <1>21, Turns
    <2>2. QED
      BY <1>3, <1>21, <2>1 DEF Weigh, At, Turn, Stays, OuterOK, Lock, Claiming, Walks
  <1>22. CASE FinishSnapshot(c)
    <2>1. Ends(c) \/ Stays(c, "recompute")
      BY <1>22, Turns
    <2>2. QED
      BY <1>3, <1>22, <2>1
         DEF FinishSnapshot, Walked, RemoveReader, At, Turn, Stays, Ends, OuterOK, Lock,
             Claiming, Walks
  <1>23. CASE FinishRecompute(c)
    <2>1. Ends(c) \/ Stays(c, "pick")
      BY <1>23, Turns
    <2>2. QED
      BY <1>3, <1>23, <2>1
         DEF FinishRecompute, Walked, RemoveReader, At, Turn, Stays, Ends, OuterOK,
             Lock, Claiming, Walks
  <1>24. CASE StartPick(c)
    <2>1. Stays(c, "pick")
      BY <1>24, Turns
    <2>2. QED
      BY <1>3, <1>24, <2>1
         DEF StartPick, AddReader, CanRead, At, Turn, Stays, OuterOK, Lock, Claiming, Walks
  <1>25. ASSUME NEW n \in Name, Inspect(c, n) PROVE OuterOK'
    <2>1. \/ Stays(c, "pick")
          \/ /\ collections[n] \in call[c].todo
             /\ Turn(c, "pick", call[c].op, n, call[c].held, guards[collections[n]].last_accessed)
      BY <1>25, Turns
    <2>2. QED
      BY <1>3, <1>25, <2>1 DEF Inspect, At, Turn, Stays, OuterOK, Lock, Claiming, Walks
  <1>26. CASE PickVictim(c)
    <2>1. Ends(c) \/ (call[c].name # None /\ Moves(c, "remove", call[c].held, 0))
      BY <1>26, Turns
    <2>2. QED
      BY <1>3, <1>26, <2>1
         DEF PickVictim, RemoveReader, At, Turn, Moves, Ends, OuterOK, Lock, Claiming, Walks
  <1>27. CASE RemoveVictim(c)
    <2>1. Turn(c, "recompute", call[c].op, None, call[c].held, call[c].tick)
      BY <1>27, Turns
    <2>2. outer.readers = {} /\ outer' = Unlocked
      BY <1>27 DEF RemoveVictim, Entered
    <2>3. QED
      BY <1>3, <2>1, <2>2 DEF Turn, OuterOK, Unlocked
  <1>28. QED
    BY <1>2, <1>4, <1>5, <1>6, <1>7, <1>8, <1>9, <1>10, <1>11, <1>12, <1>13, <1>14,
       <1>15, <1>16, <1>17, <1>18, <1>19, <1>20, <1>21, <1>22, <1>23, <1>24, <1>25,
       <1>26, <1>27
       DEF Step

(* The locks of the collections.                                           *)
LEMMA InnerStep ==
  ASSUME TypeOK, FramesOK, InnerOK, Next
  PROVE  InnerOK'
  <1>1. TypeOK /\ FramesOK
    OBVIOUS
  <1>2. PICK c \in Client :
          \/ \E op \in OpNames, n \in Name \cup {None} : Call(c, op, n)
          \/ Step(c)
    BY DEF Next
  <1>3. /\ call[c] \in Frame /\ FrameOK(call[c], Ops[c])
        /\ inner \in [Guard -> Lock] /\ None \notin Client
    BY GuardAssumption DEF TypeOK, FramesOK
  <1>4. ASSUME NEW op \in OpNames, NEW n \in Name \cup {None}, Call(c, op, n)
        PROVE  InnerOK'
    <2>1. \E pc \in {"snapshot", "recompute", "embed", "lookup", "create", "drop"} :
            Turn(c, pc, op, n, None, 0)
      BY <1>4, Turns DEF FirstStep, OpNames, Writes, Searches, Indexes
    <2>2. QED
      BY <1>3, <1>4, <2>1 DEF Call, At, Turn, InnerOK, Lock
  <1>5. CASE Embed(c)
    <2>1. Stays(c, "lookup")
      BY <1>5, Turns
    <2>2. QED
      BY <1>3, <1>5, <2>1 DEF Embed, At, Turn, Stays, InnerOK, Lock
  <1>6. CASE EmbedFails(c)
    <2>1. Ends(c)
      BY <1>6, Turns
    <2>2. QED
      BY <1>3, <1>6, <2>1 DEF EmbedFails, At, Turn, Ends, InnerOK, Lock
  <1>7. CASE Lookup(c)
    <2>1. Moves(c, "tick", collections[call[c].name], call[c].tick)
      BY <1>7, Turns
    <2>2. QED
      BY <1>3, <1>7, <2>1 DEF Lookup, At, Turn, Moves, InnerOK, Lock
  <1>8. CASE LookupMissing(c)
    <2>1. Ends(c) \/ Stays(c, "autocreate")
      BY <1>8, Turns
    <2>2. QED
      BY <1>3, <1>8, <2>1 DEF LookupMissing, At, Turn, Stays, Ends, InnerOK, Lock
  <1>9. CASE TakeTick(c)
    <2>1. Moves(c, "touch", call[c].held, NextTick)
      BY <1>9, Turns
    <2>2. QED
      BY <1>3, <1>9, <2>1 DEF TakeTick, At, Turn, Moves, InnerOK, Lock
  <1>10. CASE Touch(c)
    <2>1. \E pc \in {"read", "write"} : Moves(c, pc, call[c].held, 0)
      BY <1>10, Turns
    <2>2. QED
      BY <1>3, <1>10, <2>1 DEF Touch, At, Turn, Moves, InnerOK, Lock
  <1>11. CASE AutoCreateFound(c)
    <2>1. Moves(c, "write", collections[call[c].name], call[c].tick)
      BY <1>11, Turns
    <2>2. QED
      BY <1>3, <1>11, <2>1 DEF AutoCreateFound, At, Turn, Moves, InnerOK, Lock
  <1>12. CASE AutoCreate(c)
    <2>1. Moves(c, "write", Min(Unallocated), call[c].tick)
      BY <1>12, Turns
    <2>2. QED
      BY <1>3, <1>12, <2>1 DEF AutoCreate, At, Turn, Moves, InnerOK, Lock
  <1>13. CASE ClaimInner(c)
    <2>1. Stays(c, "mutate")
      BY <1>13, Turns
    <2>2. call[c].held \in Guard
      BY <1>3, <1>13 DEF ClaimInner, At, FrameOK, Holding, Frame
    <2>3. QED
      BY <1>3, <1>13, <2>1, <2>2
         DEF ClaimInner, At, Turn, Stays, Claimed, CanClaim, InnerOK, Lock
  <1>14. CASE Mutate(c)
    <2>1. Ends(c)
      BY <1>14, Turns
    <2>2. call[c].held \in Guard
      BY <1>3, <1>14 DEF Mutate, At, FrameOK, Holding, Frame
    <2>3. QED
      BY <1>3, <1>14, <2>1, <2>2
         DEF Mutate, At, Turn, Ends, Entered, Unlocked, InnerOK, Lock
  <1>15. CASE StartSearch(c)
    <2>1. Stays(c, "reading")
      BY <1>15, Turns
    <2>2. call[c].held \in Guard
      BY <1>3, <1>15 DEF StartSearch, At, FrameOK, Holding, Frame
    <2>3. QED
      BY <1>3, <1>15, <2>1, <2>2
         DEF StartSearch, At, Turn, Stays, AddReader, CanRead, InnerOK, Lock
  <1>16. CASE FinishSearch(c)
    <2>1. Ends(c)
      BY <1>16, Turns
    <2>2. call[c].held \in Guard
      BY <1>3, <1>16 DEF FinishSearch, At, FrameOK, Holding, Frame
    <2>3. QED
      BY <1>3, <1>16, <2>1, <2>2
         DEF FinishSearch, At, Turn, Ends, RemoveReader, InnerOK, Lock
  <1>17. CASE ClaimOuter(c)
    <2>1. Stays(c, call[c].pc)
      BY <1>17, Turns
    <2>2. QED
      BY <1>3, <1>17, <2>1 DEF ClaimOuter, At, Turn, Stays, InnerOK, Lock, Claiming
  <1>18. CASE CreateCollection(c)
    <2>1. Ends(c)
      BY <1>18, Turns
    <2>2. QED
      BY <1>3, <1>18, <2>1 DEF CreateCollection, At, Turn, Ends, InnerOK, Lock
  <1>19. CASE DropCollection(c)
    <2>1. Ends(c)
      BY <1>19, Turns
    <2>2. QED
      BY <1>3, <1>19, <2>1 DEF DropCollection, At, Turn, Ends, InnerOK, Lock
  <1>20. CASE StartWalk(c)
    <2>1. Stays(c, call[c].pc)
      BY <1>20, Turns
    <2>2. QED
      BY <1>3, <1>20, <2>1 DEF StartWalk, At, Turn, Stays, InnerOK, Lock, Walks
  <1>21. ASSUME NEW g \in Guard, Weigh(c, g) PROVE InnerOK'
    <2>1. Stays(c, call[c].pc)
      BY <1>21, Turns
    <2>2. QED
      BY <1>3, <1>21, <2>1 DEF Weigh, At, Turn, Stays, InnerOK, Lock, Walks
  <1>22. CASE FinishSnapshot(c)
    <2>1. Ends(c) \/ Stays(c, "recompute")
      BY <1>22, Turns
    <2>2. QED
      BY <1>3, <1>22, <2>1
         DEF FinishSnapshot, At, Turn, Stays, Ends, InnerOK, Lock, Walked
  <1>23. CASE FinishRecompute(c)
    <2>1. Ends(c) \/ Stays(c, "pick")
      BY <1>23, Turns
    <2>2. QED
      BY <1>3, <1>23, <2>1
         DEF FinishRecompute, At, Turn, Stays, Ends, InnerOK, Lock, Walked
  <1>24. CASE StartPick(c)
    <2>1. Stays(c, "pick")
      BY <1>24, Turns
    <2>2. QED
      BY <1>3, <1>24, <2>1 DEF StartPick, At, Turn, Stays, InnerOK, Lock
  <1>25. ASSUME NEW n \in Name, Inspect(c, n) PROVE InnerOK'
    <2>1. \/ Stays(c, "pick")
          \/ /\ collections[n] \in call[c].todo
             /\ Turn(c, "pick", call[c].op, n, call[c].held, guards[collections[n]].last_accessed)
      BY <1>25, Turns
    <2>2. QED
      BY <1>3, <1>25, <2>1 DEF Inspect, At, Turn, Stays, InnerOK, Lock
  <1>26. CASE PickVictim(c)
    <2>1. Ends(c) \/ (call[c].name # None /\ Moves(c, "remove", call[c].held, 0))
      BY <1>26, Turns
    <2>2. QED
      BY <1>3, <1>26, <2>1 DEF PickVictim, At, Turn, Moves, Ends, InnerOK, Lock
  <1>27. CASE RemoveVictim(c)
    <2>1. Turn(c, "recompute", call[c].op, None, call[c].held, call[c].tick)
      BY <1>27, Turns
    <2>2. QED
      BY <1>3, <1>27, <2>1 DEF RemoveVictim, At, Turn, InnerOK, Lock
  <1>28. QED
    BY <1>2, <1>4, <1>5, <1>6, <1>7, <1>8, <1>9, <1>10, <1>11, <1>12, <1>13, <1>14,
       <1>15, <1>16, <1>17, <1>18, <1>19, <1>20, <1>21, <1>22, <1>23, <1>24, <1>25,
       <1>26, <1>27
       DEF Step

(* What a new allocation holds.                                            *)
LEMMA NewGuardFields ==
  ASSUME NEW n
  PROVE  /\ NewGuard(n).name = n /\ NewGuard(n).pinned = (n \in Pinned)
         /\ NewGuard(n).last_accessed = NextTick /\ NewGuard(n).count = 0
  BY DEF NewGuard

(* A step that adds no collection keeps the names and pins of what stays.  *)
LEMMA NamesKept ==
  ASSUME NamesAgree, PinsOK,
         \A n \in Name : collections'[n] \in Guard \cup {None},
         \A d \in Client : call'[d].held \in Guard \cup {None},
         \A d \in Client : call'[d].held # None =>
           call'[d].held = call[d].held /\ call'[d].name = call[d].name,
         \A n \in Name : collections'[n] # None => collections'[n] = collections[n],
         \A h \in Guard : h \in Reachable(collections', call') =>
           guards'[h].name = guards[h].name /\ guards'[h].pinned = guards[h].pinned
  PROVE  NamesAgree' /\ PinsOK'
  <1>1. /\ \A n \in Name : collections'[n] \in Reachable(collections', call')
        /\ \A d \in Client : call'[d].held \in Reachable(collections', call')
    BY DEF Reachable
  <1>2. QED
    BY <1>1 DEF NamesAgree, PinsOK

(* Names and pins.  A new allocation is one that nobody reaches, so that   *)
(* no caller and no other name sees it change.                             *)
LEMMA NamesStep ==
  ASSUME TypeOK, FramesOK, NamesAgree, PinsOK, Next
  PROVE  NamesAgree' /\ PinsOK'
  <1>1. TypeOK /\ FramesOK
    OBVIOUS
  <1>2. PICK c \in Client :
          \/ \E op \in OpNames, n \in Name \cup {None} : Call(c, op, n)
          \/ Step(c)
    BY DEF Next
  <1>3. /\ call[c] \in Frame /\ FrameOK(call[c], Ops[c]) /\ call \in [Client -> Frame]
        /\ guards \in [Guard -> Allocation] /\ collections \in [Name -> Guard \cup {None}]
        /\ \A d \in Client : call[d].held \in Guard \cup {None}
        /\ None \notin Guard
        /\ \A n \in Name : collections'[n] \in Guard \cup {None}
        /\ \A d \in Client : call'[d].held \in Guard \cup {None}
    BY GuardAssumption, TypeStep DEF TypeOK, FramesOK, Frame
  <1>4. ASSUME NEW op \in OpNames, NEW n \in Name \cup {None}, Call(c, op, n)
        PROVE  NamesAgree' /\ PinsOK'
    <2>1. \E pc \in {"snapshot", "recompute", "embed", "lookup", "create", "drop"} :
            Turn(c, pc, op, n, None, 0)
      BY <1>4, Turns DEF FirstStep, OpNames, Writes, Searches, Indexes
    <2>2. QED
      BY <1>3, <1>4, <2>1 DEF Call, Turn, NamesAgree, PinsOK
  <1>5. CASE Embed(c)
    <2>1. Stays(c, "lookup")
      BY <1>5, Turns
    <2>2. QED
      BY <1>3, <1>5, <2>1 DEF Embed, Turn, Stays, NamesAgree, PinsOK
  <1>6. CASE EmbedFails(c)
    <2>1. Ends(c)
      BY <1>6, Turns
    <2>2. QED
      BY <1>3, <1>6, <2>1 DEF EmbedFails, Turn, Ends, NamesAgree, PinsOK
  <1>7. CASE Lookup(c)
    <2>1. Moves(c, "tick", collections[call[c].name], call[c].tick)
      BY <1>7, Turns
    <2>2. QED
      BY <1>3, <1>7, <2>1
         DEF Lookup, Turn, Moves, At, FrameOK, Holding, Naming, NamesAgree, PinsOK
  <1>8. CASE LookupMissing(c)
    <2>1. Ends(c) \/ Stays(c, "autocreate")
      BY <1>8, Turns
    <2>2. QED
      BY <1>3, <1>8, <2>1 DEF LookupMissing, Turn, Stays, Ends, NamesAgree, PinsOK
  <1>9. CASE TakeTick(c)
    <2>1. Moves(c, "touch", call[c].held, NextTick)
      BY <1>9, Turns
    <2>2. QED
      BY <1>3, <1>9, <2>1 DEF TakeTick, Turn, Moves, NamesAgree, PinsOK
  <1>10. CASE Touch(c)
    <2>1. \E pc \in {"read", "write"} : Moves(c, pc, call[c].held, 0)
      BY <1>10, Turns
    <2>2. \A h \in Guard :
            guards'[h].name = guards[h].name /\ guards'[h].pinned = guards[h].pinned
      BY <1>10, TouchedGuard
    <2>3. collections' = collections
      BY <1>3, <1>10 DEF Touch
    <2>4. QED
      BY <1>3, <2>1, <2>2, <2>3 DEF Turn, Moves, NamesAgree, PinsOK
  <1>11. CASE AutoCreateFound(c)
    <2>1. Moves(c, "write", collections[call[c].name], call[c].tick)
      BY <1>11, Turns
    <2>2. \A h \in Guard :
            guards'[h].name = guards[h].name /\ guards'[h].pinned = guards[h].pinned
      BY <1>11, TouchedGuard
    <2>3. collections' = collections /\ call[c].name \in Name
      BY <1>3, <1>11 DEF AutoCreateFound, At, FrameOK, Naming
    <2>4. PinsOK'
      BY <1>3, <2>2, <2>3 DEF PinsOK
    <2>5. /\ call'[c].held = collections[call[c].name] /\ call'[c].name = call[c].name
          /\ \A d \in Client \ {c} : call'[d] = call[d]
      BY <2>1 DEF Turn, Moves
    <2>6. \A d \in Client : call[d].held # None => call[d].held \in Guard
      BY <1>3 DEF TypeOK, Frame
    <2>7. NamesAgree'
      BY <1>3, <2>2, <2>3, <2>5, <2>6 DEF NamesAgree
    <2>8. QED
      BY <2>4, <2>7
  <1>12. CASE AutoCreate(c)
    <2>1. Moves(c, "write", Min(Unallocated), call[c].tick)
      BY <1>12, Turns
    <2>2. /\ Min(Unallocated) \in Guard /\ Min(Unallocated) # None
          /\ Min(Unallocated) \notin Reachable(collections, call)
          /\ call[c].name \in Name
      BY <1>12, AllocationStep
    <2> DEFINE g == Min(Unallocated)
    <2>3. /\ \A n \in Name \ {call[c].name} :
               collections'[n] = collections[n] /\ collections[n] # g
          /\ \A d \in Client : call[d].held # g
          /\ collections'[call[c].name] = g /\ guards'[g] = NewGuard(call[c].name)
          /\ \A h \in Guard \ {g} : guards'[h] = guards[h]
      BY <1>3, <1>12, <2>2 DEF AutoCreate, Reachable
    <2> HIDE DEF g
    <2>4. guards'[g].name = call[c].name /\ guards'[g].pinned = (call[c].name \in Pinned)
      BY <2>3, NewGuardFields
    <2>5. NamesAgree'
      BY <1>3, <2>1, <2>2, <2>3, <2>4 DEF Turn, Moves, NamesAgree, g
    <2>6. PinsOK'
      <3>1. ASSUME NEW n \in Name \ {call[c].name}, collections'[n] # None
            PROVE  guards'[collections'[n]].pinned <=> n \in Pinned
        BY <1>3, <2>2, <2>3, <3>1 DEF PinsOK
      <3>2. guards'[collections'[call[c].name]].pinned <=> call[c].name \in Pinned
        BY <2>3, <2>4, Zenon
      <3>3. QED
        BY <3>1, <3>2, Zenon DEF PinsOK
    <2>7. QED
      BY <2>5, <2>6
  <1>13. CASE ClaimInner(c)
    <2>1. Stays(c, "mutate")
      BY <1>13, Turns
    <2>2. QED
      BY <1>3, <1>13, <2>1 DEF ClaimInner, Turn, Stays, NamesAgree, PinsOK
  <1>14. CASE Mutate(c)
    <2>1. Ends(c)
      BY <1>14, Turns
    <2>2. /\ collections' = collections
          /\ \A h \in Guard : h \in Reachable(collections, call') =>
               guards'[h].name = guards[h].name /\ guards'[h].pinned = guards[h].pinned
      BY <1>14, WrittenGuard
    <2>3. QED
      BY <1>3, <2>1, <2>2, NamesKept DEF Turn, Ends
  <1>15. CASE StartSearch(c)
    <2>1. Stays(c, "reading")
      BY <1>15, Turns
    <2>2. QED
      BY <1>3, <1>15, <2>1 DEF StartSearch, Turn, Stays, NamesAgree, PinsOK
  <1>16. CASE FinishSearch(c)
    <2>1. Ends(c)
      BY <1>16, Turns
    <2>2. \A h \in Guard : h \in Reachable(collections', call') => guards'[h] = guards[h]
      BY <1>3, <1>16, CollectedKeeps DEF FinishSearch
    <2>3. \A n \in Name : collections'[n] # None => collections'[n] = collections[n]
      BY <1>3, <1>16 DEF FinishSearch
    <2>4. QED
      BY <1>3, <1>16, <2>1, <2>2, <2>3, NamesKept DEF Turn, Ends
  <1>17. CASE ClaimOuter(c)
    <2>1. Stays(c, call[c].pc)
      BY <1>17, Turns
    <2>2. QED
      BY <1>3, <1>17, <2>1 DEF ClaimOuter, Turn, Stays, NamesAgree, PinsOK
  <1>18. CASE CreateCollection(c)
    <2>1. Ends(c)
      BY <1>18, Turns
    <2>2. CASE collections[call[c].name] = None
      <3>1. /\ Min(Unallocated) \in Guard /\ Min(Unallocated) # None
            /\ Min(Unallocated) \notin Reachable(collections, call)
            /\ call[c].name \in Name
        BY <1>18, <2>2, AllocationStep
      <3> DEFINE g == Min(Unallocated)
      <3>2. /\ \A n \in Name \ {call[c].name} :
                 collections'[n] = collections[n] /\ collections[n] # g
            /\ \A d \in Client : call[d].held # g
            /\ collections'[call[c].name] = g /\ guards'[g] = NewGuard(call[c].name)
            /\ \A h \in Guard \ {g} : guards'[h] = guards[h]
        BY <1>3, <1>18, <2>2, <3>1 DEF CreateCollection, Reachable
      <3> HIDE DEF g
      <3>3. guards'[g].name = call[c].name /\ guards'[g].pinned = (call[c].name \in Pinned)
        BY <3>2, NewGuardFields
      <3>4. NamesAgree'
        BY <1>3, <2>1, <3>1, <3>2, <3>3 DEF Turn, Ends, NamesAgree, g
      <3>5. PinsOK'
        <4>1. ASSUME NEW n \in Name \ {call[c].name}, collections'[n] # None
              PROVE  guards'[collections'[n]].pinned <=> n \in Pinned
          BY <1>3, <3>1, <3>2, <4>1 DEF PinsOK
        <4>2. guards'[collections'[call[c].name]].pinned <=> call[c].name \in Pinned
          BY <3>2, <3>3, Zenon
        <4>3. QED
          BY <4>1, <4>2, Zenon DEF PinsOK
      <3>6. QED
        BY <3>4, <3>5
    <2>3. CASE collections[call[c].name] # None
      BY <1>3, <1>18, <2>1, <2>3 DEF CreateCollection, Turn, Ends, NamesAgree, PinsOK
    <2>4. QED
      BY <2>2, <2>3
  <1>19. CASE DropCollection(c)
    <2>1. Ends(c)
      BY <1>19, Turns
    <2>2. \A h \in Guard : h \in Reachable(collections', call') => guards'[h] = guards[h]
      BY <1>3, <1>19, CollectedKeeps DEF DropCollection
    <2>3. \A n \in Name : collections'[n] # None => collections'[n] = collections[n]
      BY <1>3, <1>19 DEF DropCollection
    <2>4. QED
      BY <1>3, <1>19, <2>1, <2>2, <2>3, NamesKept DEF Turn, Ends
  <1>20. CASE StartWalk(c)
    <2>1. Stays(c, call[c].pc)
      BY <1>20, Turns
    <2>2. QED
      BY <1>3, <1>20, <2>1 DEF StartWalk, Turn, Stays, NamesAgree, PinsOK
  <1>21. ASSUME NEW g \in Guard, Weigh(c, g) PROVE NamesAgree' /\ PinsOK'
    <2>1. Stays(c, call[c].pc)
      BY <1>21, Turns
    <2>2. QED
      BY <1>3, <1>21, <2>1 DEF Weigh, Turn, Stays, NamesAgree, PinsOK
  <1>22. CASE FinishSnapshot(c)
    <2>1. Ends(c) \/ Stays(c, "recompute")
      BY <1>22, Turns
    <2>2. QED
      BY <1>3, <1>22, <2>1 DEF FinishSnapshot, Turn, Stays, Ends, NamesAgree, PinsOK
  <1>23. CASE FinishRecompute(c)
    <2>1. Ends(c) \/ Stays(c, "pick")
      BY <1>23, Turns
    <2>2. QED
      BY <1>3, <1>23, <2>1 DEF FinishRecompute, Turn, Stays, Ends, NamesAgree, PinsOK
  <1>24. CASE StartPick(c)
    <2>1. Stays(c, "pick")
      BY <1>24, Turns
    <2>2. QED
      BY <1>3, <1>24, <2>1 DEF StartPick, Turn, Stays, NamesAgree, PinsOK
  <1>25. ASSUME NEW n \in Name, Inspect(c, n) PROVE NamesAgree' /\ PinsOK'
    <2>1. \/ Stays(c, "pick")
          \/ /\ collections[n] \in call[c].todo
             /\ Turn(c, "pick", call[c].op, n, call[c].held, guards[collections[n]].last_accessed)
      BY <1>25, Turns
    <2>2. QED
      BY <1>3, <1>25, <2>1
         DEF Inspect, Turn, Stays, At, FrameOK, Holding, NamesAgree, PinsOK
  <1>26. CASE PickVictim(c)
    <2>1. Ends(c) \/ (call[c].name # None /\ Moves(c, "remove", call[c].held, 0))
      BY <1>26, Turns
    <2>2. QED
      BY <1>3, <1>26, <2>1 DEF PickVictim, Turn, Moves, Ends, NamesAgree, PinsOK
  <1>27. CASE RemoveVictim(c)
    <2>1. Turn(c, "recompute", call[c].op, None, call[c].held, call[c].tick)
      BY <1>27, Turns
    <2>2. \A h \in Guard : h \in Reachable(collections', call') => guards'[h] = guards[h]
      BY <1>3, <1>27, CollectedKeeps DEF RemoveVictim
    <2>3. \A n \in Name : collections'[n] # None => collections'[n] = collections[n]
      BY <1>3, <1>27 DEF RemoveVictim
    <2>4. QED
      BY <1>3, <1>27, <2>1, <2>2, <2>3, NamesKept
         DEF Turn, RemoveVictim, At, FrameOK, Holding
  <1>28. QED
    BY <1>2, <1>4, <1>5, <1>6, <1>7, <1>8, <1>9, <1>10, <1>11, <1>12, <1>13, <1>14,
       <1>15, <1>16, <1>17, <1>18, <1>19, <1>20, <1>21, <1>22, <1>23, <1>24, <1>25,
       <1>26, <1>27
       DEF Step

(* A tick that is issued is none of those issued before.                   *)
LEMMA FreshTick ==
  ASSUME TypeOK, NEW t \in 0 .. MaxTick, t <= tick_counter
  PROVE  Differ(t, NextTick) /\ Differ(NextTick, t) /\ t <= NextTick
  BY BoundAssumption DEF TypeOK, NextTick, Differ

(* A step that issues no tick.                                             *)
LEMMA TicksKept ==
  ASSUME TicksOK, Live' \subseteq Live, tick_counter' = tick_counter,
         \A h \in Live' : guards'[h].last_accessed = guards[h].last_accessed,
         \A d \in Client : call'[d].pc = "touch" =>
           call[d].pc = "touch" /\ call'[d].tick = call[d].tick
  PROVE  TicksOK'
  BY DEF TicksOK, At, Differ

(* A step that stores a new tick in one guard of the map.                  *)
LEMMA TickIssued ==
  ASSUME TypeOK, TypeOK', TicksOK, NEW g, Live' \subseteq Live \cup {g},
         tick_counter' = NextTick, guards'[g].last_accessed = NextTick,
         \A h \in Guard \ {g} : guards'[h] = guards[h],
         \A d \in Client : call'[d].pc = "touch" =>
           call[d].pc = "touch" /\ call'[d].tick = call[d].tick
  PROVE  TicksOK'
  <1>1. /\ \A h \in Live : h \in Guard /\ guards[h].last_accessed \in 0 .. MaxTick
        /\ \A d \in Client : call[d].tick \in 0 .. MaxTick
        /\ NextTick \in 0 .. MaxTick
    BY NextTickType DEF TypeOK, Live, Allocation, Frame
  <1>2. \A h \in Live : LET t == guards[h].last_accessed IN
          Differ(t, NextTick) /\ Differ(NextTick, t) /\ t <= NextTick
    BY <1>1, FreshTick DEF TicksOK
  <1>3. \A d \in Client : At(d, "touch") => LET t == call[d].tick IN
          Differ(t, NextTick) /\ t <= NextTick
    BY <1>1, FreshTick DEF TicksOK
  <1>4. \A d \in Client : At(d, "touch")' => At(d, "touch") /\ call'[d].tick = call[d].tick
    BY DEF At
  <1>5. \A h \in Live' : h # g => h \in Live /\ guards'[h] = guards[h]
    BY <1>1
  <1>6. \A h \in Live' : /\ guards'[h].last_accessed <= tick_counter'
                          /\ \A k \in Live' : h # k =>
                               Differ(guards'[h].last_accessed, guards'[k].last_accessed)
    <2>1. ASSUME NEW h \in Live' PROVE guards'[h].last_accessed <= tick_counter'
      BY <1>1, <1>2, <1>5, <2>1
    <2>2. ASSUME NEW h \in Live', NEW k \in Live', h # k
          PROVE  Differ(guards'[h].last_accessed, guards'[k].last_accessed)
      <3>1. CASE h # g /\ k # g
        BY <1>5, <2>2, <3>1 DEF TicksOK
      <3>2. CASE h = g \/ k = g
        BY <1>2, <1>5, <2>2, <3>2
      <3>3. QED
        BY <3>1, <3>2
    <2>3. QED
      BY <2>1, <2>2
  <1>7. ASSUME NEW d \in Client, At(d, "touch")'
        PROVE  /\ call'[d].tick <= tick_counter'
               /\ \A h \in Live' : Differ(call'[d].tick, guards'[h].last_accessed)
               /\ \A e \in Client :
                    (At(e, "touch")' /\ d # e) => Differ(call'[d].tick, call'[e].tick)
    <2>1. call'[d].tick <= tick_counter'
      BY <1>1, <1>3, <1>4, <1>7
    <2>2. ASSUME NEW h \in Live' PROVE Differ(call'[d].tick, guards'[h].last_accessed)
      <3>1. CASE h # g
        BY <1>4, <1>5, <1>7, <2>2, <3>1 DEF TicksOK
      <3>2. CASE h = g
        BY <1>3, <1>4, <1>7, <2>2, <3>2
      <3>3. QED
        BY <3>1, <3>2
    <2>3. \A e \in Client : (At(e, "touch")' /\ d # e) => Differ(call'[d].tick, call'[e].tick)
      BY <1>4, <1>7 DEF TicksOK
    <2>4. QED
      BY <2>1, <2>2, <2>3
  <1>8. QED
    BY <1>6, <1>7 DEF TicksOK

(* Ticks.  Those in the map and those about to be stored stay distinct.    *)
LEMMA TicksStep ==
  ASSUME TypeOK, FramesOK, OuterOK, TicksOK, Next
  PROVE  TicksOK'
  <1>1. TypeOK /\ FramesOK /\ TypeOK'
    BY TypeStep
  <1>2. PICK c \in Client :
          \/ \E op \in OpNames, n \in Name \cup {None} : Call(c, op, n)
          \/ Step(c)
    BY DEF Next
  <1>3. /\ call[c] \in Frame /\ FrameOK(call[c], Ops[c]) /\ call \in [Client -> Frame]
        /\ guards \in [Guard -> Allocation] /\ collections \in [Name -> Guard \cup {None}]
        /\ tick_counter \in 0 .. MaxTick /\ NextTick \in 0 .. MaxTick
        /\ \A h \in Live : h \in Guard /\ guards[h].last_accessed \in 0 .. MaxTick
        /\ \A d \in Client : call[d].tick \in 0 .. MaxTick
        /\ TypeOK' /\ None \notin Guard
    <2>1. NextTick \in 0 .. MaxTick
      BY NextTickType
    <2>2. \A h \in Live : h \in Guard
      BY DEF TypeOK, Live
    <2>3. /\ call \in [Client -> Frame] /\ guards \in [Guard -> Allocation]
          /\ collections \in [Name -> Guard \cup {None}] /\ tick_counter \in 0 .. MaxTick
          /\ call[c] \in Frame /\ FrameOK(call[c], Ops[c])
      BY DEF TypeOK, FramesOK
    <2>4. /\ \A h \in Live : guards[h].last_accessed \in 0 .. MaxTick
          /\ \A d \in Client : call[d].tick \in 0 .. MaxTick
      BY <2>2, <2>3 DEF Frame, Allocation
    <2>5. QED
      BY <1>1, <2>1, <2>2, <2>3, <2>4, GuardAssumption
  <1>4. ASSUME NEW op \in OpNames, NEW n \in Name \cup {None}, Call(c, op, n)
        PROVE  TicksOK'
    <2>1. \E pc \in {"snapshot", "recompute", "embed", "lookup", "create", "drop"} :
            Turn(c, pc, op, n, None, 0)
      BY <1>4, Turns DEF FirstStep, OpNames, Writes, Searches, Indexes
    <2>2. Live' = Live /\ guards' = guards /\ tick_counter' = tick_counter
      BY <1>4 DEF Call, Live
    <2>3. QED
      BY <1>3, <1>4, <2>1, <2>2, TicksKept DEF Turn
  <1>5. CASE Embed(c)
    <2>1. Stays(c, "lookup")
      BY <1>5, Turns
    <2>2. Live' = Live /\ guards' = guards /\ tick_counter' = tick_counter
      BY <1>5 DEF Embed, Live
    <2>3. QED
      BY <1>3, <1>5, <2>1, <2>2, TicksKept DEF Turn, Stays
  <1>6. CASE EmbedFails(c)
    <2>1. Ends(c)
      BY <1>6, Turns
    <2>2. Live' = Live /\ guards' = guards /\ tick_counter' = tick_counter
      BY <1>6 DEF EmbedFails, Live
    <2>3. QED
      BY <1>3, <1>6, <2>1, <2>2, TicksKept DEF Turn, Ends
  <1>7. CASE Lookup(c)
    <2>1. Moves(c, "tick", collections[call[c].name], call[c].tick)
      BY <1>7, Turns
    <2>2. Live' = Live /\ guards' = guards /\ tick_counter' = tick_counter
      BY <1>7 DEF Lookup, Live
    <2>3. QED
      BY <1>3, <1>7, <2>1, <2>2, TicksKept DEF Turn, Moves
  <1>8. CASE LookupMissing(c)
    <2>1. Ends(c) \/ Stays(c, "autocreate")
      BY <1>8, Turns
    <2>2. Live' = Live /\ guards' = guards /\ tick_counter' = tick_counter
      BY <1>8 DEF LookupMissing, Live
    <2>3. QED
      BY <1>3, <1>8, <2>1, <2>2, TicksKept DEF Turn, Stays, Ends
  <1>9. CASE TakeTick(c)
    <2>1. Moves(c, "touch", call[c].held, NextTick)
      BY <1>9, Turns
    <2>2. Live' = Live /\ guards' = guards /\ tick_counter' = NextTick
      BY <1>9 DEF TakeTick, Live
    <2>3. \A d \in Client \ {c} : At(d, "touch")' => At(d, "touch") /\ call'[d] = call[d]
      BY <2>1 DEF At, Turn, Moves
    <2>4. \A h \in Live : Differ(NextTick, guards[h].last_accessed)
      BY <1>3, FreshTick DEF TicksOK
    <2>5. \A d \in Client : At(d, "touch") => /\ Differ(NextTick, call[d].tick)
                                             /\ Differ(call[d].tick, NextTick)
                                             /\ call[d].tick <= NextTick
      BY <1>3, FreshTick DEF TicksOK
    <2>6. \A h \in Live : guards[h].last_accessed <= NextTick
      BY <1>3, FreshTick DEF TicksOK
    <2>7. call'[c].tick = NextTick
      BY <2>1 DEF Turn, Moves
    <2>8. QED
      BY <1>3, <2>2, <2>3, <2>4, <2>5, <2>6, <2>7 DEF TicksOK
  <1>10. CASE Touch(c)
    <2>1. \E pc \in {"read", "write"} : Moves(c, pc, call[c].held, 0)
      BY <1>10, Turns
    <2> DEFINE g == call[c].held
    <2>2. g \in Guard /\ g \in Live /\ At(c, "touch")
      BY <1>3, <1>10 DEF Touch, At, FrameOK, Holding, Naming, OuterOK, Live
    <2>3. /\ Live' = Live /\ tick_counter' = tick_counter
          /\ guards'[g].last_accessed = call[c].tick
          /\ \A h \in Guard \ {g} : guards'[h] = guards[h]
      <3>1. Live' = Live /\ tick_counter' = tick_counter
        BY <1>10 DEF Touch, Live
      <3>2. /\ guards'[g].last_accessed = call[c].tick
            /\ \A h \in Guard \ {g} : guards'[h] = guards[h]
        BY <1>10, TouchedGuard
      <3>3. QED
        BY <3>1, <3>2
    <2> HIDE DEF g
    <2>4. \A h \in Live' \ {g} : /\ Differ(call[c].tick, guards[h].last_accessed)
                                /\ Differ(guards[h].last_accessed, call[c].tick)
      BY <1>3, <2>2, <2>3 DEF TicksOK, Differ
    <2>5. \A d \in Client : At(d, "touch")' => At(d, "touch") /\ c # d /\ call'[d] = call[d]
      BY <2>1 DEF At, Turn, Moves
    <2>6. QED
      BY <1>3, <2>2, <2>3, <2>4, <2>5 DEF TicksOK
  <1>11. CASE AutoCreateFound(c)
    <2>1. Moves(c, "write", collections[call[c].name], call[c].tick)
      BY <1>11, Turns
    <2> DEFINE g == collections[call[c].name]
    <2>2. g \in Guard /\ g \in Live
      BY <1>3, <1>11 DEF AutoCreateFound, At, FrameOK, Naming, Live
    <2>3. /\ Live' = Live /\ tick_counter' = NextTick
          /\ guards'[g].last_accessed = NextTick
          /\ \A h \in Guard \ {g} : guards'[h] = guards[h]
      <3>1. Live' = Live /\ tick_counter' = NextTick
        BY <1>11 DEF AutoCreateFound, Live
      <3>2. /\ guards'[g].last_accessed = NextTick
            /\ \A h \in Guard \ {g} : guards'[h] = guards[h]
        BY <1>11, TouchedGuard
      <3>3. QED
        BY <3>1, <3>2
    <2> HIDE DEF g
    <2>4. QED
      BY <1>3, <2>1, <2>2, <2>3, TickIssued DEF Turn, Moves
  <1>12. CASE AutoCreate(c)
    <2>1. Moves(c, "write", Min(Unallocated), call[c].tick)
      BY <1>12, Turns
    <2>2. /\ Min(Unallocated) \in Guard /\ Min(Unallocated) # None
          /\ Min(Unallocated) \notin Reachable(collections, call)
          /\ call[c].name \in Name
      BY <1>12, AllocationStep
    <2> DEFINE g == Min(Unallocated)
    <2>3. /\ g \notin Live /\ g \in Live' /\ Live' \subseteq Live \cup {g}
          /\ guards'[g] = NewGuard(call[c].name)
          /\ \A h \in Guard \ {g} : guards'[h] = guards[h]
          /\ tick_counter' = NextTick
      BY <1>3, <1>12, <2>2 DEF AutoCreate, Reachable, Live
    <2> HIDE DEF g
    <2>4. guards'[g].last_accessed = NextTick
      BY <2>3, NewGuardFields
    <2>5. QED
      BY <1>3, <2>1, <2>3, <2>4, TickIssued DEF Turn, Moves
  <1>13. CASE ClaimInner(c)
    <2>1. Stays(c, "mutate")
      BY <1>13, Turns
    <2>2. Live' = Live /\ guards' = guards /\ tick_counter' = tick_counter
      BY <1>13 DEF ClaimInner, Live
    <2>3. QED
      BY <1>3, <1>13, <2>1, <2>2, TicksKept DEF Turn, Stays
  <1>14. CASE Mutate(c)
    <2>1. Ends(c)
      BY <1>14, Turns
    <2>2. \A h \in Guard : h \in Reachable(collections, call') =>
            guards'[h].last_accessed = guards[h].last_accessed
      BY <1>14, WrittenGuard
    <2>3. \A h \in Live : h \in Guard /\ h \in Reachable(collections, call')
      BY <1>3 DEF Live, Reachable
    <2>4. Live' = Live /\ tick_counter' = tick_counter
      BY <1>14 DEF Mutate, Live
    <2>5. QED
      BY <1>3, <2>1, <2>2, <2>3, <2>4, TicksKept DEF Turn, Ends
  <1>15. CASE StartSearch(c)
    <2>1. Stays(c, "reading")
      BY <1>15, Turns
    <2>2. Live' = Live /\ guards' = guards /\ tick_counter' = tick_counter
      BY <1>15 DEF StartSearch, Live
    <2>3. QED
      BY <1>3, <1>15, <2>1, <2>2, TicksKept DEF Turn, Stays
  <1>16. CASE FinishSearch(c)
    <2>1. Ends(c)
      BY <1>16, Turns
    <2>2. \A h \in Guard : h \in Reachable(collections', call') => guards'[h] = guards[h]
      BY <1>3, <1>16, CollectedKeeps DEF FinishSearch
    <2>3. /\ Live' \subseteq Live /\ tick_counter' = tick_counter
          /\ \A h \in Live' : h \in Guard /\ h \in Reachable(collections', call')
      BY <1>3, <1>16 DEF FinishSearch, Live, Reachable
    <2>4. QED
      BY <1>3, <2>1, <2>2, <2>3, TicksKept DEF Turn, Ends
  <1>17. CASE ClaimOuter(c)
    <2>1. Stays(c, call[c].pc)
      BY <1>17, Turns
    <2>2. Live' = Live /\ guards' = guards /\ tick_counter' = tick_counter
      BY <1>17 DEF ClaimOuter, Live
    <2>3. QED
      BY <1>3, <1>17, <2>1, <2>2, TicksKept DEF Turn, Stays, ClaimOuter, At, Claiming
  <1>18. CASE CreateCollection(c)
    <2>1. Ends(c)
      BY <1>18, Turns
    <2>2. CASE collections[call[c].name] = None
      <3>1. /\ Min(Unallocated) \in Guard /\ Min(Unallocated) # None
            /\ Min(Unallocated) \notin Reachable(collections, call)
            /\ call[c].name \in Name
        BY <1>18, <2>2, AllocationStep
      <3> DEFINE g == Min(Unallocated)
      <3>2. /\ g \notin Live /\ g \in Live' /\ Live' \subseteq Live \cup {g}
            /\ guards'[g] = NewGuard(call[c].name)
            /\ \A h \in Guard \ {g} : guards'[h] = guards[h]
            /\ tick_counter' = NextTick
        BY <1>3, <1>18, <2>2, <3>1 DEF CreateCollection, Reachable, Live
      <3> HIDE DEF g
      <3>3. guards'[g].last_accessed = NextTick
        BY <3>2, NewGuardFields
      <3>4. QED
        BY <1>3, <2>1, <3>2, <3>3, TickIssued DEF Turn, Ends
    <2>3. CASE collections[call[c].name] # None
      BY <1>3, <1>18, <2>1, <2>3, TicksKept DEF CreateCollection, Live, Turn, Ends
    <2>4. QED
      BY <2>2, <2>3
  <1>19. CASE DropCollection(c)
    <2>1. Ends(c)
      BY <1>19, Turns
    <2>2. \A h \in Guard : h \in Reachable(collections', call') => guards'[h] = guards[h]
      BY <1>3, <1>19, CollectedKeeps DEF DropCollection
    <2>3. /\ Live' \subseteq Live /\ tick_counter' = tick_counter
          /\ \A h \in Live' : h \in Guard /\ h \in Reachable(collections', call')
      BY <1>3, <1>19 DEF DropCollection, Live, Reachable
    <2>4. QED
      BY <1>3, <2>1, <2>2, <2>3, TicksKept DEF Turn, Ends
  <1>20. CASE StartWalk(c)
    <2>1. Stays(c, call[c].pc)
      BY <1>20, Turns
    <2>2. Live' = Live /\ guards' = guards /\ tick_counter' = tick_counter
      BY <1>20 DEF StartWalk, Live
    <2>3. QED
      BY <1>3, <1>20, <2>1, <2>2, TicksKept DEF Turn, Stays, StartWalk, At, Walks
  <1>21. ASSUME NEW g \in Guard, Weigh(c, g) PROVE TicksOK'
    <2>1. Stays(c, call[c].pc)
      BY <1>21, Turns
    <2>2. Live' = Live /\ guards' = guards /\ tick_counter' = tick_counter
      BY <1>21 DEF Weigh, Live
    <2>3. QED
      BY <1>3, <1>21, <2>1, <2>2, TicksKept DEF Turn, Stays, Weigh, At, Walks
  <1>22. CASE FinishSnapshot(c)
    <2>1. Ends(c) \/ Stays(c, "recompute")
      BY <1>22, Turns
    <2>2. Live' = Live /\ guards' = guards /\ tick_counter' = tick_counter
      BY <1>22 DEF FinishSnapshot, Live
    <2>3. QED
      BY <1>3, <1>22, <2>1, <2>2, TicksKept DEF Turn, Stays, Ends
  <1>23. CASE FinishRecompute(c)
    <2>1. Ends(c) \/ Stays(c, "pick")
      BY <1>23, Turns
    <2>2. Live' = Live /\ guards' = guards /\ tick_counter' = tick_counter
      BY <1>23 DEF FinishRecompute, Live
    <2>3. QED
      BY <1>3, <1>23, <2>1, <2>2, TicksKept DEF Turn, Stays, Ends
  <1>24. CASE StartPick(c)
    <2>1. Stays(c, "pick")
      BY <1>24, Turns
    <2>2. Live' = Live /\ guards' = guards /\ tick_counter' = tick_counter
      BY <1>24 DEF StartPick, Live
    <2>3. QED
      BY <1>3, <1>24, <2>1, <2>2, TicksKept DEF Turn, Stays
  <1>25. ASSUME NEW n \in Name, Inspect(c, n) PROVE TicksOK'
    <2>1. \/ Stays(c, "pick")
          \/ /\ collections[n] \in call[c].todo
             /\ Turn(c, "pick", call[c].op, n, call[c].held, guards[collections[n]].last_accessed)
      BY <1>25, Turns
    <2>2. Live' = Live /\ guards' = guards /\ tick_counter' = tick_counter
      BY <1>25 DEF Inspect, Live
    <2>3. QED
      BY <1>3, <1>25, <2>1, <2>2, TicksKept DEF Turn, Stays
  <1>26. CASE PickVictim(c)
    <2>1. Ends(c) \/ (call[c].name # None /\ Moves(c, "remove", call[c].held, 0))
      BY <1>26, Turns
    <2>2. Live' = Live /\ guards' = guards /\ tick_counter' = tick_counter
      BY <1>26 DEF PickVictim, Live
    <2>3. QED
      BY <1>3, <1>26, <2>1, <2>2, TicksKept DEF Turn, Moves, Ends
  <1>27. CASE RemoveVictim(c)
    <2>1. Turn(c, "recompute", call[c].op, None, call[c].held, call[c].tick)
      BY <1>27, Turns
    <2>2. \A h \in Guard : h \in Reachable(collections', call') => guards'[h] = guards[h]
      BY <1>3, <1>27, CollectedKeeps DEF RemoveVictim
    <2>3. /\ Live' \subseteq Live /\ tick_counter' = tick_counter
          /\ \A h \in Live' : h \in Guard /\ h \in Reachable(collections', call')
      BY <1>3, <1>27 DEF RemoveVictim, Live, Reachable
    <2>4. QED
      BY <1>3, <2>1, <2>2, <2>3, TicksKept DEF Turn
  <1>28. QED
    BY <1>2, <1>4, <1>5, <1>6, <1>7, <1>8, <1>9, <1>10, <1>11, <1>12, <1>13, <1>14,
       <1>15, <1>16, <1>17, <1>18, <1>19, <1>20, <1>21, <1>22, <1>23, <1>24, <1>25,
       <1>26, <1>27
       DEF Step

(* The locks seen from the others: nobody else's hold on the map changes,  *)
(* and the map only changes while nobody reads it.                         *)
LEMMA ReadersStep ==
  ASSUME TypeOK, NEW c \in Client,
         Step(c) \/ \E op \in OpNames, n \in Name \cup {None} : Call(c, op, n)
  PROVE  /\ \A d \in Client \ {c} : d \in outer'.readers <=> d \in outer.readers
         /\ collections' # collections => outer.readers = {} /\ outer'.readers = {}
  <1>1. outer \in Lock
    BY DEF TypeOK
  <1>2. CASE Lookup(c) \/ StartWalk(c) \/ StartPick(c)
    BY <1>1, <1>2 DEF Lookup, StartWalk, StartPick, AddReader, Lock
  <1>3. CASE Touch(c) \/ FinishSnapshot(c) \/ FinishRecompute(c) \/ PickVictim(c)
    BY <1>1, <1>3 DEF Touch, FinishSnapshot, FinishRecompute, PickVictim, RemoveReader, Lock
  <1>4. CASE ClaimOuter(c)
    BY <1>1, <1>4 DEF ClaimOuter, Claimed, Lock
  <1>5. CASE AutoCreateFound(c) \/ AutoCreate(c) \/ CreateCollection(c) \/ DropCollection(c)
             \/ RemoveVictim(c)
    BY <1>5 DEF AutoCreateFound, AutoCreate, CreateCollection, DropCollection, RemoveVictim,
                Entered, Unlocked
  <1>6. CASE outer' = outer /\ collections' = collections
    BY <1>6
  <1>7. QED
    BY <1>2, <1>3, <1>4, <1>5, <1>6
       DEF Step, Call, Embed, EmbedFails, LookupMissing, TakeTick, ClaimInner, Mutate,
           StartSearch, FinishSearch, Weigh, Inspect

(* What a pick has to read: the map it read it from stays as it is until   *)
(* the pick is over.                                                       *)
LEMMA PicksStep ==
  ASSUME TypeOK, FramesOK, PinsOK, PicksOK, Next
  PROVE  PicksOK'
  <1>1. PICK c \in Client :
          \/ \E op \in OpNames, n \in Name \cup {None} : Call(c, op, n)
          \/ Step(c)
    BY DEF Next
  <1>2. /\ \A d \in Client \ {c} : d \in outer'.readers <=> d \in outer.readers
        /\ collections' # collections => outer.readers = {} /\ outer'.readers = {}
        /\ call[c] \in Frame /\ call \in [Client -> Frame] /\ outer \in Lock
    BY <1>1, ReadersStep DEF TypeOK
  <1>3. \A d \in Client \ {c} : call'[d] = call[d]
    <2>1. CASE Step(c)
      BY <2>1, Turns DEF Step, Moves, Stays, Ends, Turn
    <2>2. ASSUME NEW op \in OpNames, NEW n \in Name \cup {None}, Call(c, op, n)
          PROVE  \A d \in Client \ {c} : call'[d] = call[d]
      BY <2>2, Turns DEF Turn
    <2>3. QED
      BY <1>1, <2>1, <2>2
  <1> DEFINE Mine(d) == At(d, "pick") =>
               IF d \in outer.readers THEN \A n \in Pinned : collections[n] \notin call[d].todo
                                      ELSE call[d].todo = {}
  <1>4. ASSUME NEW d \in Client, call'[d] = call[d],
               d \in outer'.readers <=> d \in outer.readers
        PROVE  Mine(d)'
    BY <1>2, <1>4 DEF PicksOK, At
  <1>5. Mine(c)'
    <2>1. CASE FinishRecompute(c)
      <3>1. c \notin outer'.readers /\ call[c].todo = {}
        BY <1>2, <2>1 DEF FinishRecompute, Walked, RemoveReader, Lock
      <3>2. At(c, "pick")' => call'[c].todo = {}
        BY <1>2, <2>1, <3>1 DEF FinishRecompute, At, Return, Idle, Frame
      <3>3. QED
        BY <3>1, <3>2
    <2>2. CASE StartPick(c)
      <3>1. /\ c \in outer'.readers /\ collections' = collections
            /\ call'[c].todo = {collections[n] : n \in Candidates}
        BY <1>2, <2>2 DEF StartPick, AddReader, Lock, Frame
      <3>2. ASSUME NEW n \in Pinned, NEW m \in Candidates, collections[n] = collections[m]
            PROVE  FALSE
        BY <3>2, PinnedAssumption DEF PinsOK, Candidates
      <3>3. QED
        BY <3>1, <3>2
    <2>3. ASSUME NEW n \in Name, Inspect(c, n)
          PROVE  Mine(c)'
      <3>1. /\ outer' = outer /\ collections' = collections /\ At(c, "pick")
            /\ call'[c].todo \subseteq call[c].todo
        BY <1>2, <2>3 DEF Inspect, Frame
      <3>2. QED
        BY <3>1 DEF PicksOK, At
    <2>4. CASE ClaimOuter(c)
      <3>1. call'[c] = call[c] /\ outer'.readers = outer.readers
        BY <1>2, <2>4 DEF ClaimOuter, Claimed, Lock
      <3>2. QED
        BY <1>4, <3>1
    <2>5. ASSUME NEW op \in OpNames, NEW n \in Name \cup {None}, Call(c, op, n)
          PROVE  Mine(c)'
      <3>1. call'[c].pc = FirstStep(op)
        BY <2>5, Turns DEF Turn
      <3>2. FirstStep(op) # "pick"
        BY DEF FirstStep, OpNames, Writes, Indexes, Searches
      <3>3. QED
        BY <3>1, <3>2 DEF At
    <2>6. CASE StartWalk(c) \/ (\E g \in Guard : Weigh(c, g))
      <3>1. call'[c].pc = call[c].pc /\ call[c].pc \in Walks
        BY <2>6, Turns DEF Stays, Turn, StartWalk, Weigh
      <3>2. QED
        BY <3>1 DEF At, Walks
    <2>7. CASE \/ Embed(c) \/ EmbedFails(c) \/ Lookup(c) \/ LookupMissing(c) \/ TakeTick(c)
               \/ Touch(c) \/ AutoCreateFound(c) \/ AutoCreate(c) \/ ClaimInner(c) \/ Mutate(c)
               \/ StartSearch(c) \/ FinishSearch(c) \/ CreateCollection(c) \/ DropCollection(c)
               \/ FinishSnapshot(c) \/ PickVictim(c) \/ RemoveVictim(c)
      <3>1. call'[c].pc # "pick"
        BY <2>7, Turns DEF Moves, Stays, Ends, Turn
      <3>2. QED
        BY <3>1 DEF At
    <2>8. QED
      BY <1>1, <2>1, <2>2, <2>3, <2>4, <2>5, <2>6, <2>7 DEF Step
  <1>6. QED
    BY <1>2, <1>3, <1>4, <1>5 DEF PicksOK

-----------------------------------------------------------------------------
(* The invariant, kept by every step, and what it says of every reachable  *)
(* state.                                                                  *)
LEMMA NextInvariant == IInv /\ [Next]_vars => IInv'
  <1> SUFFICES ASSUME IInv, [Next]_vars PROVE IInv'
    OBVIOUS
  <1>1. CASE Next
    <2>1. TypeOK' /\ FramesOK'
      BY <1>1, TypeStep, FramesStep DEF IInv
    <2>2. OuterOK' /\ InnerOK'
      BY <1>1, OuterStep, InnerStep DEF IInv
    <2>3. NamesAgree' /\ PinsOK' /\ TicksOK'
      BY <1>1, NamesStep, TicksStep DEF IInv
    <2>4. PicksOK'
      BY <1>1, PicksStep DEF IInv
    <2>5. QED
      BY <2>1, <2>2, <2>3, <2>4 DEF IInv
  <1>2. CASE UNCHANGED vars
    <2>1. TypeOK' /\ FramesOK' /\ OuterOK' /\ InnerOK'
      BY <1>2 DEF IInv, vars, dbVars, TypeOK, FramesOK, OuterOK, InnerOK
    <2>2. NamesAgree' /\ PinsOK'
      BY <1>2 DEF IInv, vars, dbVars, NamesAgree, PinsOK
    <2>3. TicksOK' /\ PicksOK'
      BY <1>2 DEF IInv, vars, dbVars, TicksOK, PicksOK, Live, At
    <2>4. QED
      BY <2>1, <2>2, <2>3 DEF IInv
  <1>3. QED
    BY <1>1, <1>2

(* The inductive invariant holds in every reachable state.                 *)
THEOREM Invariant == Spec => []IInv
  BY InitInvariant, NextInvariant, PTL DEF Spec

(* Every variable of the database keeps its type, whichever calls overlap. *)
THEOREM TypeCorrect == Spec => []TypeOK
  <1>1. IInv => TypeOK
    BY DEF IInv
  <1>2. QED
    BY <1>1, Invariant, PTL

(* No two collections in the map were touched at the same tick, although   *)
(* ticks are taken under the shared lock and stored later                  *)
(* (database.rs:226-281, 288-291).                                         *)
THEOREM TicksNeverTie == Spec => []TicksDistinct
  <1>1. IInv => TicksDistinct
    BY DEF IInv, TicksOK, TicksDistinct, Differ
  <1>2. QED
    BY <1>1, Invariant, PTL

-----------------------------------------------------------------------------
(* Waiting.  Whoever waits for a lock waits for someone further on in the  *)
(* order in which locks are taken: first the map's, then a collection's.   *)

Rank(c) ==
  CASE call[c].pc = "mutate"            -> 1
    [] call[c].pc \in {"write", "read"} -> 2
    [] call[c].pc \in Walks \cup {"pick"} -> IF c \in outer.readers THEN 2 ELSE 4
    [] call[c].pc \in Claiming          -> IF outer.writer = c THEN 3 ELSE 4
    [] call[c].pc = "lookup"            -> 4
    [] OTHER -> 0

(* A rank is a number from 0 to 4.                                         *)
LEMMA RankType == \A c \in Client : Rank(c) \in 0 .. 4
  BY DEF Rank

(* Whoever is waited for is further on, and does not embed.                *)
LEMMA WaitsDownhill ==
  ASSUME IInv, NEW c \in Client, NEW d \in WaitsFor(c)
  PROVE  d \in Client /\ Rank(d) < Rank(c) /\ ~ At(d, "embed")
  <1>1. /\ TypeOK /\ OuterOK /\ InnerOK
        /\ outer \in Lock /\ inner \in [Guard -> Lock] /\ call \in [Client -> Frame]
        /\ call[c] \in Frame /\ FrameOK(call[c], Ops[c])
    BY DEF IInv, TypeOK, FramesOK
  <1>2. ASSUME d \in Holders(outer)
        PROVE  d \in Client /\ Rank(d) = 3 /\ ~ At(d, "embed")
    BY <1>1, <1>2 DEF Holders, Lock, OuterOK, Claiming, Walks, Rank, At
  <1>3. ASSUME d \in outer.readers
        PROVE  d \in Client /\ Rank(d) <= 2 /\ ~ At(d, "embed")
    BY <1>1, <1>3 DEF Lock, OuterOK, Walks, Claiming, Rank, At
  <1>4. ASSUME NEW g \in Guard, d \in Holders(inner[g])
        PROVE  d \in Client /\ Rank(d) = 1 /\ ~ At(d, "embed")
    <2>1. d = inner[g].writer /\ d \in Client
      BY <1>1, <1>4 DEF Holders, Lock
    <2>2. call[d].pc = "mutate"
      BY <1>1, <2>1 DEF InnerOK
    <2>3. Rank(d) = 1
      BY <2>2 DEF Rank, Walks, Claiming
    <2>4. QED
      BY <2>1, <2>2, <2>3 DEF At
  <1>5. ASSUME NEW g \in Guard, d \in inner[g].readers
        PROVE  d \in Client /\ Rank(d) = 0 /\ ~ At(d, "embed")
    BY <1>1, <1>5 DEF Lock, InnerOK, Rank, Walks, Claiming, At
  <1>6. CASE call[c].pc = "lookup"
    BY <1>2, <1>6 DEF WaitsFor, Rank, Walks, Claiming, At
  <1>7. CASE call[c].pc \in Walks \cup {"pick"} /\ c \notin outer.readers
    BY <1>2, <1>7 DEF At, WaitsFor, Rank, Walks, Claiming
  <1>8. CASE call[c].pc \in Walks /\ c \in outer.readers
    <2>1. PICK g \in call[c].todo : d \in Holders(inner[g])
      BY <1>8 DEF At, WaitsFor, Walks
    <2>2. g \in Guard
      BY <1>1, <2>1 DEF Frame
    <2>3. QED
      BY <1>4, <1>8, <2>1, <2>2 DEF Rank, Walks
  <1>9. CASE call[c].pc \in Claiming
    BY <1>2, <1>3, <1>9, RankType DEF At, WaitsFor, Rank, Walks, Claiming
  <1>10. CASE call[c].pc \in {"write", "mutate", "read"}
    <2>1. call[c].held \in Guard
      BY <1>1, <1>10 DEF FrameOK, Holding, Frame
    <2>2. QED
      BY <1>4, <1>5, <1>10, <2>1 DEF At, WaitsFor, Rank, Walks
  <1>11. CASE \/ call[c].pc \in {"idle", "embed", "tick", "touch", "reading"}
              \/ call[c].pc = "pick" /\ c \in outer.readers
    BY <1>11 DEF WaitsFor, Walks, At
  <1>12. QED
    BY <1>1, <1>6, <1>7, <1>8, <1>9, <1>10, <1>11 DEF Frame, PCs, Walks, Claiming

(* In a group that waits on itself somebody is furthest on, and waits for  *)
(* somebody further.                                                       *)
LEMMA NoCycle ==
  ASSUME IInv
  PROVE  NoWaitCycle
  <1>1. SUFFICES ASSUME NEW group \in (SUBSET Client) \ {{}},
                        \A c \in group : WaitsFor(c) \cap group # {}
                 PROVE  FALSE
    BY DEF NoWaitCycle
  <1> DEFINE ranks == {Rank(c) : c \in group}
  <1>2. ranks \in SUBSET Nat /\ ranks # {}
    BY <1>1, RankType
  <1>3. Min(ranks) \in ranks /\ \A r \in ranks : Min(ranks) <= r
    <2> HIDE DEF ranks
    <2>1. QED
      BY <1>2, MinMember
  <1>4. PICK c \in group : Rank(c) = Min(ranks)
    BY <1>3
  <1>5. PICK d \in group : d \in WaitsFor(c)
    BY <1>1
  <1>6. Rank(d) < Rank(c)
    BY <1>5, WaitsDownhill
  <1>7. Rank(c) <= Rank(d)
    BY <1>3, <1>4
  <1>8. QED
    BY <1>6, <1>7, RankType

(* No group of calls waits on itself, of however many calls it consists    *)
(* (database.rs:226-281, 298-350).                                         *)
THEOREM DeadlockFree == Spec => []NoWaitCycle
  BY Invariant, NoCycle, PTL

(* All clients but one who embeds wait for nobody who embeds.              *)
LEMMA NobodyHeldUp ==
  ASSUME IInv
  PROVE  EmbeddingHoldsUpNobody
  <1>1. SUFFICES ASSUME NEW c \in Client, NEW d \in Client, c # d, At(c, "embed"),
                        HeldUpBy(d, c)
                 PROVE  FALSE
    BY DEF EmbeddingHoldsUpNobody
  <1>2. \A x \in Client : WaitsFor(x) \subseteq Client \ {c}
    BY <1>1, WaitsDownhill
  <1>3. QED
    BY <1>1, <1>2 DEF HeldUpBy

(* The embedding of a text holds nobody up, through however many others    *)
(* (mcp/mod.rs:186-202, 316-330).                                          *)
THEOREM EmbeddingLocksNothing == Spec => []EmbeddingHoldsUpNobody
  BY Invariant, NobodyHeldUp, PTL

-----------------------------------------------------------------------------
(* A pinned collection leaves the map by a drop call for it and never by   *)
(* an eviction, however late the victim is removed                         *)
(* (database.rs:343-369).                                                  *)
THEOREM PinnedStay == Spec => PinnedNeverEvicted
  <1>1. ASSUME IInv, Next, NEW n \in Pinned, collections[n] # None,
               collections'[n] # collections[n]
        PROVE  \E c \in Client : call[c].op = "drop" /\ call[c].name = n
    <2>1. PICK c \in Client :
            \/ \E op \in OpNames, m \in Name \cup {None} : Call(c, op, m)
            \/ Step(c)
      BY <1>1 DEF Next
    <2>2. /\ n \in Name /\ FrameOK(call[c], Ops[c])
          /\ collections \in [Name -> Guard \cup {None}]
      BY <1>1, PinnedAssumption DEF IInv, FramesOK, TypeOK
    <2>3. CASE AutoCreate(c) \/ CreateCollection(c)
      BY <1>1, <2>2, <2>3 DEF AutoCreate, CreateCollection
    <2>4. CASE DropCollection(c)
      BY <1>1, <2>2, <2>4 DEF DropCollection, At, FrameOK
    <2>5. CASE RemoveVictim(c)
      BY <1>1, <2>2, <2>5 DEF RemoveVictim, At, FrameOK
    <2>6. CASE collections' = collections
      BY <1>1, <2>6
    <2>7. QED
      BY <2>1, <2>3, <2>4, <2>5, <2>6
         DEF Step, Call, Embed, EmbedFails, Lookup, LookupMissing, TakeTick, Touch,
             AutoCreateFound, ClaimInner, Mutate, StartSearch, FinishSearch, ClaimOuter,
             StartWalk, Weigh, FinishSnapshot, FinishRecompute, StartPick, Inspect, PickVictim
  <1>2. QED
    <2> DEFINE Step1 == \A n \in Pinned :
             (collections[n] # None /\ collections'[n] # collections[n]) =>
               \E c \in Client : call[c].op = "drop" /\ call[c].name = n
    <2>1. IInv /\ [Next]_vars => [Step1]_vars
      BY <1>1
    <2>2. QED
      BY <2>1, Invariant, PTL DEF Spec, PinnedNeverEvicted

-----------------------------------------------------------------------------
(* What a lookup or an auto-create hands out is what the name leads to,    *)
(* and a call at work on it loses it to a drop or an eviction of that name *)
(* and to nothing else (database.rs:226-281).                              *)
THEOREM OrphansWereRemoved == Spec => OrphanedByRemovalOnly
  <1> DEFINE Taken(d, n) == /\ call[d].pc \in {"drop", "remove"} /\ call'[d] # call[d]
                            /\ call[d].name = n
             Keeps(c) == (call'[c].held # None /\ (call[c].held = None \/ Reaches(c))) =>
                           Reaches(c)' \/ \E d \in Client : Taken(d, call[c].name)
  <1>1. ASSUME IInv, Next, NEW c \in Client
        PROVE  Keeps(c)
    <2>1. SUFFICES ASSUME call'[c].held # None, call[c].held = None \/ Reaches(c)
                   PROVE  Reaches(c)' \/ \E d \in Client : Taken(d, call[c].name)
      OBVIOUS
    <2>2. PICK b \in Client :
            \/ \E op \in OpNames, n \in Name \cup {None} : Call(b, op, n)
            \/ Step(b)
      BY <1>1 DEF Next
    <2>3. /\ TypeOK /\ FramesOK /\ OuterOK /\ call[b] \in Frame /\ call[c] \in Frame
          /\ FrameOK(call[b], Ops[b]) /\ FrameOK(call[c], Ops[c])
          /\ collections \in [Name -> Guard \cup {None}] /\ None \notin Guard
      BY <1>1, GuardAssumption DEF IInv, FramesOK, TypeOK
    <2>4. \A d \in Client \ {b} : call'[d] = call[d]
      <3>1. CASE Step(b)
        BY <2>3, <3>1, Turns DEF Step, Moves, Stays, Ends, Turn
      <3>2. ASSUME NEW op \in OpNames, NEW n \in Name \cup {None}, Call(b, op, n)
            PROVE  \A d \in Client \ {b} : call'[d] = call[d]
        BY <2>3, <3>2, Turns DEF Turn
      <3>3. QED
        BY <2>2, <3>1, <3>2
    <2>5. CASE Lookup(b) \/ AutoCreateFound(b)
      <3>1. /\ collections' = collections /\ call'[b].held = collections[call[b].name]
            /\ call'[b].name = call[b].name /\ call'[b].held # None
        BY <2>3, <2>5, Turns DEF Lookup, AutoCreateFound, Moves, Turn
      <3>2. QED
        BY <2>1, <2>4, <3>1 DEF Reaches
    <2>6. CASE AutoCreate(b) \/ (CreateCollection(b) /\ collections[call[b].name] = None)
      <3>1. /\ collections[call[b].name] = None /\ call[b].name \in Name
            /\ collections' = [collections EXCEPT ![call[b].name] = Min(Unallocated)]
            /\ Min(Unallocated) # None
        BY <2>3, <2>6, AllocationStep DEF AutoCreate, CreateCollection
      <3>2. CASE b = c
        BY <2>1, <2>3, <2>6, <3>1, <3>2, Turns DEF Moves, Ends, Turn, Reaches
      <3>3. CASE b # c
        <4>1. call'[c] = call[c] /\ Reaches(c)
          BY <2>1, <2>4, <3>3
        <4>2. call[c].name # call[b].name
          BY <3>1, <4>1 DEF Reaches
        <4>3. collections'[call[c].name] = collections[call[c].name]
          BY <2>3, <3>1, <4>1, <4>2 DEF Reaches, FrameOK, Naming
        <4>4. QED
          BY <4>1, <4>3 DEF Reaches
      <3>4. QED
        BY <3>2, <3>3
    <2>7. CASE DropCollection(b) \/ RemoveVictim(b)
      <3>1. /\ call[b].pc \in {"drop", "remove"} /\ call[b].name \in Name
            /\ collections' = [collections EXCEPT ![call[b].name] = None]
        BY <2>3, <2>7 DEF DropCollection, RemoveVictim, At, FrameOK, Naming
      <3>2. /\ call'[b].pc \notin {"drop", "remove"}
            /\ call'[b].held = None
        BY <2>3, <2>7, <3>1, Turns DEF Ends, Turn, FrameOK, Holding
      <3>3. b # c /\ call'[c] = call[c] /\ Reaches(c)
        BY <2>1, <2>4, <3>2
      <3>4. CASE call[b].name = call[c].name
        BY <3>1, <3>2, <3>4
      <3>5. CASE call[b].name # call[c].name
        BY <2>3, <3>1, <3>3, <3>5 DEF Reaches, FrameOK, Naming
      <3>6. QED
        BY <3>4, <3>5
    <2>8. CASE collections' = collections /\ call'[b].held \in {None, call[b].held}
               /\ (call'[b].held # None => call'[b].name = call[b].name)
      BY <2>1, <2>4, <2>8 DEF Reaches
    <2>9. ASSUME \/ \E op \in OpNames, n \in Name \cup {None} : Call(b, op, n)
                 \/ Embed(b) \/ EmbedFails(b) \/ LookupMissing(b) \/ TakeTick(b) \/ Touch(b)
                 \/ ClaimInner(b) \/ Mutate(b) \/ StartSearch(b) \/ FinishSearch(b)
                 \/ ClaimOuter(b) \/ StartWalk(b) \/ (\E g \in Guard : Weigh(b, g))
                 \/ FinishSnapshot(b) \/ FinishRecompute(b) \/ StartPick(b) \/ PickVictim(b)
                 \/ (\E n \in Name : Inspect(b, n))
                 \/ (CreateCollection(b) /\ collections[call[b].name] # None)
          PROVE  /\ collections' = collections /\ call'[b].held \in {None, call[b].held}
                 /\ call'[b].held # None => call'[b].name = call[b].name
      <3>1. collections' = collections
        BY <2>9 DEF Call, Embed, EmbedFails, LookupMissing, TakeTick, Touch, ClaimInner, Mutate,
             StartSearch, FinishSearch, ClaimOuter, StartWalk, Weigh, FinishSnapshot,
             FinishRecompute, StartPick, Inspect, PickVictim, CreateCollection
      <3>2. CASE \E n \in Name : Inspect(b, n)
        <4>1. call[b].held = None
          BY <2>3, <3>2 DEF Inspect, At, FrameOK, Holding
        <4>2. QED
          BY <2>3, <3>1, <3>2, <4>1, Turns DEF Stays, Turn
      <3>3. CASE ~ \E n \in Name : Inspect(b, n)
        BY <2>3, <2>9, <3>1, <3>3, Turns DEF Moves, Stays, Ends, Turn
      <3>4. QED
        BY <3>2, <3>3
    <2>10. QED
      BY <2>2, <2>5, <2>6, <2>7, <2>8, <2>9 DEF Step
  <1>2. QED
    <2> DEFINE Step1 == \A c \in Client :
             (call'[c].held # None /\ (call[c].held = None \/ Reaches(c))) =>
               \/ Reaches(c)'
               \/ \E d \in Client : /\ call[d].pc \in {"drop", "remove"} /\ call'[d] # call[d]
                                     /\ call[d].name = call[c].name
    <2>1. IInv /\ [Next]_vars => [Step1]_vars
      BY <1>1
    <2>2. QED
      BY <2>1, Invariant, PTL DEF Spec, OrphanedByRemovalOnly

-----------------------------------------------------------------------------
(* The refinement of CollectionMap, step by step.                          *)

(* What the map shows of its collections.                                  *)
LEMMA MapBarShape ==
  /\ DOMAIN mapBar = LiveNames /\ LiveNames \subseteq Name
  /\ \A n \in LiveNames : /\ mapBar[n].id = collections[n]
                          /\ mapBar[n].count = guards[collections[n]].count
  BY DEF mapBar, LiveNames

(* A step that changes neither the map nor a count in it.                  *)
LEMMA MapKept ==
  ASSUME collections' = collections,
         \A n \in LiveNames : guards'[collections[n]].count = guards[collections[n]].count
  PROVE  mapBar' = mapBar
  <1>1. LiveNames' = LiveNames
    BY DEF LiveNames
  <1>2. QED
    BY <1>1 DEF mapBar

(* A missing name gets an allocation that no other name has.               *)
LEMMA MapCreate ==
  ASSUME collections \in [Name -> Guard \cup {None}],
         NEW n \in Name, NEW g \in Guard, g # None, collections[n] = None,
         collections' = [collections EXCEPT ![n] = g],
         guards'[g].count = 0,
         \A m \in LiveNames : /\ collections[m] # g
                              /\ guards'[collections[m]] = guards[collections[m]]
  PROVE  M!Create(n)
  <1> DEFINE coll == [id |-> g, count |-> 0]
  <1>1. LiveNames' = LiveNames \cup {n} /\ n \notin LiveNames
    BY DEF LiveNames
  <1>2. coll \in M!Collection
    BY DEF M!Collection
  <1>3. \A m \in LiveNames : mapBar[m].id # coll.id
    BY MapBarShape
  <1>4. mapBar' = [m \in LiveNames \cup {n} |-> IF m = n THEN coll ELSE mapBar[m]]
    <2>1. \A m \in LiveNames : collections'[m] = collections[m] /\ m # n
      BY <1>1 DEF LiveNames
    <2>2. collections'[n] = g
      OBVIOUS
    <2>3. QED
      BY <1>1, <2>1, <2>2 DEF mapBar
  <1> HIDE DEF coll
  <1>5. QED
    BY <1>1, <1>2, <1>3, <1>4, MapBarShape DEF M!Create, M!Insert

(* A name goes.                                                            *)
LEMMA MapDrop ==
  ASSUME collections \in [Name -> Guard \cup {None}],
         NEW n \in Name, collections[n] # None,
         collections' = [collections EXCEPT ![n] = None],
         \A m \in LiveNames : m # n => guards'[collections[m]] = guards[collections[m]]
  PROVE  M!Drop(n)
  <1>1. LiveNames' = LiveNames \ {n} /\ n \in LiveNames
    BY DEF LiveNames
  <1>2. \A m \in LiveNames \ {n} : collections'[m] = collections[m]
    BY DEF LiveNames
  <1>3. mapBar' = [m \in LiveNames \ {n} |-> mapBar[m]]
    BY <1>1, <1>2 DEF mapBar
  <1>4. QED
    BY <1>1, <1>3, MapBarShape DEF M!Drop, M!Restrict

(* The count of one collection changes.                                    *)
LEMMA MapUpdate ==
  ASSUME collections' = collections,
         NEW n \in LiveNames, NEW count \in AnyOutcome(guards[collections[n]].count),
         guards'[collections[n]].count = count,
         \A m \in LiveNames : m # n =>
           guards'[collections[m]].count = guards[collections[m]].count
  PROVE  M!Update(n)
  <1>1. LiveNames' = LiveNames
    BY DEF LiveNames
  <1>2. mapBar' = [mapBar EXCEPT ![n].count = count]
    BY <1>1 DEF mapBar
  <1>3. QED
    BY <1>2, MapBarShape DEF M!Update

(* Every step of the database is one of the map's or none.                 *)
LEMMA MapStep ==
  ASSUME IInv, Next
  PROVE  M!Next \/ mapBar' = mapBar
  <1>1. PICK c \in Client :
          \/ \E op \in OpNames, n \in Name \cup {None} : Call(c, op, n)
          \/ Step(c)
    BY DEF Next
  <1>2. /\ TypeOK /\ FramesOK /\ NamesAgree
        /\ call[c] \in Frame /\ FrameOK(call[c], Ops[c])
        /\ guards \in [Guard -> Allocation] /\ collections \in [Name -> Guard \cup {None}]
        /\ None \notin Guard
    BY GuardAssumption DEF IInv, TypeOK, FramesOK
  <1>3. \A n \in LiveNames : collections[n] \in Guard /\ n \in Name
    BY <1>2 DEF LiveNames
  <1>4. CASE \/ AutoCreate(c)
             \/ CreateCollection(c) /\ collections[call[c].name] = None
    <2> DEFINE g == Min(Unallocated)
               n == call[c].name
    <2>1. g \in Guard /\ g # None /\ g \notin Reachable(collections, call) /\ n \in Name
      BY <1>2, <1>4, AllocationStep
    <2>2. /\ collections[n] = None /\ collections' = [collections EXCEPT ![n] = g]
          /\ guards' = [guards EXCEPT ![g] = NewGuard(n)]
      BY <1>4 DEF AutoCreate, CreateCollection
    <2> HIDE DEF g
    <2>3. \A m \in LiveNames : collections[m] # g
      BY <1>3, <2>1 DEF Reachable
    <2>4. /\ guards'[g].count = 0
          /\ \A m \in LiveNames : guards'[collections[m]] = guards[collections[m]]
      BY <1>2, <1>3, <2>1, <2>2, <2>3, NewGuardFields
    <2> HIDE DEF n
    <2>5. M!Create(n)
      BY <1>2, <2>1, <2>2, <2>3, <2>4, MapCreate
    <2>6. QED
      BY <2>1, <2>5 DEF M!Next
  <1>5. CASE DropCollection(c) \/ RemoveVictim(c)
    <2> DEFINE n == call[c].name
    <2>1. /\ n \in Name /\ collections' = [collections EXCEPT ![n] = None]
          /\ guards' = Collected(guards, collections', call')
      BY <1>2, <1>5 DEF DropCollection, RemoveVictim, At, FrameOK, Naming
    <2>2. \A h \in Guard : h \in Reachable(collections', call') => guards'[h] = guards[h]
      BY <1>2, <2>1, CollectedKeeps
    <2>3. \A m \in LiveNames : m # n => collections[m] \in Reachable(collections', call')
      BY <1>2, <1>3, <2>1 DEF Reachable
    <2>4. \A m \in LiveNames : m # n => guards'[collections[m]] = guards[collections[m]]
      BY <1>3, <2>2, <2>3
    <2> HIDE DEF n
    <2>5. CASE collections[n] # None
      <3>1. M!Drop(n)
        BY <1>2, <2>1, <2>4, <2>5, MapDrop
      <3>2. QED
        BY <2>1, <3>1 DEF M!Next
    <2>6. CASE collections[n] = None
      <3>1. collections' = collections
        BY <1>2, <2>1, <2>6
      <3>2. n \notin LiveNames
        BY <2>6 DEF LiveNames
      <3>3. QED
        BY <2>4, <3>1, <3>2, MapKept
    <2>7. QED
      BY <2>5, <2>6
  <1>6. CASE Mutate(c)
    <2> DEFINE g == call[c].held
    <2>1. /\ g \in Guard /\ g # None /\ call[c].op \in Writes /\ call[c].op \in Ops[c]
          /\ collections' = collections
      BY <1>2, <1>6, WrittenGuard
    <2>2. PICK count \in Outcomes(call[c].op, guards[g].count) :
            \A h \in Guard : h \in Reachable(collections, call') =>
              guards'[h].count = IF h = g THEN count ELSE guards[h].count
      BY <1>2, <1>6, WrittenGuard
    <2>3. count \in AnyOutcome(guards[g].count)
      BY <2>1, <2>2 DEF AnyOutcome, Offered
    <2>4. \A m \in LiveNames : collections[m] \in Reachable(collections, call')
      BY <1>3 DEF Reachable
    <2>5. \A m \in LiveNames :
            guards'[collections[m]].count =
              IF collections[m] = g THEN count ELSE guards[collections[m]].count
      BY <1>3, <2>2, <2>4
    <2> HIDE DEF g
    <2>6. CASE \E n \in LiveNames : collections[n] = g
      <3>1. PICK n \in LiveNames : collections[n] = g
        BY <2>6
      <3>2. \A m \in LiveNames : m # n => collections[m] # g
        BY <1>2, <1>3, <3>1 DEF NamesAgree, LiveNames
      <3>3. M!Update(n)
        BY <2>1, <2>3, <2>5, <3>1, <3>2, MapUpdate
      <3>4. QED
        BY <1>3, <3>3 DEF M!Next
    <2>7. CASE \A n \in LiveNames : collections[n] # g
      BY <2>1, <2>5, <2>7, MapKept
    <2>8. QED
      BY <2>6, <2>7
  <1>7. CASE Touch(c) \/ AutoCreateFound(c)
    <2>1. collections' = collections
      BY <1>7 DEF Touch, AutoCreateFound
    <2>2. \A h \in Guard : guards'[h].count = guards[h].count
      BY <1>2, <1>7, TouchedGuard
    <2>3. QED
      BY <1>3, <2>1, <2>2, MapKept
  <1>8. CASE FinishSearch(c)
    <2>1. collections' = collections /\ guards' = Collected(guards, collections, call')
      BY <1>8 DEF FinishSearch
    <2>2. \A h \in Guard : h \in Reachable(collections, call') => guards'[h] = guards[h]
      BY <1>2, <2>1, CollectedKeeps
    <2>3. \A m \in LiveNames : collections[m] \in Reachable(collections, call')
      BY <1>3 DEF Reachable
    <2>4. QED
      BY <1>3, <2>1, <2>2, <2>3, MapKept
  <1>9. CASE collections' = collections /\ guards' = guards
    BY <1>9, MapKept
  <1>10. CASE CreateCollection(c) /\ collections[call[c].name] # None
    BY <1>9, <1>10 DEF CreateCollection
  <1>11. QED
    BY <1>1, <1>4, <1>5, <1>6, <1>7, <1>8, <1>9, <1>10
       DEF Step, Call, Embed, EmbedFails, Lookup, LookupMissing, TakeTick, ClaimInner,
           StartSearch, ClaimOuter, StartWalk, Weigh, FinishSnapshot, FinishRecompute,
           StartPick, Inspect, PickVictim

(* Every step of the locked, shared database is one create, drop or update *)
(* of the map behind a single lock, or changes nothing in it               *)
(* (database.rs:226-258, collections.rs:84-86).                            *)
THEOREM RefinesCollectionMap == Spec => ImplementsCollectionMap
  <1>1. Init => M!Init
    <2>1. SUFFICES ASSUME Init PROVE mapBar = << >>
      BY DEF M!Init
    <2>2. LiveNames = {}
      <3>1. collections = [n \in Name |-> None]
        BY <2>1 DEF Init
      <3>2. QED
        BY <3>1 DEF LiveNames
    <2>3. QED
      BY <2>2 DEF mapBar
  <1>2. IInv /\ [Next]_vars => [M!Next]_mapBar
    <2>1. ASSUME UNCHANGED vars PROVE mapBar' = mapBar
      BY <2>1, MapKept DEF vars, dbVars
    <2>2. QED
      BY <2>1, MapStep
  <1>3. QED
    BY <1>1, <1>2, Invariant, PTL DEF Spec, ImplementsCollectionMap, M!Spec
-----------------------------------------------------------------------------
(* The documents in the map.  What a set of names has is a sum, and one    *)
(* recursion gives the sums of all sets at once.                           *)
Held(gs, map, names) == MapThenSumSet(LAMBDA n : gs[map[n]].count, names)
Counts(gs, map, names) == [n \in names |-> gs[map[n]].count]

Summed(gs, map, names) ==
  \E g \in [SUBSET names -> Nat] :
    Adds(g, names, Counts(gs, map, names)) /\ Held(gs, map, names) = g[names]

(* The recursion is solved by what adds up the counts.                     *)
LEMMA HeldAdds ==
  ASSUME NEW names, IsFiniteSet(names), NEW gs, NEW map,
         Counts(gs, map, names) \in [names -> Nat]
  PROVE  Summed(gs, map, names)
  <1> DEFINE fun == Counts(gs, map, names)
             iter[s \in SUBSET names] ==
               IF s = {} THEN 0
               ELSE gs[map[CHOOSE x \in s : TRUE]].count + iter[s \ {CHOOSE x \in s : TRUE}]
  <1>1. Held(gs, map, names) = iter[names]
    BY DEF Held, MapThenSumSet, MapThenFoldSet
  <1>2. fun \in [names -> Nat] /\ \A n \in names : fun[n] = gs[map[n]].count
    BY DEF Counts
  <1> HIDE DEF fun
  <1>3. PICK g \in [SUBSET names -> Nat] : Adds(g, names, fun)
    BY <1>2, SumExists
  <1>4. \A s \in SUBSET names : s # {} => (CHOOSE x \in s : TRUE) \in names
    OBVIOUS
  <1>5. g = [s \in SUBSET names |->
               IF s = {} THEN 0
               ELSE gs[map[CHOOSE x \in s : TRUE]].count + g[s \ {CHOOSE x \in s : TRUE}]]
    BY <1>2, <1>3, <1>4 DEF Adds, Some
  <1>6. iter = [s \in SUBSET names |->
               IF s = {} THEN 0
               ELSE gs[map[CHOOSE x \in s : TRUE]].count + iter[s \ {CHOOSE x \in s : TRUE}]]
    BY <1>5 DEF iter
  <1> HIDE DEF iter
  <1>7. Adds(iter, names, fun)
    BY <1>2, <1>4, <1>6 DEF Adds, Some
  <1>8. iter[names] = g[names]
    BY <1>3, <1>7, SameSums
  <1>9. QED
    BY <1>1, <1>3, <1>8 DEF fun, Summed

(* Any part of the names may be summed on its own.                         *)
Apart(gs, map, names) ==
  \E g \in [SUBSET names -> Nat] :
    /\ Adds(g, names, Counts(gs, map, names))
    /\ \A s \in SUBSET names : Held(gs, map, s) = g[s]

(* The sum over the part is the one that the whole adds up on its way.     *)
LEMMA HeldParts ==
  ASSUME NEW names, IsFiniteSet(names), NEW gs, NEW map,
         Counts(gs, map, names) \in [names -> Nat]
  PROVE  Apart(gs, map, names)
  <1>1. PICK g \in [SUBSET names -> Nat] : Adds(g, names, Counts(gs, map, names))
    BY SumExists
  <1>2. ASSUME NEW s \in SUBSET names PROVE Held(gs, map, s) = g[s]
    <2>1. IsFiniteSet(s) /\ Counts(gs, map, s) \in [s -> Nat]
      BY FS_Subset DEF Counts
    <2>2. PICK h \in [SUBSET s -> Nat] :
            /\ Adds(h, s, Counts(gs, map, s)) /\ Held(gs, map, s) = h[s]
      <3>1. Summed(gs, map, s)
        BY <2>1, HeldAdds
      <3>2. QED
        BY <3>1 DEF Summed
    <2>3. \A x \in s : Counts(gs, map, names)[x] = Counts(gs, map, s)[x]
      BY DEF Counts
    <2>4. \A t \in SUBSET s : g[t] = h[t]
      <3>1. PICK u, v : u = Counts(gs, map, names) /\ v = Counts(gs, map, s)
        OBVIOUS
      <3>2. Adds(g, names, u) /\ Adds(h, s, v) /\ \A x \in s : u[x] = v[x]
        BY <1>1, <2>2, <2>3, <3>1
      <3>3. QED
        BY <2>1, <3>2, SameSums
    <2>5. QED
      BY <2>2, <2>4
  <1>3. QED
    BY <1>1, <1>2 DEF Apart

(* With one count changed and no less held in all, no part holds less.     *)
LEMMA HeldGrows ==
  ASSUME NEW names, IsFiniteSet(names), NEW gs, NEW hs, NEW map, NEW x,
         Counts(gs, map, names) \in [names -> Nat], Counts(hs, map, names) \in [names -> Nat],
         \A n \in names \ {x} : gs[map[n]].count = hs[map[n]].count,
         ~ (Held(hs, map, names) < Held(gs, map, names))
  PROVE  \A s \in SUBSET names : Held(gs, map, s) <= Held(hs, map, s)
  <1>1. PICK f, h : f = Counts(gs, map, names) /\ h = Counts(hs, map, names)
    OBVIOUS
  <1>2. PICK i \in [SUBSET names -> Nat] :
          Adds(i, names, f) /\ \A s \in SUBSET names : Held(gs, map, s) = i[s]
    <2>1. Apart(gs, map, names)
      BY HeldParts
    <2>2. QED
      BY <1>1, <2>1 DEF Apart
  <1>3. PICK j \in [SUBSET names -> Nat] :
          Adds(j, names, h) /\ \A s \in SUBSET names : Held(hs, map, s) = j[s]
    <2>1. Apart(hs, map, names)
      BY HeldParts
    <2>2. QED
      BY <1>1, <2>1 DEF Apart
  <1>4. f \in [names -> Nat] /\ h \in [names -> Nat] /\ ButFor(f, h, names, x)
    BY <1>1 DEF Counts, ButFor
  <1>5. i[names] <= j[names]
    <2>1. names \in SUBSET names /\ i[names] \in Nat /\ j[names] \in Nat
      OBVIOUS
    <2>2. QED
      BY <1>2, <1>3, <2>1
  <1>6. Smaller(i, j, names)
    <2>1. Adds(i, names, f) /\ Adds(j, names, h)
      BY <1>2, <1>3
    <2>2. QED
      BY <1>4, <1>5, <2>1, SumsGrow
  <1>7. QED
    BY <1>2, <1>3, <1>6 DEF Smaller

(* A name moved from the one part to the other takes its count along.      *)
LEMMA HeldMoves ==
  ASSUME NEW names, IsFiniteSet(names), NEW gs, NEW map,
         Counts(gs, map, names) \in [names -> Nat], NEW s \in SUBSET names, NEW n \in s
  PROVE  /\ Held(gs, map, s) = gs[map[n]].count + Held(gs, map, s \ {n})
         /\ Held(gs, map, s) \in Nat /\ Held(gs, map, s \ {n}) \in Nat
         /\ gs[map[n]].count \in Nat
  <1>1. PICK f \in [names -> Nat] : f = Counts(gs, map, names)
    OBVIOUS
  <1>2. PICK i \in [SUBSET names -> Nat] :
          Adds(i, names, f) /\ \A t \in SUBSET names : Held(gs, map, t) = i[t]
    <2>1. Apart(gs, map, names)
      BY HeldParts
    <2>2. QED
      BY <1>1, <2>1 DEF Apart
  <1>3. i[s] = f[n] + i[s \ {n}]
    BY <1>2, SumOf
  <1>4. f[n] = gs[map[n]].count /\ f[n] \in Nat
    BY <1>1 DEF Counts
  <1>5. QED
    BY <1>2, <1>3, <1>4

(* Nothing is held by no names, and by any a natural number.               *)
LEMMA HeldNat ==
  ASSUME NEW names, IsFiniteSet(names), NEW gs, NEW map,
         Counts(gs, map, names) \in [names -> Nat]
  PROVE  /\ \A s \in SUBSET names : Held(gs, map, s) \in Nat
         /\ Held(gs, map, {}) = 0
  <1>1. PICK f \in [names -> Nat] : f = Counts(gs, map, names)
    OBVIOUS
  <1>2. PICK i \in [SUBSET names -> Nat] :
          Adds(i, names, f) /\ \A t \in SUBSET names : Held(gs, map, t) = i[t]
    <2>1. Apart(gs, map, names)
      BY HeldParts
    <2>2. QED
      BY <1>1, <2>1 DEF Apart
  <1>3. {} \in SUBSET names /\ i[{}] = 0
    BY <1>2 DEF Adds
  <1>4. QED
    BY <1>2, <1>3

-----------------------------------------------------------------------------
(* What a walk has weighed.  Unless documents have gone since its report   *)
(* or eviction began, the total is no more than the collections weighed    *)
(* hold by now; what a report listed is no more than the total and what is *)
(* still to weigh; and a victim is sought while the budget is exceeded.    *)
Bytes(names) == Held(guards, collections, names)
Named(gs)    == {n \in LiveNames : collections[n] \in gs}
Reporting    == {"stats", "evict"}
Evicting     == {"recompute", "pick", "remove"}

WalkOK(f, walking) ==
  /\ (f.op \in Reporting /\ f.pc \in Walks /\ walking) =>
       /\ f.todo \subseteq Live
       /\ f.total <= Bytes(LiveNames \ Named(f.todo))
  /\ (f.op = "stats" /\ f.pc = "recompute") =>
       IF walking THEN f.listed <= f.total + Bytes(Named(f.todo)) ELSE f.listed <= Weight
  /\ (f.op = "evict" /\ f.pc \in {"pick", "remove"}) => Weight > limit_bytes

Stages  == \A c \in Client : /\ call[c].op = "evict" => call[c].pc \in Evicting
                             /\ call[c].pc \in {"pick", "remove"} => call[c].op = "evict"
Walking == \A c \in Client \ shrunk : WalkOK(call[c], c \in outer.readers)

(* What the map and the allocations of one moment hold.                    *)
LEMMA HeldOf ==
  ASSUME NEW map \in [Name -> Guard \cup {None}], NEW gs \in [Guard -> Allocation],
         NEW names, names = {n \in Name : map[n] # None}
  PROVE  /\ IsFiniteSet(names) /\ Counts(gs, map, names) \in [names -> Nat]
         /\ \A s \in SUBSET names : Held(gs, map, s) \in Nat
         /\ Held(gs, map, {}) = 0
  <1>1. IsFiniteSet(names)
    BY SpaceAssumption, FS_Subset
  <1>2. \A n \in names : gs[map[n]].count \in Nat
    <2>1. \A g \in Guard : gs[g].count \in 0 .. MaxCount
      BY DEF Allocation
    <2>2. \A n \in names : map[n] \in Guard
      OBVIOUS
    <2>3. QED
      BY <2>1, <2>2, BoundAssumption
  <1>3. Counts(gs, map, names) \in [names -> Nat]
    BY <1>2 DEF Counts
  <1>4. QED
    BY <1>1, <1>3, HeldNat

(* The weight is what all names hold.                                      *)
LEMMA WeightHeld ==
  ASSUME TypeOK
  PROVE  /\ IsFiniteSet(LiveNames) /\ Counts(guards, collections, LiveNames) \in [LiveNames -> Nat]
         /\ Weight = Bytes(LiveNames) /\ Weight \in Nat
         /\ \A s \in SUBSET LiveNames : Bytes(s) \in Nat
         /\ Bytes({}) = 0
  <1>1. Weight = Bytes(LiveNames)
    BY DEF Weight, Bytes, Held
  <1>2. /\ collections \in [Name -> Guard \cup {None}] /\ guards \in [Guard -> Allocation]
        /\ LiveNames = {n \in Name : collections[n] # None}
    BY DEF TypeOK, LiveNames
  <1>3. /\ IsFiniteSet(LiveNames) /\ Counts(guards, collections, LiveNames) \in [LiveNames -> Nat]
        /\ \A s \in SUBSET LiveNames : Held(guards, collections, s) \in Nat
        /\ Held(guards, collections, {}) = 0
    BY <1>2, HeldOf
  <1>4. QED
    BY <1>1, <1>3 DEF Bytes

(* So it is after a step.                                                  *)
LEMMA WeightLater ==
  ASSUME TypeOK'
  PROVE  /\ Weight' = Held(guards', collections', LiveNames') /\ Weight' \in Nat
         /\ \A s \in SUBSET LiveNames' : Held(guards', collections', s) \in Nat
         /\ Held(guards', collections', {}) = 0
  <1>1. Weight' = Held(guards', collections', LiveNames')
    BY DEF Weight, Held, MapThenSumSet, MapThenFoldSet
  <1>2. PICK names, map, gs : names = LiveNames' /\ map = collections' /\ gs = guards'
    OBVIOUS
  <1>3. /\ map \in [Name -> Guard \cup {None}] /\ gs \in [Guard -> Allocation]
        /\ names = {n \in Name : map[n] # None}
    BY <1>2 DEF TypeOK, LiveNames
  <1>4. /\ \A s \in SUBSET names : Held(gs, map, s) \in Nat
        /\ Held(gs, map, {}) = 0
    BY <1>3, HeldOf
  <1>5. QED
    BY <1>1, <1>2, <1>4

(* A step that leaves the map alone changes one count in it at most.       *)
LEMMA OneCount ==
  ASSUME IInv, Next, collections' = collections
  PROVE  \E x : \A n \in LiveNames \ {x} :
           guards[collections[n]].count = guards'[collections[n]].count
  <1>1. /\ DOMAIN mapBar = LiveNames /\ DOMAIN mapBar' = LiveNames
        /\ \A n \in LiveNames : /\ mapBar[n].count = guards[collections[n]].count
                                /\ mapBar'[n].count = guards'[collections[n]].count
    <2>1. LiveNames' = LiveNames
      BY DEF LiveNames
    <2>2. QED
      BY <2>1 DEF mapBar
  <1>2. CASE mapBar' = mapBar
    BY <1>1, <1>2
  <1>3. ASSUME NEW n \in Name, M!Create(n) \/ M!Drop(n) PROVE FALSE
    BY <1>1, <1>3 DEF M!Create, M!Insert, M!Drop, M!Restrict
  <1>4. ASSUME NEW x \in Name, M!Update(x)
        PROVE  \A n \in LiveNames \ {x} : mapBar'[n] = mapBar[n]
    BY <1>1, <1>4 DEF M!Update
  <1>5. QED
    BY <1>1, <1>2, <1>3, <1>4, MapStep DEF M!Next

(* When the map stays and no documents go, no part of it loses any.        *)
LEMMA PartsGrow ==
  ASSUME IInv, TypeOK', Next, collections' = collections, ~ (Weight' < Weight)
  PROVE  /\ LiveNames' = LiveNames /\ Live' = Live
         /\ \A s \in SUBSET LiveNames :
              /\ Held(guards, collections, s) <= Held(guards', collections, s)
              /\ Held(guards, collections, s) \in Nat /\ Held(guards', collections, s) \in Nat
  <1>1. LiveNames' = LiveNames /\ Live' = Live
    BY DEF LiveNames, Live
  <1>2. PICK names : names = LiveNames
    OBVIOUS
  <1>3. PICK gs, hs, map : gs = guards /\ hs = guards' /\ map = collections
    OBVIOUS
  <1>4. /\ map \in [Name -> Guard \cup {None}] /\ names = {n \in Name : map[n] # None}
        /\ gs \in [Guard -> Allocation] /\ hs \in [Guard -> Allocation]
    BY <1>2, <1>3 DEF IInv, TypeOK, LiveNames
  <1>5. /\ IsFiniteSet(names) /\ Counts(gs, map, names) \in [names -> Nat]
        /\ \A s \in SUBSET names : Held(gs, map, s) \in Nat
    BY <1>4, HeldOf
  <1>6. /\ Counts(hs, map, names) \in [names -> Nat]
        /\ \A s \in SUBSET names : Held(hs, map, s) \in Nat
    BY <1>4, HeldOf
  <1>7. PICK x : \A n \in names \ {x} : gs[map[n]].count = hs[map[n]].count
    BY <1>2, <1>3, OneCount
  <1>8. Weight = Held(gs, map, names) /\ Weight' = Held(hs, map, names)
    <2>1. Weight = Held(guards, collections, LiveNames)
      BY DEF Weight, Held
    <2>2. Weight' = Held(guards', collections', LiveNames')
      BY WeightLater
    <2>3. QED
      BY <1>1, <1>2, <1>3, <2>1, <2>2
  <1>9. \A s \in SUBSET names : Held(gs, map, s) <= Held(hs, map, s)
    BY <1>5, <1>6, <1>7, <1>8, HeldGrows
  <1>10. QED
    BY <1>1, <1>2, <1>3, <1>5, <1>6, <1>9

(* An eviction is at one of its own steps, and nobody else is at its last  *)
(* two.                                                                    *)
LEMMA StagesStep ==
  ASSUME TypeOK, FramesOK, Stages, Next
  PROVE  Stages'
  <1>1. PICK c \in Client :
          \/ \E op \in OpNames, n \in Name \cup {None} : Call(c, op, n)
          \/ Step(c)
    BY DEF Next
  <1>2. /\ call[c].op = "evict" => call[c].pc \in Evicting
        /\ call[c].pc \in {"pick", "remove"} => call[c].op = "evict"
    BY DEF Stages
  <1> DEFINE Rest == \A d \in Client \ {c} : call'[d] = call[d]
             Mine == /\ call'[c].op = "evict" => call'[c].pc \in Evicting
                     /\ call'[c].pc \in {"pick", "remove"} => call'[c].op = "evict"
  <1>3. ASSUME NEW op \in OpNames, NEW n \in Name \cup {None}, Call(c, op, n)
        PROVE  Rest /\ Mine
    <2>1. Turn(c, FirstStep(op), op, n, None, 0)
      BY <1>3, Turns
    <2>2. FirstStep(op) \notin {"pick", "remove"} /\ (op = "evict" => FirstStep(op) = "recompute")
      BY DEF FirstStep, OpNames, Writes, Indexes, Searches
    <2>3. QED
      BY <2>1, <2>2 DEF Turn, Evicting
  <1>4. ASSUME EmbedFails(c) \/ Mutate(c) \/ FinishSearch(c) \/ CreateCollection(c)
             \/ DropCollection(c)
        PROVE  Rest /\ Mine
    <2>1. Ends(c)
      BY <1>4, Turns
    <2>2. QED
      BY <2>1 DEF Ends, Turn
  <1>5. ASSUME Embed(c) \/ ClaimInner(c) \/ StartSearch(c)
        PROVE  Rest /\ Mine
    <2>1. Stays(c, "lookup") \/ Stays(c, "mutate") \/ Stays(c, "reading")
      BY <1>5, Turns
    <2>2. call[c].pc \in {"embed", "write", "read"}
      BY <1>5 DEF Embed, ClaimInner, StartSearch, At
    <2>3. QED
      BY <1>2, <2>1, <2>2 DEF Stays, Turn, Evicting
  <1>6. ASSUME Lookup(c) \/ TakeTick(c) \/ Touch(c) \/ AutoCreateFound(c) \/ AutoCreate(c)
        PROVE  Rest /\ Mine
    <2>1. /\ call[c].pc \in {"lookup", "tick", "touch", "autocreate"}
          /\ \E pc \in {"tick", "touch", "read", "write"} :
               \E held, tick : Moves(c, pc, held, tick)
      <3>1. CASE Lookup(c)
        BY <3>1, Turns DEF Lookup, At
      <3>2. CASE TakeTick(c)
        BY <3>2, Turns DEF TakeTick, At
      <3>3. CASE Touch(c)
        BY <3>3, Turns DEF Touch, At
      <3>4. CASE AutoCreateFound(c)
        BY <3>4, Turns DEF AutoCreateFound, At
      <3>5. CASE AutoCreate(c)
        BY <3>5, Turns DEF AutoCreate, At
      <3>6. QED
        BY <1>6, <3>1, <3>2, <3>3, <3>4, <3>5
    <2>2. QED
      BY <1>2, <2>1 DEF Moves, Turn, Evicting
  <1>7. ASSUME LookupMissing(c)
        PROVE  Rest /\ Mine
    <2>1. Ends(c) \/ Stays(c, "autocreate")
      BY <1>7, Turns
    <2>2. call[c].pc = "lookup"
      BY <1>7 DEF LookupMissing, At
    <2>3. QED
      BY <1>2, <2>1, <2>2 DEF Ends, Stays, Turn, Evicting
  <1>8. ASSUME ClaimOuter(c) \/ StartWalk(c) \/ \E g \in Guard : Weigh(c, g)
        PROVE  Rest /\ Mine
    <2>1. Stays(c, call[c].pc)
      BY <1>8, Turns
    <2>2. QED
      BY <1>2, <2>1 DEF Stays, Turn
  <1>9. ASSUME FinishSnapshot(c)
        PROVE  Rest /\ Mine
    <2>1. Ends(c) \/ Stays(c, "recompute")
      BY <1>9, Turns
    <2>2. QED
      BY <1>2, <2>1 DEF Ends, Stays, Turn, Evicting
  <1>10. ASSUME FinishRecompute(c)
        PROVE  Rest /\ Mine
    <2>1. Ends(c) \/ (call[c].op = "evict" /\ Stays(c, "pick"))
      BY <1>10, Turns
    <2>2. QED
      BY <1>2, <2>1 DEF Ends, Stays, Turn, Evicting
  <1>11. ASSUME StartPick(c) \/ (\E n \in Name : Inspect(c, n)) \/ PickVictim(c)
        PROVE  Rest /\ Mine
    <2>1. \/ Ends(c) \/ Stays(c, "pick") \/ Moves(c, "remove", call[c].held, 0)
          \/ \E n, tick : Turn(c, "pick", call[c].op, n, call[c].held, tick)
      BY <1>11, Turns
    <2>2. call[c].op = "evict"
      BY <1>2, <1>11 DEF StartPick, Inspect, PickVictim, At
    <2>3. QED
      BY <2>1, <2>2 DEF Ends, Stays, Moves, Turn, Evicting
  <1>12. ASSUME RemoveVictim(c)
        PROVE  Rest /\ Mine
    <2>1. Turn(c, "recompute", call[c].op, None, call[c].held, call[c].tick)
      BY <1>12, Turns
    <2>2. QED
      BY <2>1 DEF Turn, Evicting
  <1>13. Rest /\ Mine
    BY <1>1, <1>3, <1>4, <1>5, <1>6, <1>7, <1>8, <1>9, <1>10, <1>11, <1>12 DEF Step
  <1>14. QED
    BY <1>13 DEF Stages

(* Of a client whose frame stays as it is.                                 *)
LEMMA KeptWalk ==
  ASSUME IInv, TypeOK', Next, Walking, NEW d \in Client, call'[d] = call[d],
         d \in outer'.readers <=> d \in outer.readers,
         collections' # collections => outer.readers = {},
         d \notin shrunk'
  PROVE  WalkOK(call[d], d \in outer.readers)'
  <1>1. CASE call[d].op \notin Reporting
    BY <1>1 DEF WalkOK, Reporting
  <1>2. CASE call[d].op \in Reporting
    <2>1. d \notin shrunk /\ ~ (Weight' < Weight)
      BY <1>2 DEF Next, Observe, Removes, Restarts, Reporting
    <2>2. WalkOK(call[d], d \in outer.readers)
      BY <2>1 DEF Walking
    <2>3. Weight \in Nat /\ Weight' \in Nat /\ Weight <= Weight'
      <3>1. Weight \in Nat
        BY WeightHeld DEF IInv
      <3>2. Weight' \in Nat
        BY WeightLater
      <3>3. QED
        BY <2>1, <3>1, <3>2
    <2>4. call[d].total \in Nat /\ call[d].listed \in Nat
      BY DEF IInv, TypeOK, Frame
    <2>5. CASE collections' # collections
      <3>1. d \notin outer.readers /\ d \notin outer'.readers
        BY <2>5
      <3>2. limit_bytes \in Nat
        BY BoundAssumption
      <3>3. QED
        BY <2>2, <2>3, <2>4, <3>1, <3>2 DEF WalkOK
    <2>6. CASE collections' = collections
      <3>1. /\ LiveNames' = LiveNames /\ Live' = Live
            /\ \A s \in SUBSET LiveNames :
                 /\ Held(guards, collections, s) <= Held(guards', collections, s)
                 /\ Held(guards, collections, s) \in Nat
                 /\ Held(guards', collections, s) \in Nat
        BY <2>1, <2>6, PartsGrow
      <3>2. PICK N, R : N = Named(call[d].todo) /\ R = LiveNames \ N
        OBVIOUS
      <3>3. N \in SUBSET LiveNames /\ R \in SUBSET LiveNames
        BY <3>2 DEF Named
      <3>4. Named(call[d].todo)' = N /\ (LiveNames \ Named(call[d].todo))' = R
        BY <2>6, <3>1, <3>2 DEF Named
      <3>5. /\ Bytes(R) <= Held(guards', collections', R)
            /\ Bytes(N) <= Held(guards', collections', N)
            /\ Bytes(R) \in Nat /\ Held(guards', collections', R) \in Nat
            /\ Bytes(N) \in Nat /\ Held(guards', collections', N) \in Nat
        BY <2>6, <3>1, <3>3 DEF Bytes
      <3>6. /\ Bytes(LiveNames \ Named(call[d].todo))' = Held(guards', collections', R)
            /\ Bytes(Named(call[d].todo))' = Held(guards', collections', N)
        BY <3>4 DEF Bytes
      <3>7. (call[d].op \in Reporting /\ call[d].pc \in Walks /\ d \in outer.readers) =>
              call[d].todo \subseteq Live /\ call[d].total <= Bytes(R)
        BY <2>2, <3>2 DEF WalkOK
      <3>8. (call[d].op = "stats" /\ call[d].pc = "recompute") =>
              IF d \in outer.readers THEN call[d].listed <= call[d].total + Bytes(N)
              ELSE call[d].listed <= Weight
        BY <2>2, <3>2 DEF WalkOK
      <3>9. (call[d].op = "evict" /\ call[d].pc \in {"pick", "remove"}) => Weight > limit_bytes
        BY <2>2 DEF WalkOK
      <3>10. limit_bytes \in Nat
        BY BoundAssumption
      <3>11. (call[d].op \in Reporting /\ call[d].pc \in Walks /\ d \in outer'.readers) =>
               call[d].todo \subseteq Live' /\ call[d].total <= Held(guards', collections', R)
        BY <2>4, <3>1, <3>5, <3>7
      <3>12. (call[d].op = "stats" /\ call[d].pc = "recompute") =>
              IF d \in outer'.readers
                THEN call[d].listed <= call[d].total + Held(guards', collections', N)
                ELSE call[d].listed <= Weight'
        BY <2>3, <2>4, <3>5, <3>8
      <3>13. (call[d].op = "evict" /\ call[d].pc \in {"pick", "remove"}) => Weight' > limit_bytes
        BY <2>3, <3>9, <3>10
      <3>14. QED
        BY <3>6, <3>11, <3>12, <3>13 DEF WalkOK
    <2>7. QED
      BY <2>5, <2>6
  <1>3. QED
    BY <1>1, <1>2

(* Of a client that is not about to walk or to remove a victim.            *)
LEMMA AsideWalk ==
  ASSUME IInv', NEW c \in Client, call'[c].pc \notin Walks \cup {"pick", "remove"}
  PROVE  WalkOK(call[c], c \in outer.readers)'
  <1>1. c \in outer'.readers => call'[c].pc \in {"tick", "touch"}
    BY DEF IInv, OuterOK
  <1>2. call'[c].pc \in {"tick", "touch"} => call'[c].op \in Writes \cup Searches
    BY DEF IInv, FramesOK, FrameOK
  <1>3. c \in outer'.readers => call'[c].op \notin Reporting
    BY <1>1, <1>2 DEF Writes, Indexes, Searches, Reporting
  <1>4. QED
    BY <1>3 DEF WalkOK, Walks

(* The map and the allocations as they were, all holds what it held.       *)
LEMMA HeldStays ==
  ASSUME TypeOK, TypeOK', collections' = collections, guards' = guards
  PROVE  /\ Weight' = Weight /\ LiveNames' = LiveNames /\ Live' = Live
         /\ \A s : Held(guards', collections', s) = Bytes(s)
  <1>1. LiveNames' = LiveNames /\ Live' = Live
    BY DEF LiveNames, Live
  <1>2. \A s : Held(guards', collections', s) = Bytes(s)
    BY DEF Bytes
  <1>3. QED
    BY <1>1, <1>2, WeightHeld, WeightLater

(* A walk begins: nothing is weighed yet.                                  *)
LEMMA BegunWalk ==
  ASSUME IInv, TypeOK', Walking, NEW c \in Client, StartWalk(c), Observe, c \notin shrunk'
  PROVE  WalkOK(call[c], c \in outer.readers)'
  <1>1. TypeOK /\ collections' = collections /\ guards' = guards
        /\ call[c].pc \in Walks /\ c \notin outer.readers
    BY DEF IInv, StartWalk
  <1>2. /\ call'[c].pc = call[c].pc /\ call'[c].op = call[c].op
        /\ call'[c].listed = call[c].listed
        /\ call'[c].todo = Live /\ call'[c].total = 0
        /\ c \in outer'.readers
    <2>1. call[c] \in Frame /\ outer \in Lock /\ call \in [Client -> Frame]
      BY <1>1 DEF TypeOK
    <2>2. QED
      BY <2>1 DEF StartWalk, AddReader, Lock, Frame
  <1>3. /\ Weight' = Weight /\ LiveNames' = LiveNames /\ Live' = Live
        /\ \A s : Held(guards', collections', s) = Bytes(s)
    BY <1>1, HeldStays
  <1>4. Named(call[c].todo)' = LiveNames
    BY <1>1, <1>2, <1>3 DEF Named, LiveNames, Live
  <1>5. /\ Bytes(LiveNames \ Named(call[c].todo))' = Bytes({})
        /\ Bytes(Named(call[c].todo))' = Bytes(LiveNames)
    <2>1. (LiveNames \ Named(call[c].todo))' = {}
      BY <1>3, <1>4
    <2>2. QED
      BY <1>3, <1>4, <2>1 DEF Bytes
  <1>6. Bytes({}) = 0 /\ Bytes(LiveNames) = Weight /\ Weight \in Nat
    BY <1>1, WeightHeld
  <1>7. (call[c].op = "stats" /\ call[c].pc = "recompute") => call[c].listed <= Weight
    <2>1. SUFFICES ASSUME call[c].op = "stats", call[c].pc = "recompute"
                   PROVE  call[c].listed <= Weight
      OBVIOUS
    <2>2. ~ Restarts(c)
      BY <2>1 DEF Restarts
    <2>3. c \notin shrunk
      BY <1>2, <2>1, <2>2 DEF Observe
    <2>4. QED
      BY <1>1, <2>1, <2>3 DEF Walking, WalkOK
  <1>8. (call'[c].op \in Reporting /\ c \in outer'.readers) =>
          call'[c].todo \subseteq Live' /\ call'[c].total <= Bytes({})
    BY <1>2, <1>3, <1>6
  <1>9. (call'[c].op = "stats" /\ call'[c].pc = "recompute") =>
          IF c \in outer'.readers THEN call'[c].listed <= call'[c].total + Bytes(LiveNames)
          ELSE call'[c].listed <= Weight'
    <2>1. call[c].listed \in Nat
      BY <1>1 DEF TypeOK, Frame
    <2>2. QED
      BY <1>2, <1>6, <1>7, <2>1
  <1>10. call'[c].pc \notin {"pick", "remove"}
    BY <1>1, <1>2 DEF Walks
  <1>11. QED
    BY <1>5, <1>8, <1>9, <1>10 DEF WalkOK

(* What a name adds to the names it is with.                               *)
LEMMA BytesMove ==
  ASSUME TypeOK, NEW s \in SUBSET LiveNames, NEW n \in s
  PROVE  /\ Bytes(s) = guards[collections[n]].count + Bytes(s \ {n})
         /\ Bytes(s \ {n}) \in Nat /\ guards[collections[n]].count \in Nat
  <1>1. PICK names, gs, map : names = LiveNames /\ gs = guards /\ map = collections
    OBVIOUS
  <1>2. /\ IsFiniteSet(names) /\ Counts(gs, map, names) \in [names -> Nat]
        /\ s \in SUBSET names
    BY <1>1, WeightHeld
  <1>3. /\ Held(gs, map, s) = gs[map[n]].count + Held(gs, map, s \ {n})
        /\ Held(gs, map, s) \in Nat /\ Held(gs, map, s \ {n}) \in Nat
        /\ gs[map[n]].count \in Nat
    BY <1>2, HeldMoves
  <1>4. QED
    BY <1>1, <1>3 DEF Bytes

(* One collection is weighed: its name passes from what is to weigh to     *)
(* what has been weighed.                                                  *)
LEMMA WeighedWalk ==
  ASSUME IInv, TypeOK', Walking, NEW c \in Client, NEW g \in Guard, Weigh(c, g), Observe,
         c \notin shrunk'
  PROVE  WalkOK(call[c], c \in outer.readers)'
  <1>1. /\ TypeOK /\ NamesAgree /\ collections' = collections /\ guards' = guards
        /\ outer' = outer /\ call[c].pc \in Walks /\ g \in call[c].todo
    BY DEF IInv, Weigh
  <1>2. /\ call'[c].pc = call[c].pc /\ call'[c].op = call[c].op
        /\ call'[c].listed = call[c].listed
        /\ call'[c].todo = call[c].todo \ {g}
        /\ call'[c].total = call[c].total + guards[g].count
    <2>1. call[c] \in Frame /\ call \in [Client -> Frame]
      BY <1>1 DEF TypeOK
    <2>2. QED
      BY <2>1 DEF Weigh, Frame
  <1>3. /\ Weight' = Weight /\ LiveNames' = LiveNames /\ Live' = Live
        /\ \A s : Held(guards', collections', s) = Bytes(s)
    BY <1>1, HeldStays
  <1>4. call[c].total \in Nat /\ call[c].listed \in Nat
    BY <1>1 DEF TypeOK, Frame
  <1>5. call'[c].pc \notin {"pick", "remove"}
    BY <1>1, <1>2 DEF Walks
  <1>6. CASE call[c].op \notin Reporting
    BY <1>2, <1>5, <1>6 DEF WalkOK, Reporting
  <1>7. CASE call[c].op \in Reporting
    <2>1. c \notin shrunk
      BY <1>1, <1>2, <1>7 DEF Observe, Restarts, Reporting
    <2>2. WalkOK(call[c], c \in outer.readers)
      BY <2>1 DEF Walking
    <2>3. CASE c \notin outer.readers
      BY <1>1, <1>2, <1>3, <1>5, <2>2, <2>3 DEF WalkOK
    <2>4. CASE c \in outer.readers
      <3>1. call[c].todo \subseteq Live
        BY <1>1, <1>7, <2>2, <2>4 DEF WalkOK
      <3>2. PICK n \in LiveNames : collections[n] = g
        BY <1>1, <3>1, GuardAssumption DEF Live, LiveNames
      <3>3. \A m \in LiveNames : collections[m] = g => m = n
        BY <1>1, <3>2 DEF NamesAgree, LiveNames
      <3>4. PICK N, R : N = Named(call[c].todo) /\ R = LiveNames \ Named(call[c].todo \ {g})
        OBVIOUS
      <3>5. /\ N \in SUBSET LiveNames /\ R \in SUBSET LiveNames /\ n \in N /\ n \in R
            /\ R \ {n} = LiveNames \ N
            /\ N \ {n} = Named(call[c].todo \ {g})
        BY <1>1, <3>2, <3>3, <3>4 DEF Named
      <3>6. Named(call[c].todo)' = N \ {n} /\ (LiveNames \ Named(call[c].todo))' = R
        BY <1>1, <1>2, <1>3, <3>4, <3>5 DEF Named
      <3>7. /\ Bytes(LiveNames \ Named(call[c].todo))' = Bytes(R)
            /\ Bytes(Named(call[c].todo))' = Bytes(N \ {n})
        BY <1>3, <3>6 DEF Bytes
      <3>8. /\ Bytes(R) = guards[g].count + Bytes(R \ {n})
            /\ Bytes(R \ {n}) \in Nat /\ guards[g].count \in Nat
        BY <1>1, <3>2, <3>5, BytesMove
      <3>9. Bytes(N) = guards[g].count + Bytes(N \ {n}) /\ Bytes(N \ {n}) \in Nat
        BY <1>1, <3>2, <3>5, BytesMove
      <3>10. call[c].total <= Bytes(R \ {n})
        BY <1>1, <1>7, <2>2, <2>4, <3>4, <3>5 DEF WalkOK
      <3>11. (call[c].op = "stats" /\ call[c].pc = "recompute") =>
               call[c].listed <= call[c].total + Bytes(N)
        BY <2>2, <2>4, <3>4 DEF WalkOK
      <3>12. call'[c].todo \subseteq Live' /\ call'[c].total <= Bytes(R)
        BY <1>2, <1>3, <1>4, <3>1, <3>8, <3>10
      <3>13. (call'[c].op = "stats" /\ call'[c].pc = "recompute") =>
               call'[c].listed <= call'[c].total + Bytes(N \ {n})
        BY <1>2, <1>4, <3>8, <3>9, <3>11
      <3>14. c \in outer'.readers
        BY <1>1, <2>4
      <3>15. QED
        BY <1>5, <3>7, <3>12, <3>13, <3>14 DEF WalkOK
    <2>5. QED
      BY <2>3, <2>4
  <1>8. QED
    BY <1>6, <1>7

(* A walk ends: everything has been weighed.                               *)
LEMMA EndedWalk ==
  ASSUME IInv, IInv', Walking, NEW c \in Client, FinishSnapshot(c) \/ FinishRecompute(c),
         Observe, c \notin shrunk'
  PROVE  WalkOK(call[c], c \in outer.readers)'
  <1>1. /\ TypeOK /\ FramesOK /\ TypeOK' /\ collections' = collections /\ guards' = guards
        /\ c \in outer.readers /\ call[c].pc \in Walks /\ call[c].todo = {}
    BY DEF IInv, FinishSnapshot, FinishRecompute, Walked, At, Walks
  <1>2. c \notin outer'.readers
    BY <1>1 DEF FinishSnapshot, FinishRecompute, RemoveReader, TypeOK, Lock
  <1>3. CASE Ends(c)
    BY <1>3, AsideWalk DEF Ends, Turn, Walks
  <1>4. CASE ~ Ends(c)
    <2>1. \/ /\ FinishSnapshot(c)
             /\ call' = [call EXCEPT ![c].pc = "recompute", ![c].listed = call[c].total]
          \/ /\ FinishRecompute(c) /\ call[c].op = "evict" /\ call[c].total > limit_bytes
             /\ call' = [call EXCEPT ![c].pc = "pick", ![c].total = 0]
      BY <1>1, <1>4, IdleTurn DEF FinishSnapshot, FinishRecompute
    <2>2. /\ call'[c].op = call[c].op
          /\ \/ call'[c].pc = "recompute" /\ call'[c].listed = call[c].total
             \/ call'[c].pc = "pick" /\ call[c].total > limit_bytes
      <3>1. call[c] \in Frame /\ call \in [Client -> Frame]
        BY <1>1 DEF TypeOK
      <3>2. QED
        BY <2>1, <3>1 DEF Frame
    <2>3. CASE call[c].op \notin Reporting
      BY <2>2, <2>3 DEF WalkOK, Reporting
    <2>4. CASE call[c].op \in Reporting
      <3>1. c \notin shrunk
        BY <1>1, <2>2, <2>4 DEF Observe, Restarts, Reporting
      <3>2. WalkOK(call[c], c \in outer.readers)
        BY <3>1 DEF Walking
      <3>3. LiveNames \ Named(call[c].todo) = LiveNames
        BY <1>1 DEF Named
      <3>4. call[c].total <= Bytes(LiveNames)
        BY <1>1, <2>4, <3>2, <3>3 DEF WalkOK
      <3>5. Weight = Bytes(LiveNames) /\ Weight \in Nat /\ Weight' = Weight
        BY <1>1, WeightHeld, HeldStays
      <3>6. call[c].total \in Nat /\ limit_bytes \in Nat
        BY <1>1, BoundAssumption DEF TypeOK, Frame
      <3>7. call'[c].pc = "recompute" => call'[c].listed <= Weight'
        BY <2>2, <3>4, <3>5
      <3>8. call'[c].pc \in {"pick", "remove"} => Weight' > limit_bytes
        BY <2>2, <3>4, <3>5, <3>6
      <3>9. QED
        BY <1>2, <3>7, <3>8 DEF WalkOK
    <2>5. QED
      BY <2>3, <2>4
  <1>5. QED
    BY <1>3, <1>4

(* A victim is picked while the budget is exceeded, and removed.           *)
LEMMA EvictWalk ==
  ASSUME IInv, IInv', Stages, Walking, NEW c \in Client,
         StartPick(c) \/ (\E n \in Name : Inspect(c, n)) \/ PickVictim(c) \/ RemoveVictim(c),
         Observe, c \notin shrunk'
  PROVE  WalkOK(call[c], c \in outer.readers)'
  <1>1. /\ TypeOK /\ FramesOK /\ TypeOK'
        /\ call[c].pc \in {"pick", "remove"} /\ call[c].op = "evict"
    BY DEF IInv, StartPick, Inspect, PickVictim, RemoveVictim, At, Stages
  <1>2. CASE StartPick(c) \/ (\E n \in Name : Inspect(c, n)) \/ PickVictim(c)
    <2>1. collections' = collections /\ guards' = guards /\ call[c].pc = "pick"
      BY <1>2 DEF StartPick, Inspect, PickVictim, At
    <2>2. CASE Ends(c)
      BY <2>2, AsideWalk DEF Ends, Turn, Walks
    <2>3. CASE call'[c].pc \in {"pick", "remove"} /\ call'[c].op = "evict"
      <3>1. c \notin shrunk
        BY <1>1, <2>1, <2>3 DEF Observe, Restarts
      <3>2. Weight > limit_bytes
        BY <1>1, <3>1 DEF Walking, WalkOK
      <3>3. Weight' = Weight
        BY <1>1, <2>1, HeldStays
      <3>4. QED
        BY <2>3, <3>2, <3>3 DEF WalkOK, Walks
    <2>4. QED
      <3>1. \/ Ends(c) \/ Stays(c, "pick") \/ Moves(c, "remove", call[c].held, 0)
            \/ \E n, tick : Turn(c, "pick", call[c].op, n, call[c].held, tick)
        BY <1>1, <1>2, Turns
      <3>2. QED
        BY <1>1, <2>2, <2>3, <3>1 DEF Stays, Moves, Turn
  <1>3. CASE RemoveVictim(c)
    <2>1. outer'.readers = {}
      BY <1>3 DEF RemoveVictim, Unlocked
    <2>2. Turn(c, "recompute", call[c].op, None, call[c].held, call[c].tick)
      BY <1>1, <1>3, Turns
    <2>3. call'[c].pc = "recompute" /\ call'[c].op = "evict"
      BY <1>1, <2>2 DEF Turn
    <2>4. QED
      BY <2>1, <2>3 DEF WalkOK
  <1>4. QED
    BY <1>2, <1>3

(* Every step keeps what the walks have weighed in bounds.                 *)
LEMMA WalkingStep ==
  ASSUME IInv, IInv', Stages, Walking, Next
  PROVE  Walking'
  <1>1. PICK c \in Client :
          \/ \E op \in OpNames, n \in Name \cup {None} : Call(c, op, n)
          \/ Step(c)
    BY DEF Next
  <1>2. TypeOK /\ FramesOK /\ TypeOK' /\ Observe
    BY DEF IInv, Next
  <1>3. /\ \A d \in Client \ {c} : d \in outer'.readers <=> d \in outer.readers
        /\ collections' # collections => outer.readers = {} /\ outer'.readers = {}
    BY <1>1, <1>2, ReadersStep
  <1>4. \A d \in Client \ {c} : call'[d] = call[d]
    <2>1. ASSUME NEW op \in OpNames, NEW n \in Name \cup {None}, Call(c, op, n)
          PROVE  \A d \in Client \ {c} : call'[d] = call[d]
      BY <1>2, <2>1, Turns DEF Turn
    <2>2. CASE Step(c)
      BY <1>2, <2>2, Turns DEF Step, Moves, Stays, Ends, Turn
    <2>3. QED
      BY <1>1, <2>1, <2>2
  <1>5. ASSUME NEW d \in Client \ {c}, d \notin shrunk'
        PROVE  WalkOK(call[d], d \in outer.readers)'
    BY <1>2, <1>3, <1>4, <1>5, KeptWalk
  <1>6. ASSUME c \notin shrunk'
        PROVE  WalkOK(call[c], c \in outer.readers)'
    <2>1. ASSUME NEW op \in OpNames, NEW n \in Name \cup {None}, Call(c, op, n)
          PROVE  WalkOK(call[c], c \in outer.readers)'
      <3>1. call[c].pc = "idle" /\ outer' = outer
        BY <2>1 DEF Call, At
      <3>2. c \notin outer'.readers
        BY <3>1 DEF IInv, OuterOK, Walks
      <3>3. call'[c].pc = FirstStep(op) /\ call'[c].op = op
        BY <1>2, <2>1, Turns DEF Turn
      <3>4. op = "stats" => FirstStep(op) = "snapshot"
        BY DEF FirstStep
      <3>5. op = "evict" => FirstStep(op) = "recompute"
        BY DEF FirstStep
      <3>6. QED
        BY <3>2, <3>3, <3>4, <3>5 DEF WalkOK
    <2>2. CASE StartWalk(c)
      BY <1>2, <1>6, <2>2, BegunWalk
    <2>3. CASE \E g \in Guard : Weigh(c, g)
      BY <1>2, <1>6, <2>3, WeighedWalk
    <2>4. CASE FinishSnapshot(c) \/ FinishRecompute(c)
      BY <1>2, <1>6, <2>4, EndedWalk
    <2>5. CASE \/ StartPick(c) \/ (\E n \in Name : Inspect(c, n))
               \/ PickVictim(c) \/ RemoveVictim(c)
      BY <1>2, <1>6, <2>5, EvictWalk
    <2>6. CASE ClaimOuter(c)
      <3>1. /\ call'[c] = call[c] /\ outer'.readers = outer.readers
            /\ collections' = collections
        BY <1>2, <2>6 DEF ClaimOuter, Claimed, TypeOK, Lock
      <3>2. QED
        BY <1>2, <1>6, <3>1, KeptWalk
    <2>7. CASE \/ Embed(c) \/ EmbedFails(c) \/ Lookup(c) \/ LookupMissing(c) \/ TakeTick(c)
               \/ Touch(c) \/ AutoCreateFound(c) \/ AutoCreate(c) \/ ClaimInner(c) \/ Mutate(c)
               \/ StartSearch(c) \/ FinishSearch(c) \/ CreateCollection(c) \/ DropCollection(c)
      <3>1. call'[c].pc \in {"idle", "lookup", "tick", "touch", "autocreate", "write", "mutate",
                             "read", "reading"}
        BY <1>2, <2>7, Turns DEF Moves, Stays, Ends, Turn
      <3>2. QED
        BY <3>1, AsideWalk DEF Walks
    <2>8. QED
      BY <1>1, <2>1, <2>2, <2>3, <2>4, <2>5, <2>6, <2>7 DEF Step
  <1>7. QED
    BY <1>5, <1>6 DEF Walking

-----------------------------------------------------------------------------
(* The strengthening of the invariant for reports and evictions.           *)
BudgetInv == IInv /\ Stages /\ Walking

(* Nothing has been weighed in the beginning.                              *)
LEMMA InitBudget == Init => Stages /\ Walking
  BY DEF Init, Stages, Walking, WalkOK, Idle, Reporting, Unlocked

(* Each step keeps the strengthening.                                      *)
LEMMA NextBudget == BudgetInv /\ [Next]_vars => BudgetInv'
  <1> SUFFICES ASSUME BudgetInv, [Next]_vars PROVE BudgetInv'
    OBVIOUS
  <1>1. IInv /\ IInv' /\ Stages /\ Walking
    BY NextInvariant DEF BudgetInv
  <1>2. CASE Next
    <2>1. Stages'
      BY <1>1, <1>2, StagesStep DEF IInv
    <2>2. QED
      BY <1>1, <1>2, <2>1, WalkingStep DEF BudgetInv
  <1>3. CASE UNCHANGED vars
    <2>1. UNCHANGED <<collections, guards, tick_counter, outer, inner, call, shrunk>>
      BY <1>3 DEF vars, dbVars
    <2>2. /\ Weight' = Weight /\ LiveNames' = LiveNames /\ Live' = Live
          /\ \A s : Held(guards', collections', s) = Bytes(s)
      BY <1>1, <2>1, HeldStays DEF IInv
    <2>3. Stages'
      BY <1>1, <2>1 DEF Stages
    <2>4. ASSUME NEW d \in Client, d \notin shrunk'
          PROVE  WalkOK(call[d], d \in outer.readers)'
      <3>1. WalkOK(call[d], d \in outer.readers)
        BY <1>1, <2>1, <2>4 DEF Walking
      <3>2. /\ Named(call[d].todo)' = Named(call[d].todo)
            /\ \A s : Bytes(s)' = Bytes(s)
        BY <2>1, <2>2 DEF Named, Bytes
      <3>3. /\ Bytes(Named(call[d].todo))' = Bytes(Named(call[d].todo))
            /\ Bytes(LiveNames \ Named(call[d].todo))' = Bytes(LiveNames \ Named(call[d].todo))
        BY <2>1, <2>2, <3>2 DEF Bytes
      <3>4. QED
        BY <2>1, <2>2, <3>1, <3>3 DEF WalkOK
    <2>5. Walking'
      BY <2>4 DEF Walking
    <2>6. QED
      BY <1>1, <2>3, <2>5 DEF BudgetInv
  <1>4. QED
    BY <1>2, <1>3

(* A report whose second walk is over is bracketed.                        *)
LEMMA BracketedStats ==
  ASSUME BudgetInv
  PROVE  StatsBracketed
  <1> SUFFICES ASSUME NEW c \in Client, call[c].op = "stats", Walked(c, "recompute"),
                      c \notin shrunk
               PROVE  call[c].listed <= call[c].total /\ call[c].total <= Weight
    BY DEF StatsBracketed
  <1>1. c \in outer.readers /\ call[c].pc = "recompute" /\ call[c].todo = {} /\ TypeOK
    BY DEF Walked, At, BudgetInv, IInv
  <1>2. WalkOK(call[c], c \in outer.readers)
    BY DEF BudgetInv, Walking
  <1>3. Named(call[c].todo) = {} /\ LiveNames \ Named(call[c].todo) = LiveNames
    BY <1>1 DEF Named
  <1>4. /\ call[c].total <= Bytes(LiveNames)
        /\ call[c].listed <= call[c].total + Bytes({})
    BY <1>1, <1>2, <1>3 DEF WalkOK, Reporting, Walks
  <1>5. Bytes({}) = 0 /\ Weight = Bytes(LiveNames) /\ call[c].total \in Nat
    BY <1>1, WeightHeld DEF TypeOK, Frame
  <1>6. QED
    BY <1>4, <1>5

(* A report counts no more than the database holds when it answers and no  *)
(* less than it listed, whatever is written between and during its walks   *)
(* over the collections and whoever creates or drops some in between,      *)
(* unless documents have gone (mcp/mod.rs:570-576).                        *)
THEOREM ReportsBracketed == Spec => []StatsBracketed
  <1>1. Init => BudgetInv
    BY InitInvariant, InitBudget DEF BudgetInv
  <1>2. QED
    BY <1>1, NextBudget, BracketedStats, PTL DEF Spec

(* An eviction removes a collection only while the budget is exceeded,     *)
(* although the total is old by then and the victim was picked before      *)
(* the lock was given back, unless documents have gone                     *)
(* (database.rs:343-369).                                                  *)
THEOREM EvictionsJustified == Spec => EvictsOnlyOverBudget
  <1>1. ASSUME BudgetInv, Next, NEW c \in Client, call[c].op = "evict", c \notin shrunk,
               collections' # collections, call'[c] # call[c]
        PROVE  Weight > limit_bytes
    <2>1. PICK b \in Client :
            \/ \E op \in OpNames, n \in Name \cup {None} : Call(b, op, n)
            \/ Step(b)
      BY <1>1 DEF Next
    <2>2. TypeOK /\ FramesOK /\ Stages /\ WalkOK(call[c], c \in outer.readers)
      BY <1>1 DEF BudgetInv, IInv, Walking
    <2>3. AutoCreate(b) \/ CreateCollection(b) \/ DropCollection(b) \/ RemoveVictim(b)
      BY <1>1, <2>1
         DEF Step, Call, Embed, EmbedFails, Lookup, LookupMissing, TakeTick, Touch,
             AutoCreateFound, ClaimInner, Mutate, StartSearch, FinishSearch, ClaimOuter,
             StartWalk, Weigh, FinishSnapshot, FinishRecompute, StartPick, Inspect, PickVictim
    <2>4. b = c
      BY <1>1, <2>2, <2>3, Turns DEF Moves, Ends, Turn
    <2>5. call[c].pc \in {"autocreate", "create", "drop", "remove"}
      BY <2>3, <2>4 DEF AutoCreate, CreateCollection, DropCollection, RemoveVictim, At
    <2>6. call[c].pc = "remove"
      BY <1>1, <2>2, <2>5 DEF Stages, Evicting
    <2>7. QED
      BY <1>1, <2>2, <2>6 DEF WalkOK
  <1>2. QED
    <2> DEFINE Step1 == \A c \in Client :
             (/\ call[c].op = "evict" /\ c \notin shrunk
              /\ collections' # collections /\ call'[c] # call[c])
               => Weight > limit_bytes
    <2>1. BudgetInv /\ [Next]_vars => [Step1]_vars
      BY <1>1
    <2>2. Init => BudgetInv
      BY InitInvariant, InitBudget DEF BudgetInv
    <2>3. QED
      BY <2>1, <2>2, NextBudget, PTL DEF Spec, EvictsOnlyOverBudget

-----------------------------------------------------------------------------
(* The server's inductive invariant.  A session is open only while the     *)
(* process serves or drains, one at most on stdio, and a handler is at     *)
(* work only from there until the runtime has waited for the last one:     *)
(* none meets an embedder that is not loaded or a database that is gone.   *)
Phases == {"loading", "loaded", "binding", "serving", "draining", "stopping", "exited"}

SessionsOK ==
  /\ phase \in Phases
  /\ transport \in {"none", "stdio", "http"}
  /\ sessions \in 0 .. MaxSessions
  /\ phase = "binding" => transport = "http"
  /\ phase = "draining" => transport = "http"
  /\ sessions > 0 => phase \in {"serving", "draining"}
  /\ transport = "stdio" => sessions <= 1

ServedOnly ==
  \A c \in Client : ~At(c, "idle") => phase \in {"serving", "draining", "stopping"}

ServerInv == IInv /\ SessionsOK /\ ServedOnly

-----------------------------------------------------------------------------
(* It holds when the process starts.                                       *)
LEMMA ServerInitInvariant == ServerInit => ServerInv
  <1> SUFFICES ASSUME ServerInit PROVE ServerInv
    OBVIOUS
  <1>1. IInv
    BY InitInvariant DEF ServerInit
  <1>2. SessionsOK
    BY MaxSessionsAssumption DEF ServerInit, SessionsOK, Phases
  <1>3. ServedOnly
    BY DEF ServerInit, Init, ServedOnly, At, Idle
  <1>4. QED
    BY <1>1, <1>2, <1>3 DEF ServerInv

(* With every handler done no lock is held, so that the database left by   *)
(* the process has the invariant like a new one.                           *)
LEMMA ExitStep ==
  ASSUME IInv, Exit
  PROVE  IInv'
  <1>1. /\ call' = call /\ outer' = outer /\ inner' = inner /\ shrunk' = shrunk
        /\ \A c \in Client : call[c].pc = "idle"
        /\ collections' = [n \in Name |-> None]
        /\ guards' = [g \in Guard |-> Free]
        /\ tick_counter' = 0
    BY DEF Exit, At
  <1>2. TypeOK'
    <2>1. Free \in Allocation
      BY BoundAssumption DEF Free, Allocation
    <2>2. QED
      BY <1>1, <2>1, BoundAssumption DEF IInv, TypeOK
  <1>3. FramesOK'
    BY <1>1 DEF IInv, FramesOK
  <1>4. OuterOK'
    BY <1>1 DEF IInv, OuterOK, Walks
  <1>5. InnerOK'
    BY <1>1 DEF IInv, InnerOK
  <1>6. \A c \in Client : call[c].held = None
    BY <1>1 DEF IInv, FramesOK, FrameOK, Holding
  <1>7. NamesAgree' /\ PinsOK'
    BY <1>1, <1>6 DEF NamesAgree, PinsOK
  <1>8. TicksOK'
    <2>1. Live' = {}
      BY <1>1 DEF Live
    <2>2. QED
      BY <1>1, <2>1 DEF TicksOK, At
  <1>9. PicksOK'
    BY <1>1 DEF PicksOK, At
  <1>10. QED
    BY <1>2, <1>3, <1>4, <1>5, <1>7, <1>8, <1>9 DEF IInv

(* A step of the server is a step of its database, the end of the process, *)
(* or nothing to the database.                                             *)
LEMMA ServerStep ==
  ASSUME ServerNext
  PROVE  Next \/ Exit \/ UNCHANGED vars
  <1>1. CASE StartUp
    BY <1>1 DEF StartUp, Load, SelectTransport, Bind, Move, Stop
  <1>2. CASE Connect \/ Disconnect
    BY <1>2 DEF Connect, Disconnect, Move, Stop
  <1>3. CASE Cancel \/ CloseSession \/ Drained
    BY <1>3 DEF Cancel, CloseSession, Drained, Move, Stop
  <1>4. CASE Exit
    BY <1>4
  <1>5. CASE (\E c \in Client : Serve(c) \/ Request(c)) /\ Observe
    BY <1>5 DEF Serve, Request, Next
  <1>6. QED
    BY <1>1, <1>2, <1>3, <1>4, <1>5 DEF ServerNext

(* Sessions open and close within the time of service.                     *)
LEMMA SessionsStep ==
  ASSUME SessionsOK, [ServerNext]_allVars
  PROVE  SessionsOK'
  <1> USE MaxSessionsAssumption DEF SessionsOK, Phases
  <1>1. CASE StartUp
    BY <1>1 DEF StartUp, Load, SelectTransport, Bind, Move, Stop
  <1>2. CASE Connect
    BY <1>2 DEF Connect, Move, Stop
  <1>3. CASE Disconnect
    BY <1>3 DEF Disconnect, Move, Stop
  <1>4. CASE Cancel \/ CloseSession \/ Drained
    BY <1>4 DEF Cancel, CloseSession, Drained, Move, Stop
  <1>5. CASE Exit
    BY <1>5 DEF Exit
  <1>6. CASE (\E c \in Client : Serve(c) \/ Request(c)) /\ Observe
    BY <1>6 DEF Serve, Request, serverVars
  <1>7. CASE UNCHANGED allVars
    BY <1>7 DEF allVars, serverVars
  <1>8. QED
    BY <1>1, <1>2, <1>3, <1>4, <1>5, <1>6, <1>7 DEF ServerNext

(* The process only leaves its time of service when all handlers are done. *)
LEMMA ServedStep ==
  ASSUME ServedOnly, SessionsOK, [ServerNext]_allVars
  PROVE  ServedOnly'
  <1>1. CASE StartUp
    BY <1>1 DEF StartUp, Load, SelectTransport, Bind, Move, Stop, ServedOnly, At, vars, dbVars
  <1>2. CASE Connect
    BY <1>2 DEF Connect, Move, Stop, ServedOnly, At, vars, dbVars
  <1>3. CASE Disconnect
    <2>1. phase' \in {"serving", "stopping"} /\ call' = call
      BY <1>3 DEF Disconnect, Move, Stop, vars, dbVars
    <2>2. QED
      BY <2>1 DEF ServedOnly
  <1>4. CASE Cancel \/ CloseSession \/ Drained
    BY <1>4 DEF Cancel, CloseSession, Drained, Move, Stop, ServedOnly, At, vars, dbVars
  <1>5. CASE Exit
    BY <1>5 DEF Exit, ServedOnly, At
  <1>6. CASE (\E c \in Client : Serve(c) \/ Request(c)) /\ Observe
    BY <1>6 DEF Serve, Request, serverVars, ServedOnly
  <1>7. CASE UNCHANGED allVars
    BY <1>7 DEF allVars, serverVars, vars, dbVars, ServedOnly, At
  <1>8. QED
    BY <1>1, <1>2, <1>3, <1>4, <1>5, <1>6, <1>7 DEF ServerNext

(* Every step keeps the invariant.                                         *)
LEMMA ServerNextInvariant == ServerInv /\ [ServerNext]_allVars => ServerInv'
  <1> SUFFICES ASSUME ServerInv, [ServerNext]_allVars PROVE ServerInv'
    OBVIOUS
  <1>1. CASE ServerNext
    BY <1>1, ServerStep, ExitStep, NextInvariant, SessionsStep, ServedStep DEF ServerInv
  <1>2. CASE UNCHANGED allVars
    <2>1. UNCHANGED vars
      BY <1>2 DEF allVars
    <2>2. QED
      BY <2>1, NextInvariant, SessionsStep, ServedStep DEF ServerInv
  <1>3. QED
    BY <1>1, <1>2

(* Over the whole life of the process, for any number of clients and       *)
(* sessions, the database keeps its invariant, at most one session is open *)
(* on stdio, and no handler is at work before the embedder has been loaded *)
(* and a transport opened or after main has returned (main.rs, http.rs,    *)
(* stdio.rs).                                                              *)
THEOREM ServiceInvariant == ServerSpec => []ServerInv
  <1>1. ServerSpec => ServerInit /\ [][ServerNext]_allVars
    BY PTL DEF ServerSpec
  <1>2. QED
    BY <1>1, ServerInitInvariant, ServerNextInvariant, PTL

(* In a server too no group of calls waits on itself, while sessions come  *)
(* and go and the server is shut down around them.                         *)
THEOREM ServerDeadlockFree == ServerSpec => []NoWaitCycle
  <1>1. ServerInv => NoWaitCycle
    BY NoCycle DEF ServerInv
  <1>2. QED
    BY <1>1, ServiceInvariant, PTL

(* Nor does a text being embedded hold anyone up, whatever the server does *)
(* meanwhile (mcp/mod.rs:186-202, 316-330).                                *)
THEOREM ServerEmbeddingLocksNothing == ServerSpec => []EmbeddingHoldsUpNobody
  <1>1. ServerInv => EmbeddingHoldsUpNobody
    BY NobodyHeldUp DEF ServerInv
  <1>2. QED
    BY <1>1, ServiceInvariant, PTL

(* The process ends with no handler at work, so no walk is under way.      *)
LEMMA ExitWalks ==
  ASSUME IInv, Stages, Exit
  PROVE  Stages' /\ Walking'
  <1>1. call' = call /\ outer' = outer /\ \A c \in Client : call[c].pc = "idle"
    BY DEF Exit, At
  <1>2. outer.readers = {}
    BY <1>1 DEF IInv, TypeOK, OuterOK, Walks, Lock
  <1>3. Stages'
    BY <1>1 DEF Stages
  <1>4. Walking'
    BY <1>1, <1>2 DEF Walking, WalkOK
  <1>5. QED
    BY <1>3, <1>4

(* In a server a report is bracketed too, whoever connects, leaves or      *)
(* shuts the server down between its two walks (mcp/mod.rs:570-576).       *)
THEOREM ServerReportsBracketed == ServerSpec => []StatsBracketed
  <1> DEFINE Inv == ServerInv /\ Stages /\ Walking
  <1>1. ServerInit => Inv
    BY ServerInitInvariant, InitBudget DEF ServerInit
  <1>2. Inv /\ [ServerNext]_allVars => Inv'
    <2> SUFFICES ASSUME Inv, [ServerNext]_allVars PROVE Inv'
      OBVIOUS
    <2>1. ServerInv' /\ IInv /\ BudgetInv
      BY ServerNextInvariant DEF ServerInv, BudgetInv
    <2>2. CASE Exit
      BY <2>1, <2>2, ExitWalks
    <2>3. CASE [Next]_vars
      BY <2>1, <2>3, NextBudget DEF BudgetInv
    <2>4. Exit \/ [Next]_vars
      BY ServerStep DEF allVars
    <2>5. QED
      BY <2>2, <2>3, <2>4
  <1>3. Inv => StatsBracketed
    BY BracketedStats DEF ServerInv, BudgetInv
  <1>4. ServerSpec => ServerInit /\ [][ServerNext]_allVars
    BY PTL DEF ServerSpec
  <1>5. QED
    BY <1>1, <1>2, <1>3, <1>4, PTL
=============================================================================
