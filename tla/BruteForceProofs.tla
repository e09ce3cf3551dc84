-------------------------- MODULE BruteForceProofs --------------------------
(***************************************************************************)
(* Proofs about BruteForce for every store, every k and every scores.      *)
(***************************************************************************)
EXTENDS BruteForce, SearchLemmas

-----------------------------------------------------------------------------
(* The inductive invariant.  KeepsNearest says what the heap keeps but not *)
(* that it is a finite set with a largest item, which the next push needs. *)
IInv == /\ TypeOK
        /\ records \in Corpora
        /\ IsFiniteSet(heap)
        /\ Topped(heap)
        /\ KeepsNearest

(* What has been seen grows by the record at next, if that one passes.     *)
LEMMA SeenGrows ==
  ASSUME TypeOK, next <= Len(records), next' = next + 1,
         UNCHANGED <<records, k, filtered>>
  PROVE  /\ Seen \in SUBSET Items
         /\ Item(next) \in Items
         /\ Seen' = IF Passes(next) THEN Seen \cup {Item(next)} ELSE Seen
<1>1. /\ records \in Seq(Record) /\ next \in 1 .. Len(records)
      /\ Len(records) \in Nat
  BY DEF TypeOK
<1>2. \A i \in 1 .. Len(records) : Item(i) \in Items
  <2>1. \A i \in 1 .. Len(records) : records[i] \in Record
    BY <1>1
  <2>2. QED
    BY <2>1 DEF Item, Items, Record
<1>3. 1 .. next' - 1 = (1 .. next - 1) \cup {next}
  BY <1>1
<1>4. \A i : Item(i)' = Item(i) /\ (Passes(i)' <=> Passes(i))
  BY DEF Item, Passes
<1>5. Seen' = {Item(i) : i \in {j \in (1 .. next - 1) \cup {next} : Passes(j)}}
  BY <1>3, <1>4 DEF Seen
<1>6. Seen \in SUBSET Items
  BY <1>1, <1>2 DEF Seen
<1>7. CASE Passes(next)
  BY <1>1, <1>2, <1>5, <1>6, <1>7 DEF Seen
<1>8. CASE ~Passes(next)
  BY <1>1, <1>2, <1>5, <1>6, <1>8 DEF Seen
<1>9. QED
  BY <1>7, <1>8

(* A record's id is none of those seen before it.                          *)
LEMMA ItemFresh ==
  ASSUME TypeOK, records \in Corpora, next <= Len(records)
  PROVE  \A j \in Seen : j.id # Item(next).id
<1>1. next \in 1 .. Len(records) /\ Len(records) \in Nat
  BY DEF TypeOK
<1>2. \A i, j \in 1 .. Len(records) : records[i].id = records[j].id => i = j
  BY CorporaAssumption
<1>3. QED
  BY <1>1, <1>2 DEF Seen, Item

LEMMA InductiveInvariant == Spec => []IInv
<1>1. Init => IInv
  <2> SUFFICES ASSUME Init PROVE IInv
    OBVIOUS
  <2>1. records \in Seq(Record) /\ Len(records) \in Nat
    BY CorporaAssumption DEF Init
  <2>2. TypeOK
    BY <2>1 DEF Init, TypeOK
  <2>3. Seen = {}
    BY DEF Init, Seen
  <2>4. Cardinality(heap) = 0 /\ IsFiniteSet(heap) /\ k \in Nat
    BY FS_EmptySet, LimitsAssumption DEF Init
  <2>5. KeepsNearest
    BY <2>3, <2>4 DEF Init, KeepsNearest, KeepsBest
  <2>6. QED
    BY <2>2, <2>4, <2>5 DEF Init, IInv, Topped
<1>2. IInv /\ [Next]_vars => IInv'
  <2> SUFFICES ASSUME IInv, [Next]_vars PROVE IInv'
    OBVIOUS
  <2> USE DEF IInv
  <2>1. CASE Skip
    <3>1. next <= Len(records) /\ ~Passes(next) /\ next' = next + 1
          /\ UNCHANGED <<records, k, filtered, heap>>
      BY <2>1 DEF Skip
    <3>2. Seen' = Seen
      BY <3>1, SeenGrows
    <3>3. TypeOK'
      BY <3>1 DEF TypeOK
    <3>4. QED
      BY <3>1, <3>2, <3>3 DEF KeepsNearest, KeepsBest, Topped
  <2>2. CASE Offer
    <3>1. next <= Len(records) /\ Passes(next) /\ next' = next + 1
          /\ UNCHANGED <<records, k, filtered>> /\ heap' = Push(heap, k, Item(next))
      BY <2>2 DEF Offer
    <3>2. Seen' = Seen \cup {Item(next)} /\ Seen \in SUBSET Items /\ Item(next) \in Items
      BY <3>1, SeenGrows
    <3>3. heap \in SUBSET Items /\ k \in Nat
      BY LimitsAssumption DEF TypeOK, Items
    <3>4. KeepsBest(heap, k, Seen)
      BY DEF KeepsNearest
    <3>5. \A j \in Seen : j.id # Item(next).id
      BY <3>1, ItemFresh
    <3>6. /\ heap' \in SUBSET Items
          /\ IsFiniteSet(heap')
          /\ Topped(heap')
          /\ KeepsBest(heap', k, Seen \cup {Item(next)})
      BY <3>1, <3>2, <3>3, <3>4, <3>5, PushKeepsBest
    <3>7. TypeOK'
      BY <3>1, <3>6 DEF TypeOK, Items
    <3>8. KeepsNearest'
      BY <3>1, <3>2, <3>6 DEF KeepsNearest
    <3>9. QED
      BY <3>1, <3>6, <3>7, <3>8 DEF Topped
  <2>3. CASE UNCHANGED vars
    <3>1. Seen' = Seen
      BY <2>3 DEF vars, Seen, Item, Passes
    <3>2. QED
      BY <2>3, <3>1 DEF vars, TypeOK, Topped, KeepsNearest, KeepsBest
  <2>4. QED
    BY <2>1, <2>2, <2>3 DEF Next
<1>3. QED
  BY <1>1, <1>2, PTL DEF Spec

(* The search is well typed throughout.                                    *)
THEOREM SearchTypeCorrect == Spec => []TypeOK
BY InductiveInvariant, PTL DEF IInv

(* Whatever the store, the scores, the filter and k, the heap holds the k  *)
(* best of the records passed so far, and so the answer is exact.          *)
THEOREM SearchExact == Spec => []KeepsNearest
BY InductiveInvariant, PTL DEF IInv
-----------------------------------------------------------------------------
(* Every step of the scan keeps the order.                                 *)
LEMMA OldestStep ==
  ASSUME IInv, TiesGoToOldest, [Next]_vars
  PROVE  TiesGoToOldest'
<1> USE DEF IInv
<1>1. CASE Skip
  <2>1. /\ next <= Len(records) /\ ~Passes(next) /\ next' = next + 1
        /\ UNCHANGED <<records, k, filtered, heap>>
    BY <1>1 DEF Skip
  <2>2. Seen' = Seen
    BY <2>1, SeenGrows
  <2>3. QED
    BY <2>1, <2>2 DEF TiesGoToOldest, Ascending
<1>2. CASE Offer
  <2>1. /\ next <= Len(records) /\ Passes(next) /\ next' = next + 1
        /\ UNCHANGED <<records, k, filtered>> /\ heap' = Push(heap, k, Item(next))
    BY <1>2 DEF Offer
  <2>2. Seen' = Seen \cup {Item(next)} /\ Seen \in SUBSET Items /\ Item(next) \in Items
    BY <2>1, SeenGrows
  <2>3. heap \in SUBSET Items /\ k \in Nat /\ KeepsBest(heap, k, Seen)
    BY LimitsAssumption DEF TypeOK, Items, KeepsNearest
  <2>4. ASSUME Ascending
        PROVE  \A j \in Seen : j.id < Item(next).id
    <3>1. next \in 1 .. Len(records) /\ Len(records) \in Nat
      BY <2>1 DEF TypeOK
    <3>2. QED
      BY <2>4, <3>1 DEF Ascending, Seen, Item
  <2>5. ASSUME Ascending
        PROVE  \A kept \in heap', lost \in Seen' \ heap' : Precedes(kept, lost)
    <3>1. \A kept \in heap, lost \in Seen \ heap : Precedes(kept, lost)
      BY <2>5 DEF TiesGoToOldest
    <3>2. QED
      BY <2>1, <2>2, <2>3, <2>4, <2>5, <3>1, PushKeepsOldest
  <2>6. Ascending' = Ascending
    BY <2>1 DEF Ascending
  <2>7. QED
    BY <2>5, <2>6 DEF TiesGoToOldest
<1>3. CASE UNCHANGED vars
  <2>1. Seen' = Seen
    BY <1>3 DEF vars, Seen, Item, Passes
  <2>2. QED
    BY <1>3, <2>1 DEF vars, TiesGoToOldest, Ascending
<1>4. QED
  BY <1>1, <1>2, <1>3 DEF Next

(* Among equal scores the oldest documents win, at any k and whichever     *)
(* records the filter passes, as long as the ids ascend                    *)
(* (heap/mod.rs:48-60).                                                    *)
THEOREM TiesFavourOldest == Spec => []TiesGoToOldest
<1>1. Init => TiesGoToOldest
  BY DEF Init, TiesGoToOldest
<1>2. QED
  BY <1>1, OldestStep, InductiveInvariant, PTL DEF Spec
=============================================================================
