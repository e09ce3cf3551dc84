--------------------------- MODULE BoundedMaxHeap ---------------------------
(***************************************************************************)
(* The bounded heap behind every kind of search: it is offered scored ids  *)
(* one at a time and keeps at most capacity of them, those with the        *)
(* smallest scores.  The array layout of the binary heap does not show     *)
(* through its interface, so a heap is the set of its items.  A score is a *)
(* number of which only the order matters; it is never NaN.                *)
(***************************************************************************)
EXTENDS Integers, FiniteSets

(* OrderedItem's order: by score, then by id.                              *)
Precedes(i, j) == i.score < j.score \/ (i.score = j.score /\ i.id < j.id)

(* peek: the largest item.                                                 *)
Top(heap) == CHOOSE i \in heap : \A j \in heap \ {i} : Precedes(j, i)

PeekWorst(heap) == Top(heap).score

(* Mutation: one item too many is let in.                                  *)
Push_OneOver(heap, capacity, item) ==
  IF capacity = 0 THEN heap
  ELSE IF Cardinality(heap) <= capacity THEN heap \cup {item}
  ELSE IF item.score < PeekWorst(heap) THEN (heap \ {Top(heap)}) \cup {item}
  ELSE heap

(* Mutation: a newcomer as good as the worst item takes its place.         *)
Push_ReplaceTies(heap, capacity, item) ==
  IF capacity = 0 THEN heap
  ELSE IF Cardinality(heap) < capacity THEN heap \cup {item}
  ELSE IF item.score <= PeekWorst(heap) THEN (heap \ {Top(heap)}) \cup {item}
  ELSE heap

(* push: a full heap gives up its largest item for a strictly better one.  *)
Push(heap, capacity, item) ==
  IF capacity = 0 THEN heap
  ELSE IF Cardinality(heap) < capacity THEN heap \cup {item}
  ELSE IF item.score < PeekWorst(heap) THEN (heap \ {Top(heap)}) \cup {item}
  ELSE heap

(* What a heap is for: of the items seen it holds capacity, or all if they *)
(* are fewer, and none of those it turned away beats one that it holds.    *)
KeepsBest(heap, capacity, seen) ==
  /\ heap \subseteq seen
  /\ Cardinality(heap) <= capacity
  /\ Cardinality(heap) < capacity => heap = seen
  /\ \A kept \in heap, lost \in seen \ heap : kept.score <= lost.score
=============================================================================
