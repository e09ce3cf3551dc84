----------------------------- MODULE VectorStore ----------------------------
(***************************************************************************)
(* The flat store of a collection's vectors: one array in which vector     *)
(* number index occupies the elements from index * dimension on.           *)
(*                                                                         *)
(* An element is the vector it was inserted with and its coordinate there. *)
(***************************************************************************)
EXTENDS Integers, Sequences, SequencesExt

CONSTANTS Vec,         \* identities of the vectors inserted
          Dimensions,  \* dimensions a store may be locked to
          MaxVectors   \* bound on the vectors in the store

ASSUME DimensionsAssumption == Dimensions \subseteq Nat \ {0}
ASSUME MaxVectorsAssumption == MaxVectors \in Nat

VARIABLES vectors, dimension, count

storeVars == <<vectors, dimension, count>>

(* A slice of n elements.                                                  *)
Slice(v, n) == [k \in 1 .. n |-> <<v, k - 1>>]

New ==
  /\ vectors = << >>
  /\ dimension \in Dimensions
  /\ count = 0

(* A vector of another length is refused.                                  *)
Insert(v, n) ==
  /\ count < MaxVectors
  /\ IF n = dimension
       THEN /\ vectors' = vectors \o Slice(v, n)
            /\ count' = count + 1
       ELSE UNCHANGED <<vectors, count>>
  /\ UNCHANGED dimension

Start(index) == index * dimension

Get(index) == SubSeq(vectors, Start(index) + 1, Start(index) + dimension)

(* Mutation: the copy stops one element early.                             *)
Moved_Short(from, to) ==
  [p \in DOMAIN vectors |->
     IF p \in Start(to) + 1 .. Start(to) + dimension - 1
       THEN vectors[p - Start(to) + Start(from)]
       ELSE vectors[p]]

(* The last vector is copied over the removed one, then the array is cut.  *)
Moved(from, to) ==
  [p \in DOMAIN vectors |->
     IF p \in Start(to) + 1 .. Start(to) + dimension
       THEN vectors[p - Start(to) + Start(from)]
       ELSE vectors[p]]

(* Mutation: the array is not cut.                                         *)
SwapRemove_NoTruncate(index) ==
  /\ index < count
  /\ vectors' = Moved(count - 1, index)
  /\ count' = count - 1
  /\ UNCHANGED dimension

SwapRemove(index) ==
  /\ index < count
  /\ vectors' = SubSeq(Moved(count - 1, index), 1, Start(count - 1))
  /\ count' = count - 1
  /\ UNCHANGED dimension

(* The dimension stays locked.                                             *)
Clear ==
  /\ vectors' = << >>
  /\ count' = 0
  /\ UNCHANGED dimension

(* The array cut into chunks of the dimension, a rest left out.            *)
Iter == [n \in 1 .. Len(vectors) \div dimension |-> Get(n - 1)]

-----------------------------------------------------------------------------
(* The vector a chunk is, unless the chunk is torn or shifted.             *)
Whole(chunk) ==
  IF \E v \in Vec : chunk = Slice(v, dimension)
    THEN CHOOSE v \in Vec : chunk = Slice(v, dimension)
    ELSE chunk

(* The flat array is the list of vectors that Collection.tla works on: its *)
(* inserts, removals and clears change the chunks as that list changes,    *)
(* and no vector is torn or shifted (store/mod.rs:51-91).                  *)
listBar == [n \in DOMAIN Iter |-> Whole(Iter[n])]

L == INSTANCE VectorList WITH list <- listBar

ImplementsVectorList == L!Spec
=============================================================================
