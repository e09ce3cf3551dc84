----------------------------- MODULE VectorList -----------------------------
(***************************************************************************)
(* What the vector store promises: a list of vectors, each whole, that     *)
(* grows at its end and fills the place of a removed vector with the last. *)
(* Collection.tla works on such a list.                                    *)
(***************************************************************************)
EXTENDS Naturals, Sequences, SequencesExt

CONSTANT Vec     \* the vectors that may be inserted

VARIABLE list

Init == list = << >>

Insert(v) == list' = Append(list, v)

SwapRemove(index) ==
  LET last == Len(list)
  IN  list' = Front([list EXCEPT ![index] = list[last]])

Clear == list' = << >>

Next == \/ \E v \in Vec : Insert(v)
        \/ \E index \in 1 .. Len(list) : SwapRemove(index)
        \/ Clear

Spec == Init /\ [][Next]_list
=============================================================================
