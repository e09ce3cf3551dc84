---------------------------- MODULE MCCollection ----------------------------
(***************************************************************************)
(* Collection on a small instance: two vectors of the collection's         *)
(* dimension and one of another.                                           *)
(***************************************************************************)
EXTENDS Collection, TLC

CONSTANTS v1, v2, wrong, t1, t2

MCVector == {v1, v2, wrong}
MCText   == {t1, t2}
MCDimOf  == [v \in MCVector |-> IF v = wrong THEN 3 ELSE 2]

(* The model looks at no vector but through DimOf and at no text but       *)
(* through the filters, which are all the sets of texts.                   *)
Interchangeable == Permutations({v1, v2}) \cup Permutations(MCText)
=============================================================================
