------------------------------- MODULE MCHnsw -------------------------------
(***************************************************************************)
(* Hnsw over directions in a plane, numbered in the order of their angle,  *)
(* so that the cosine distances of two pairs compare as their differences  *)
(* do: every corpus of up to three nodes, and corpora of four to six that  *)
(* fill a list: a hub that each newcomer stands closer to, copies of one   *)
(* document, and a mixture.                                                *)
(***************************************************************************)
EXTENDS Hnsw

MCPoint == 0 .. 5
MCDist  == [pair \in MCPoint \X MCPoint |->
              IF pair[1] < pair[2] THEN pair[2] - pair[1] ELSE pair[1] - pair[2]]
MCCorpora == UNION {[1 .. n -> {0, 1, 3}] : n \in 0 .. 3}
               \cup {<<2, 0, 4, 1, 3>>, <<0, 5, 4, 3, 2, 1>>, <<0, 0, 0, 0, 0, 0>>}
MCFilters == {{}, 1 .. 6, {1, 3, 4}, {2, 3, 5, 6}}
=============================================================================
