------------------------------ MODULE MCKdTree ------------------------------
(***************************************************************************)
(* KdTree in the plane, over points of which some share a coordinate:      *)
(* every corpus of up to three records, and corpora of four and five with  *)
(* ties on either axis, duplicate points and a node three deep.            *)
(***************************************************************************)
EXTENDS KdTree

At(x, y) == <<x, y>>

MCPoints  == {At(0, 0), At(0, 2), At(1, 1), At(2, 1)}
MCCorpora == UNION {[1 .. n -> MCPoints] : n \in 0 .. 3}
               \cup {<<At(2, 1), At(0, 2), At(1, 1), At(0, 0)>>,
                     <<At(0, 2), At(0, 0), At(0, 0), At(2, 1)>>,
                     <<At(2, 0), At(0, 2), At(1, 1), At(2, 2), At(0, 0)>>}
=============================================================================
