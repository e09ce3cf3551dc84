---------------------------- MODULE MCBruteForce ----------------------------
(***************************************************************************)
(* BruteForce over every store of up to four records with three scores, in *)
(* two orders of their ids: as inserted, and with the last record moved    *)
(* into the place of a deleted one.                                        *)
(***************************************************************************)
EXTENDS BruteForce

MCOrders == {<<0, 1, 2, 3>>, <<0, 4, 2, 3>>}

MCCorpora ==
  UNION {{[i \in 1 .. n |-> [id |-> ids[i], score |-> scores[i], matches |-> m[i]]] :
            ids \in MCOrders, scores \in [1 .. n -> 0 .. 2], m \in [1 .. n -> BOOLEAN]} :
         n \in 0 .. 4}
=============================================================================
