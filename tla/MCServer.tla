------------------------------ MODULE MCServer ------------------------------
(***************************************************************************)
(* One pinned collection, and between them three clients whose calls take  *)
(* every lock against every other.                                         *)
(***************************************************************************)
EXTENDS Server, TLC

CONSTANTS c1, c2, c3, d

MCGuard == 1 .. Cardinality(Name) + Cardinality(Client)

MCServerOps == c1 :> {"index_document"} @@ c2 :> {"list", "stats"} @@ c3 :> {"search_document", "create", "drop"}
=============================================================================
