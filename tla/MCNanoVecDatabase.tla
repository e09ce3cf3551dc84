------------------------- MODULE MCNanoVecDatabase --------------------------
(***************************************************************************)
(* Instances of NanoVecDatabase for TLC: which client makes which calls.   *)
(* A name, a guard and a client are small; two names are enough for calls  *)
(* on the same and on different collections, one of them pinned.           *)
(***************************************************************************)
EXTENDS NanoVecDatabase, TLC

CONSTANTS c1, c2, c3, a, d

(* One guard for each name and one more for each client that may hold an   *)
(* orphan, so that an allocation never fails.                              *)
MCGuard == 1 .. Cardinality(Name) + Cardinality(Client)

(* Two writers race on and off the auto-create path while collections are  *)
(* created, dropped and evicted.                                           *)
MCRaceOps == c1 :> {"index", "create"} @@ c2 :> {"delete", "clear", "drop"} @@ c3 :> {"evict"}

(* Two indexers of different names, a reporter and an administrator.       *)
MCIndexOps == c1 :> {"index"} @@ c2 :> {"index"} @@ c3 :> {"stats", "create"}

(* The tool calls the server offers: none of them evicts.                  *)
MCServedOps == [c \in Client |-> OpNames \ {"evict"}]
=============================================================================
