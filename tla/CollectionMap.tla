---------------------------- MODULE CollectionMap ---------------------------
(***************************************************************************)
(* The map of named collections that stands behind one lock: each call     *)
(* creates, drops or updates one collection, and no two calls overlap.     *)
(* NanoVecDatabase.tla, which replaced it with a lock for the map and one  *)
(* for each collection, implements it.                                     *)
(*                                                                         *)
(* A collection is its identity, which nothing in it shows but which tells *)
(* it from a later one of the same name, and a number of documents.        *)
(***************************************************************************)
EXTENDS Naturals, Functions

CONSTANTS Name,           \* collection names
          Id,             \* identities of collections
          Outcomes(_)     \* counts that one update may leave, from a count

VARIABLE collections      \* name -> collection, for the names that exist

Init == collections = << >>

Collection == [id : Id, count : {0}]     \* a new one

Insert(n, coll) ==
  collections' = [m \in DOMAIN collections \cup {n} |->
                    IF m = n THEN coll ELSE collections[m]]

(* create, or get_or_create of a name that is missing.  Of a name that is  *)
(* there, create is an error and get_or_create a lookup.                   *)
Create(n) ==
  /\ n \notin DOMAIN collections
  /\ \E coll \in Collection :
       /\ \A m \in DOMAIN collections : collections[m].id # coll.id
       /\ Insert(n, coll)

Drop(n) ==
  /\ n \in DOMAIN collections
  /\ collections' = Restrict(collections, DOMAIN collections \ {n})

(* What a caller does with the reference it gets from get_mut.             *)
Update(n) ==
  /\ n \in DOMAIN collections
  /\ \E count \in Outcomes(collections[n].count) :
       collections' = [collections EXCEPT ![n].count = count]

Next == \E n \in Name : Create(n) \/ Drop(n) \/ Update(n)

Spec == Init /\ [][Next]_collections
=============================================================================
