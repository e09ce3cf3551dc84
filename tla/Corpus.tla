------------------------------- MODULE Corpus -------------------------------
(***************************************************************************)
(* What one collection of nanovec promises its clients, with no layout: a  *)
(* corpus of documents, each a vector and a text, under the identifiers    *)
(* that insertion handed out.  Collection.tla is the detailed machine; it  *)
(* is checked and proved to implement this one.                            *)
(***************************************************************************)
EXTENDS Naturals, Functions

CONSTANTS Vector,   \* vectors of the dimension the collection is locked to
          Text      \* what is stored beside a vector: its text and metadata

VARIABLES docs,     \* id -> [vector, text], for the live ids
          nextId    \* the identifier the next insertion hands out

Document == [vector : Vector, text : Text]

Init == /\ docs = << >>
        /\ nextId = 0

(* A document enters under a fresh identifier; every other one stays.      *)
Insert(v, t) ==
  /\ docs' = [id \in DOMAIN docs \cup {nextId} |->
                IF id = nextId THEN [vector |-> v, text |-> t] ELSE docs[id]]
  /\ nextId' = nextId + 1

(* Exactly the named document leaves.                                      *)
Remove(id) ==
  /\ id \in DOMAIN docs
  /\ docs' = Restrict(docs, DOMAIN docs \ {id})
  /\ UNCHANGED nextId

(* Every document leaves and numbering starts again.                       *)
Clear ==
  /\ docs' = << >>
  /\ nextId' = 0

Next == \/ \E v \in Vector, t \in Text : Insert(v, t)
        \/ \E id \in DOMAIN docs : Remove(id)
        \/ Clear

vars == <<docs, nextId>>

Spec == Init /\ [][Next]_vars
=============================================================================
