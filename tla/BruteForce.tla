----------------------------- MODULE BruteForce -----------------------------
(***************************************************************************)
(* Brute-force search, record by record: the records in the order of the   *)
(* record store, each with the score its vector has for the query and with *)
(* whether its metadata passes the filter, go through a bounded heap.      *)
(***************************************************************************)
EXTENDS BoundedMaxHeap, Sequences

CONSTANTS Corpora,   \* record stores searched: sequences of [id, score, matches]
          Limits     \* values of k

Record == [id : Nat, score : Int, matches : BOOLEAN]

ASSUME CorporaAssumption ==
  \A r \in Corpora : /\ r \in Seq(Record)
                     /\ \A i, j \in 1 .. Len(r) : r[i].id = r[j].id => i = j
ASSUME LimitsAssumption == Limits \subseteq Nat

VARIABLES records, k, filtered,   \* the call: what is searched, how many, filter = Some
          next,                   \* the record that comes next
          heap

vars == <<records, k, filtered, next, heap>>

Item(i) == [id |-> records[i].id, score |-> records[i].score]
Passes(i) == filtered => records[i].matches

Init == /\ records \in Corpora
        /\ k \in Limits
        /\ filtered \in BOOLEAN
        /\ next = 1
        /\ heap = {}

(* Mutation: the record after a skipped one is passed over with it.        *)
Skip_Two == /\ next <= Len(records)
            /\ ~Passes(next)
            /\ next' = next + 2
            /\ UNCHANGED <<records, k, filtered, heap>>

(* A record that fails the filter is not scored.                           *)
Skip == /\ next <= Len(records)
        /\ ~Passes(next)
        /\ next' = next + 1
        /\ UNCHANGED <<records, k, filtered, heap>>

Offer == /\ next <= Len(records)
         /\ Passes(next)
         /\ heap' = Push(heap, k, Item(next))
         /\ next' = next + 1
         /\ UNCHANGED <<records, k, filtered>>

Next == Skip \/ Offer

Spec == Init /\ [][Next]_vars

-----------------------------------------------------------------------------
Seen == {Item(i) : i \in {j \in 1 .. next - 1 : Passes(j)}}

(* Every variable has its type.                                            *)
TypeOK == /\ records \in Seq(Record)
          /\ k \in Limits
          /\ filtered \in BOOLEAN
          /\ next \in 1 .. Len(records) + 1
          /\ heap \subseteq [id : Nat, score : Int]

(* The search never loses a match that belongs among the k nearest: at     *)
(* each record, and so at the end, the heap holds the k best of the        *)
(* matching records passed (brute.rs:71-83, heap/mod.rs:48-60).            *)
KeepsNearest == KeepsBest(heap, k, Seen)

(* Among equal scores the records inserted first win, as long as no delete *)
(* has disturbed the order of the ids: the answer is then a function of    *)
(* the documents and not of the scan.                                      *)
Ascending == \A i, j \in 1 .. Len(records) : i < j => records[i].id < records[j].id

TiesGoToOldest ==
  Ascending => \A kept \in heap, lost \in Seen \ heap : Precedes(kept, lost)
=============================================================================
