----------------------------- MODULE Collection -----------------------------
(***************************************************************************)
(* One nanovec collection: the vector store, the record store with its id  *)
(* map, and the optional HNSW index, together with the tool handlers that  *)
(* change them.  A handler runs under the collection's inner lock, so each *)
(* one is a single action here; the locks are the subject of               *)
(* NanoVecDatabase.tla.                                                    *)
(*                                                                         *)
(* A vector is a value of Vector (its floats do not matter here, only      *)
(* which vector sits where) with a dimension.  A text stands for the text  *)
(* and the metadata of a record, so a metadata filter Some(pairs) is {P}   *)
(* with P the texts whose metadata holds the pairs, and None is {}.        *)
(* Offsets and indices are 0-based as in the code: cell i of a Rust Vec is *)
(* element i + 1 of the sequence.                                          *)
(***************************************************************************)
EXTENDS Naturals, Sequences, FiniteSets, Functions

CONSTANTS
  Vector,       \* the vectors clients send
  DimOf,        \* DimOf[v] is the length of v
  dimension,    \* the dimension the collection is locked to
  Text,         \* texts (with their metadata) clients send
  NoIndex,      \* hnsw = None
  MaxNextId,    \* bound on the ids handed out since the last clear
  MaxK          \* bound on the k of a search

ASSUME DimAssumption == /\ dimension \in Nat \ {0}
                        /\ DimOf \in [Vector -> Nat]
ASSUME NoIndexAssumption == NoIndex \notin Seq(Vector)
ASSUME BoundAssumption == MaxNextId \in Nat /\ MaxK \in Nat

VARIABLES
  vectors,      \* VectorStore.vectors, one element per vector
  records,      \* RecordStore.records
  id_to_idx,    \* RecordStore.id_to_idx
  next_id,      \* RecordStore.next_id
  hnsw,         \* the vectors the index was built over, or NoIndex
  reply         \* what the last handler answered

vars == <<vectors, records, id_to_idx, next_id, hnsw, reply>>

Stored == {v \in Vector : DimOf[v] = dimension}
Record == [id : Nat, offset : Nat, text : Text]
Filter == {{}} \cup {{P} : P \in SUBSET Text}

-----------------------------------------------------------------------------
(* Vec::swap_remove on a sequence: the last element takes the place of     *)
(* the removed one and the sequence shrinks.  VectorStore::swap_remove     *)
(* does the same to whole vectors.                                         *)
SwapRemove(s, i) ==
  [j \in 1 .. Len(s) - 1 |-> IF j = i + 1 THEN s[Len(s)] ELSE s[j]]

(* RecordStore::remove: the map forgets id, and the record that filled the *)
(* hole, if any did, is mapped to its new index.                           *)
RemainingRecords(id) == SwapRemove(records, id_to_idx[id])

RemainingIndex(id) ==
  LET idx  == id_to_idx[id]
      left == RemainingRecords(id)
      rest == Restrict(id_to_idx, DOMAIN id_to_idx \ {id})
  IN  IF idx < Len(left)
        THEN [k \in DOMAIN rest \cup {left[idx + 1].id} |->
                IF k = left[idx + 1].id THEN idx ELSE rest[k]]
        ELSE rest

WithOffset(r, o) == [id |-> r.id, offset |-> o, text |-> r.text]

(* Mutation: the moved vector's record is not told its new offset.         *)
Relocate_Never(recs, index, old, new) == recs

(* The first record that still points at offset old, if one does, is       *)
(* pointed at offset new, reaching it by its id through the id map.        *)
Relocate(recs, index, old, new) ==
  LET moved == {i \in 1 .. Len(recs) :
                  /\ recs[i].offset = old
                  /\ \A j \in 1 .. i - 1 : recs[j].offset # old}
  IN  [i \in 1 .. Len(recs) |->
        IF \E m \in moved : recs[m].id \in DOMAIN index /\ index[recs[m].id] = i - 1
          THEN WithOffset(recs[i], new)
          ELSE recs[i]]

(* RecordStore::get: present iff the id is in the map.                     *)
Get(id) == records[id_to_idx[id] + 1]

-----------------------------------------------------------------------------
Init == /\ vectors = << >>
        /\ records = << >>
        /\ id_to_idx = << >>
        /\ next_id = 0
        /\ hnsw = NoIndex
        /\ reply = [op |-> "none"]

(* A handler that returns Err leaves the collection alone.                 *)
Fails == /\ reply' = [op |-> "error"]
         /\ UNCHANGED <<vectors, records, id_to_idx, next_id, hnsw>>

(* Mutation: the dimension is not compared.                                *)
IndexVector_AnyDimension(v, t) ==
  /\ next_id < MaxNextId
  /\ vectors' = Append(vectors, v)
  /\ records' = Append(records, [id |-> next_id, offset |-> Len(vectors), text |-> t])
  /\ id_to_idx' = [k \in DOMAIN id_to_idx \cup {next_id} |->
                     IF k = next_id THEN Len(records) ELSE id_to_idx[k]]
  /\ next_id' = next_id + 1
  /\ hnsw' = NoIndex
  /\ reply' = [op |-> "index", id |-> next_id]

(* Mutation: the id is the number of records, which a delete lowers.       *)
IndexVector_IdFromCount(v, t) ==
  LET id == Len(records)
  IN  /\ DimOf[v] = dimension
      /\ next_id < MaxNextId
      /\ vectors' = Append(vectors, v)
      /\ records' = Append(records, [id |-> id, offset |-> Len(vectors), text |-> t])
      /\ id_to_idx' = [k \in DOMAIN id_to_idx \cup {id} |->
                         IF k = id THEN Len(records) ELSE id_to_idx[k]]
      /\ next_id' = next_id + 1
      /\ hnsw' = NoIndex
      /\ reply' = [op |-> "index", id |-> id]

(* index_vector, and index_document past the embedder: the vector goes to  *)
(* the end of the vector store, its offset goes into a new record, and the *)
(* index no longer matches the store.                                      *)
IndexVector(v, t) ==
  /\ DimOf[v] = dimension
  /\ next_id < MaxNextId
  /\ vectors' = Append(vectors, v)
  /\ records' = Append(records, [id |-> next_id, offset |-> Len(vectors), text |-> t])
  /\ id_to_idx' = [k \in DOMAIN id_to_idx \cup {next_id} |->
                     IF k = next_id THEN Len(records) ELSE id_to_idx[k]]
  /\ next_id' = next_id + 1
  /\ hnsw' = NoIndex
  /\ reply' = [op |-> "index", id |-> next_id]

(* An empty vector, or one of another dimension, is refused before any     *)
(* store is touched.                                                       *)
IndexVectorRefused(v) == DimOf[v] # dimension /\ Fails

(* brute::delete: the vector leaves by swap-remove, the record leaves by   *)
(* swap-remove, and the record whose vector was moved learns its new       *)
(* offset; only then is the index dropped.                                 *)
Delete(id) ==
  /\ id \in DOMAIN id_to_idx
  /\ Get(id).offset < Len(vectors)
  /\ LET offset == Get(id).offset
         last   == Len(vectors) - 1
         left   == RemainingRecords(id)
         index  == RemainingIndex(id)
     IN  /\ vectors' = SwapRemove(vectors, offset)
         /\ id_to_idx' = index
         /\ records' = IF last # offset THEN Relocate(left, index, last, offset) ELSE left
  /\ hnsw' = NoIndex
  /\ reply' = [op |-> "delete", id |-> id]
  /\ UNCHANGED next_id

(* No such id, or a record whose offset is past the store: NotFound, with  *)
(* nothing changed and the index kept.                                     *)
DeleteNotFound(id) ==
  /\ id \in DOMAIN id_to_idx => Get(id).offset >= Len(vectors)
  /\ Fails

(* Mutation: clear keeps the index.                                        *)
Clear_KeepsIndex ==
  /\ vectors' = << >>
  /\ records' = << >>
  /\ id_to_idx' = << >>
  /\ next_id' = 0
  /\ reply' = [op |-> "clear", deleted |-> Len(records)]
  /\ UNCHANGED hnsw

(* clear empties both stores and restarts the ids at 0; the dimension is   *)
(* kept.                                                                   *)
Clear ==
  /\ vectors' = << >>
  /\ records' = << >>
  /\ id_to_idx' = << >>
  /\ next_id' = 0
  /\ hnsw' = NoIndex
  /\ reply' = [op |-> "clear", deleted |-> Len(records)]

(* rebuild_index: kind "none" drops the index; "hnsw" builds one over the  *)
(* vectors as they are now, unless its parameters are refused.             *)
DropIndex ==
  /\ hnsw' = NoIndex
  /\ reply' = [op |-> "rebuild", kind |-> "none"]
  /\ UNCHANGED <<vectors, records, id_to_idx, next_id>>

BuildIndex(m, ef_construction) ==
  /\ m # 0
  /\ ef_construction >= m
  /\ hnsw' = vectors
  /\ reply' = [op |-> "rebuild", kind |-> "hnsw"]
  /\ UNCHANGED <<vectors, records, id_to_idx, next_id>>

BuildIndexRefused(m, ef_construction) ==
  /\ m = 0 \/ ef_construction < m
  /\ Fails

-----------------------------------------------------------------------------
(* A hit carries the vector its score was computed from: the score itself  *)
(* is that vector's distance to the query, and which k of the candidates   *)
(* are nearest depends on a query the model leaves open.                   *)
Hit(id, scored) == [id |-> id, scored |-> scored, text |-> Get(id).text]

Nearest(k, candidates) ==
  {S \in SUBSET candidates :
     Cardinality(S) = IF k < Cardinality(candidates) THEN k ELSE Cardinality(candidates)}

(* record_matches_filter, where a filter is given.                         *)
Matches(text, filter) == \A P \in filter : text \in P

(* Mutation: brute-force search does not filter.                           *)
BruteCandidates_Unfiltered(filter) ==
  {[id |-> records[i].id, scored |-> vectors[records[i].offset + 1]] :
     i \in {j \in 1 .. Len(records) : records[j].offset < Len(vectors)}}

(* BruteForce::search: every record that passes the filter is scored at    *)
(* its own offset.                                                         *)
BruteCandidates(filter) ==
  {[id |-> records[i].id, scored |-> vectors[records[i].offset + 1]] :
     i \in {j \in 1 .. Len(records) : /\ Matches(records[j].text, filter)
                                      /\ records[j].offset < Len(vectors)}}

(* Mutation: the nodes found are not filtered.                             *)
HnswCandidates_Unfiltered(beam, filter) ==
  {[id |-> node, scored |-> vectors[node + 1]] : node \in beam}

(* Hnsw::search: graph nodes are offsets; a node found by the beam is      *)
(* scored at that offset, and the node number is then used as the record   *)
(* id, for the filter as for the answer.                                   *)
HnswCandidates(beam, filter) ==
  {[id |-> node, scored |-> vectors[node + 1]] :
     node \in {n \in beam : filter # {} => /\ n \in DOMAIN id_to_idx
                                           /\ Matches(Get(n).text, filter)}}

(* Hits whose id has no record are left out of the answer.                 *)
Answer(via, k, filter, best) ==
  [op |-> "search", via |-> via, k |-> k, filter |-> filter,
   hits |-> {Hit(c.id, c.scored) : c \in {d \in best : d.id \in DOMAIN id_to_idx}}]

(* search with a metric other than cosine, or with no index built.         *)
SearchBrute(k, filter) ==
  /\ \E best \in Nearest(k, BruteCandidates(filter)) :
       reply' = Answer("brute", k, filter, best)
  /\ UNCHANGED <<vectors, records, id_to_idx, next_id, hnsw>>

(* search with the cosine metric and an index: the beam finds some nodes,  *)
(* at least the entry point's.                                             *)
SearchHnsw(k, filter) ==
  /\ hnsw # NoIndex
  /\ \E beam \in SUBSET (0 .. Len(hnsw) - 1) :
       /\ beam = {} <=> Len(hnsw) = 0
       /\ \E best \in Nearest(k, HnswCandidates(beam, filter)) :
            reply' = Answer("hnsw", k, filter, best)
  /\ UNCHANGED <<vectors, records, id_to_idx, next_id, hnsw>>

-----------------------------------------------------------------------------
Next ==
  \/ \E v \in Vector, t \in Text : IndexVector(v, t)
  \/ \E v \in Vector : IndexVectorRefused(v)
  \/ \E id \in 0 .. MaxNextId : Delete(id)
  \/ \E id \in 0 .. MaxNextId : DeleteNotFound(id)
  \/ Clear
  \/ DropIndex
  \/ \E m, ef_construction \in 0 .. 1 : BuildIndex(m, ef_construction)
  \/ \E m, ef_construction \in 0 .. 1 : BuildIndexRefused(m, ef_construction)
  \/ \E k \in 0 .. MaxK, filter \in Filter : SearchBrute(k, filter)
  \/ \E k \in 0 .. MaxK, filter \in Filter : SearchHnsw(k, filter)

Spec == Init /\ [][Next]_vars

-----------------------------------------------------------------------------
(* Types.                                                                  *)
TypeOK ==
  /\ vectors \in Seq(Stored)
  /\ records \in Seq(Record)
  /\ id_to_idx \in [DOMAIN id_to_idx -> Nat]
  /\ DOMAIN id_to_idx \subseteq Nat
  /\ next_id \in Nat
  /\ hnsw \in Seq(Stored) \cup {NoIndex}

(* The two stores agree: as many records as vectors, and every offset of   *)
(* the vector store owned by exactly one record.                           *)
SameLength      == Len(records) = Len(vectors)
OffsetsInRange  == \A i \in 1 .. Len(records) : records[i].offset < Len(vectors)
OffsetsDistinct == \A i, j \in 1 .. Len(records) :
                     records[i].offset = records[j].offset => i = j
OffsetsCover    == \A o \in 0 .. Len(vectors) - 1 :
                     \E i \in 1 .. Len(records) : records[i].offset = o

OffsetsBijective == SameLength /\ OffsetsInRange /\ OffsetsDistinct /\ OffsetsCover

(* The id map is the inverse of the records' ids, and no live id is one    *)
(* still to be handed out.                                                 *)
RecordsMapped == \A i \in 1 .. Len(records) :
                   /\ records[i].id \in DOMAIN id_to_idx
                   /\ id_to_idx[records[i].id] = i - 1
MapInverse    == \A id \in DOMAIN id_to_idx :
                   /\ id_to_idx[id] < Len(records)
                   /\ records[id_to_idx[id] + 1].id = id
IdsIssued     == \A id \in DOMAIN id_to_idx : id < next_id

IdMapInverse == RecordsMapped /\ MapInverse /\ IdsIssued

(* The coordinated swap-removes of delete (brute.rs:96-134, record.rs:     *)
(* 50-60) keep the vector store, the records and the id map consistent     *)
(* over any sequence of calls.                                             *)
Coherent == OffsetsBijective /\ IdMapInverse

(* A search never meets an index built over other vectors: every mutation  *)
(* that succeeds drops it, and one that fails changes no vector            *)
(* (collections.rs:27-30, mcp/mod.rs:164-166).                             *)
IndexFresh == hnsw # NoIndex => hnsw = vectors

-----------------------------------------------------------------------------
(* Brute-force search answers with min(k, matches) hits, each a live       *)
(* document that passes the filter, scored on its own vector               *)
(* (brute.rs:56-91): none is lost to a dangling offset.                    *)
Live(filter) == {id \in DOMAIN id_to_idx : Matches(Get(id).text, filter)}

OwnVector(hit) ==
  /\ hit.id \in DOMAIN id_to_idx
  /\ hit.scored = vectors[Get(hit.id).offset + 1]
  /\ hit.text = Get(hit.id).text

BruteSearchExact ==
  (reply.op = "search" /\ reply.via = "brute") =>
    /\ \A hit \in reply.hits : Matches(hit.text, reply.filter) /\ OwnVector(hit)
    /\ Cardinality(reply.hits) =
         (IF reply.k < Cardinality(Live(reply.filter))
            THEN reply.k ELSE Cardinality(Live(reply.filter)))

(* HNSW search reports each hit with the distance of its own vector as     *)
(* long as every record sits at the offset equal to its id (hnsw.rs:462-   *)
(* 467), which holds until a document is deleted from a collection.        *)
IdsAreOffsets == \A id \in DOMAIN id_to_idx : Get(id).offset = id

HnswExactWhileIdsAreOffsets ==
  (reply.op = "search" /\ reply.via = "hnsw" /\ IdsAreOffsets) =>
    \A hit \in reply.hits : Matches(hit.text, reply.filter) /\ OwnVector(hit)

(* HNSW search reports each hit with the distance of its own vector, with  *)
(* no such proviso: what rebuild_index promises of a built index           *)
(* (docs/components/hnsw.md, "Reported scores match `simd::cosine`").      *)
HnswReportsOwnVector ==
  (reply.op = "search" /\ reply.via = "hnsw") => \A hit \in reply.hits : OwnVector(hit)

-----------------------------------------------------------------------------
(* The collection implements Corpus: seen through the id map and the       *)
(* offsets, index_vector adds one document, delete takes exactly the named *)
(* one away however the stores are rearranged, and nothing else shows.     *)
docsBar == [id \in DOMAIN id_to_idx |->
              [vector |-> vectors[Get(id).offset + 1], text |-> Get(id).text]]

C == INSTANCE Corpus WITH Vector <- Stored, docs <- docsBar, nextId <- next_id

ImplementsCorpus == C!Spec
=============================================================================
