-------------------------- MODULE CollectionProofs --------------------------
(***************************************************************************)
(* Proofs about Collection for every set of vectors and texts, every       *)
(* dimension and any number of documents.                                  *)
(***************************************************************************)
EXTENDS Collection, FiniteSetTheorems, TLAPS

(* Swap-remove yields a sequence one shorter, in which the hole holds what *)
(* was last and every other element stays where it was (mod.rs:76-91, and  *)
(* Vec::swap_remove).                                                      *)
LEMMA SwapRemoveShape ==
  ASSUME NEW S, NEW s \in Seq(S), NEW i \in Nat, i < Len(s)
  PROVE  /\ SwapRemove(s, i) \in Seq(S)
         /\ Len(SwapRemove(s, i)) = Len(s) - 1
         /\ \A j \in 1 .. Len(s) - 1 :
              SwapRemove(s, i)[j] = IF j = i + 1 THEN s[Len(s)] ELSE s[j]
  <1>1. Len(s) \in Nat /\ Len(s) - 1 \in Nat /\ s \in [1 .. Len(s) -> S]
    OBVIOUS
  <1>2. SwapRemove(s, i) \in [1 .. Len(s) - 1 -> S]
    BY <1>1 DEF SwapRemove
  <1>3. QED
    BY <1>1, <1>2 DEF SwapRemove

-----------------------------------------------------------------------------
(* The inductive invariant.  Coherence alone is not inductive: delete      *)
(* needs the types to know that what it moves is a record, and the types   *)
(* need coherence to know that the cells delete reads exist.               *)
IInv == TypeOK /\ Coherent /\ IndexFresh

(* Delete empties the cell Hole(id) of the records and the offset Off(id)  *)
(* of the vectors, out of N of each.                                       *)
N == Len(records)
Hole(id) == id_to_idx[id] + 1
Off(id) == Get(id).offset

(* What delete does to the layout.  Every record that stays comes from a   *)
(* cell of the old sequence (the last one, for the hole), keeps its id and *)
(* text, and points at the cell to which its own vector has been moved.    *)
Source(j, hole, last) == IF j = hole THEN last ELSE j

LEMMA DeleteLayout ==
  ASSUME TypeOK, Coherent, NEW id, Delete(id)
  PROVE  /\ N \in Nat \ {0} /\ Hole(id) \in 1 .. N /\ Off(id) \in 0 .. N - 1
         /\ records[Hole(id)].id = id
         /\ vectors' \in Seq(Stored) /\ Len(vectors') = N - 1
         /\ \A o \in 1 .. N - 1 :
              vectors'[o] = IF o = Off(id) + 1 THEN vectors[N] ELSE vectors[o]
         /\ records' \in Seq(Record) /\ Len(records') = N - 1
         /\ \A j \in 1 .. N - 1 : LET s == Source(j, Hole(id), N) IN
              /\ s \in 1 .. N /\ s # Hole(id)
              /\ records'[j].id = records[s].id
              /\ records'[j].text = records[s].text
              /\ records'[j].offset =
                   IF records[s].offset = N - 1 THEN Off(id) ELSE records[s].offset
         /\ DOMAIN id_to_idx' = DOMAIN id_to_idx \ {id}
         /\ \A k \in DOMAIN id_to_idx' :
              id_to_idx'[k] = IF id_to_idx[k] = N - 1 THEN Hole(id) - 1 ELSE id_to_idx[k]
         /\ id_to_idx' \in [DOMAIN id_to_idx' -> Nat]
  <1> DEFINE left == RemainingRecords(id)
             index == RemainingIndex(id)
  <1> USE DEF Source
  <1>1. /\ N \in Nat \ {0} /\ Hole(id) \in 1 .. N /\ Off(id) \in 0 .. N - 1
        /\ records[Hole(id)].id = id
        /\ Len(vectors) = N /\ Len(records) = N
        /\ id_to_idx[id] = Hole(id) - 1
        /\ Off(id) = records[Hole(id)].offset
    <2>1. /\ records \in Seq(Record) /\ N = Len(records) /\ N \in Nat
          /\ \A i \in 1 .. Len(records) : records[i] \in Record
      BY DEF TypeOK, N
    <2>2. /\ id \in DOMAIN id_to_idx
          /\ id_to_idx[id] \in Nat
          /\ id_to_idx[id] < Len(records)
          /\ records[id_to_idx[id] + 1].id = id
      BY DEF TypeOK, Coherent, IdMapInverse, MapInverse, Delete
    <2>3. Hole(id) \in 1 .. N /\ records[Hole(id)].id = id /\ id_to_idx[id] = Hole(id) - 1
      BY <2>1, <2>2 DEF Hole
    <2>4. Off(id) = records[Hole(id)].offset
      BY DEF Get, Hole, Off
    <2>5. Off(id) \in Nat /\ Off(id) < Len(vectors) /\ Len(vectors) = N
      <3>1. records[Hole(id)] \in Record
        BY <2>1, <2>3
      <3>2. Off(id) \in Nat
        BY <2>4, <3>1 DEF Record
      <3>3. records[Hole(id)].offset < Len(vectors) /\ Len(records) = Len(vectors)
        BY <2>1, <2>3 DEF Coherent, OffsetsBijective, OffsetsInRange, SameLength
      <3>4. QED
        BY <2>1, <2>4, <3>2, <3>3
    <2>6. QED
      BY <2>1, <2>2, <2>3, <2>4, <2>5
  <1>2. /\ vectors' \in Seq(Stored) /\ Len(vectors') = N - 1
        /\ \A o \in 1 .. N - 1 :
             vectors'[o] = IF o = Off(id) + 1 THEN vectors[N] ELSE vectors[o]
    <2>1. vectors' = SwapRemove(vectors, Off(id))
      BY DEF Delete, Off
    <2>2. vectors \in Seq(Stored) /\ Off(id) \in Nat /\ Off(id) < Len(vectors)
      BY <1>1 DEF TypeOK
    <2>3. /\ SwapRemove(vectors, Off(id)) \in Seq(Stored)
          /\ Len(SwapRemove(vectors, Off(id))) = Len(vectors) - 1
          /\ \A j \in 1 .. Len(vectors) - 1 :
               SwapRemove(vectors, Off(id))[j] =
                 IF j = Off(id) + 1 THEN vectors[Len(vectors)] ELSE vectors[j]
      BY <2>2, SwapRemoveShape
    <2>4. QED
      BY <1>1, <2>1, <2>3
  <1>3. /\ left \in Seq(Record) /\ Len(left) = N - 1
        /\ \A j \in 1 .. N - 1 : left[j] = records[Source(j, Hole(id), N)]
    <2>1. left = SwapRemove(records, Hole(id) - 1)
      BY <1>1 DEF RemainingRecords
    <2>2. records \in Seq(Record) /\ Hole(id) - 1 \in Nat /\ Hole(id) - 1 < Len(records)
      BY <1>1 DEF TypeOK
    <2>3. /\ SwapRemove(records, Hole(id) - 1) \in Seq(Record)
          /\ Len(SwapRemove(records, Hole(id) - 1)) = Len(records) - 1
          /\ \A j \in 1 .. Len(records) - 1 :
               SwapRemove(records, Hole(id) - 1)[j] =
                 IF j = (Hole(id) - 1) + 1 THEN records[Len(records)] ELSE records[j]
      BY <2>2, SwapRemoveShape
    <2> HIDE DEF left
    <2>4. QED
      BY <1>1, <2>1, <2>3
  <1> HIDE DEF left
  <1>4. \A k \in DOMAIN id_to_idx : id_to_idx[k] = N - 1 <=> k = records[N].id
    <2>1. records[N].id \in DOMAIN id_to_idx /\ id_to_idx[records[N].id] = N - 1
      BY <1>1 DEF Coherent, IdMapInverse, RecordsMapped
    <2>2. \A k \in DOMAIN id_to_idx :
            id_to_idx[k] \in Nat /\ records[id_to_idx[k] + 1].id = k
      BY DEF Coherent, IdMapInverse, MapInverse, TypeOK
    <2>3. QED
      BY <1>1, <2>1, <2>2
  <1>5. /\ DOMAIN index = DOMAIN id_to_idx \ {id}
        /\ \A k \in DOMAIN index :
             index[k] = IF id_to_idx[k] = N - 1 THEN Hole(id) - 1 ELSE id_to_idx[k]
    <2>1. CASE Hole(id) < N
      <3>1. left[Hole(id)] = records[N]
        BY <1>1, <1>3, <2>1
      <3>2. records[N].id \in DOMAIN id_to_idx /\ records[N].id # id
        BY <1>1, <2>1 DEF Coherent, IdMapInverse, RecordsMapped
      <3>3. index = [k \in (DOMAIN id_to_idx \ {id}) \cup {records[N].id} |->
                       IF k = records[N].id THEN Hole(id) - 1
                       ELSE Restrict(id_to_idx, DOMAIN id_to_idx \ {id})[k]]
        <4> DEFINE rest == Restrict(id_to_idx, DOMAIN id_to_idx \ {id})
        <4>1. id_to_idx[id] < Len(left) /\ left[id_to_idx[id] + 1] = records[N]
          BY <1>1, <1>3, <2>1, <3>1
        <4>2. DOMAIN rest = DOMAIN id_to_idx \ {id}
          BY DEF Restrict
        <4> HIDE DEF rest
        <4>3. index = [k \in DOMAIN rest \cup {records[N].id} |->
                         IF k = records[N].id THEN id_to_idx[id] ELSE rest[k]]
          BY <4>1 DEF RemainingIndex, index, left, rest
        <4>4. QED
          BY <1>1, <4>2, <4>3 DEF rest
      <3>4. QED
        BY <1>4, <3>2, <3>3 DEF Restrict
    <2>2. CASE Hole(id) = N
      <3>1. index = Restrict(id_to_idx, DOMAIN id_to_idx \ {id})
        BY <1>1, <1>3, <2>2 DEF RemainingIndex, left
      <3>2. \A k \in DOMAIN id_to_idx \ {id} : id_to_idx[k] # N - 1
        BY <1>1, <1>4, <2>2
      <3>3. QED
        BY <3>1, <3>2 DEF Restrict
    <2>3. QED
      BY <1>1, <2>1, <2>2
  <1> HIDE DEF index
  <1>6. \A j \in 1 .. N - 1 : /\ left[j].id \in DOMAIN index
                             /\ index[left[j].id] = j - 1
    <2> TAKE j \in 1 .. N - 1
    <2>0. \A i \in 1 .. N : /\ records[i].id \in DOMAIN id_to_idx
                            /\ id_to_idx[records[i].id] = i - 1
      BY <1>1 DEF Coherent, IdMapInverse, RecordsMapped
    <2>1. CASE j = Hole(id)
      <3>1. left[j] = records[N] /\ N \in 1 .. N /\ N # Hole(id)
        BY <1>1, <1>3, <2>1
      <3>2. /\ records[N].id \in DOMAIN id_to_idx
            /\ id_to_idx[records[N].id] = N - 1
            /\ records[N].id # id
        BY <1>1, <2>0, <3>1
      <3>3. QED
        BY <1>5, <2>1, <3>1, <3>2
    <2>2. CASE j # Hole(id)
      <3>1. left[j] = records[j] /\ j \in 1 .. N /\ j - 1 # N - 1
        BY <1>1, <1>3, <2>2
      <3>2. /\ records[j].id \in DOMAIN id_to_idx
            /\ id_to_idx[records[j].id] = j - 1
            /\ records[j].id # id
        BY <1>1, <2>0, <2>2, <3>1
      <3>3. QED
        BY <1>5, <3>1, <3>2
    <2>3. QED
      BY <2>1, <2>2
  <1>7. \A i, j \in 1 .. N - 1 : left[i].offset = left[j].offset => i = j
    <2> DEFINE from(j) == Source(j, Hole(id), N)
    <2> TAKE i, j \in 1 .. N - 1
    <2>1. /\ from(i) \in 1 .. N /\ from(j) \in 1 .. N
          /\ from(i) = from(j) => i = j
      BY <1>1
    <2>2. left[i] = records[from(i)] /\ left[j] = records[from(j)]
      BY <1>3
    <2> HIDE DEF from
    <2>3. records[from(i)].offset = records[from(j)].offset => from(i) = from(j)
      BY <1>1, <2>1 DEF Coherent, OffsetsBijective, OffsetsDistinct
    <2>4. QED
      BY <2>1, <2>2, <2>3
  <1>8. \A j \in 1 .. N - 1 : left[j].offset # Off(id)
    <2> DEFINE from(j) == Source(j, Hole(id), N)
    <2> TAKE j \in 1 .. N - 1
    <2>1. from(j) \in 1 .. N /\ from(j) # Hole(id) /\ left[j] = records[from(j)]
      BY <1>1, <1>3
    <2> HIDE DEF from
    <2>2. QED
      BY <1>1, <2>1 DEF Coherent, OffsetsBijective, OffsetsDistinct
  <1>9. /\ Len(records') = N - 1
        /\ records' \in Seq(Record)
        /\ \A j \in 1 .. N - 1 :
             records'[j] = IF left[j].offset = N - 1
                             THEN WithOffset(left[j], Off(id)) ELSE left[j]
    <2>1. CASE Off(id) = N - 1
      <3>1. records' = left
        BY <1>1, <2>1 DEF Delete, left, Off
      <3>2. QED
        BY <1>3, <1>8, <2>1, <3>1
    <2>2. CASE Off(id) # N - 1
      <3>1. records' = Relocate(left, index, N - 1, Off(id))
        BY <1>1, <2>2 DEF Delete, left, index, Off
      <3> DEFINE moved == {i \in 1 .. N - 1 :
                             /\ left[i].offset = N - 1
                             /\ \A j \in 1 .. i - 1 : left[j].offset # N - 1}
                 hit(i) == \E m \in moved : /\ left[m].id \in DOMAIN index
                                           /\ index[left[m].id] = i - 1
      <3>2. records' = [i \in 1 .. N - 1 |->
                          IF hit(i) THEN WithOffset(left[i], Off(id)) ELSE left[i]]
        BY <1>3, <3>1 DEF Relocate
      <3>3. \A i \in 1 .. N - 1 : i \in moved <=> left[i].offset = N - 1
        BY <1>1, <1>7
      <3>4. \A i \in 1 .. N - 1 : hit(i) <=> i \in moved
        <4> TAKE i \in 1 .. N - 1
        <4>1. \A m \in moved : index[left[m].id] = i - 1 => m = i
          BY <1>1, <1>6
        <4>2. QED
          BY <1>6, <4>1
      <3>5. \A i \in 1 .. N - 1 :
              records'[i] = IF left[i].offset = N - 1
                              THEN WithOffset(left[i], Off(id)) ELSE left[i]
        BY <3>2, <3>3, <3>4
      <3> HIDE DEF hit
      <3>6. \A i \in 1 .. N - 1 : WithOffset(left[i], Off(id)) \in Record
        <4> TAKE i \in 1 .. N - 1
        <4>1. left[i] \in Record /\ Off(id) \in Nat
          BY <1>1, <1>3
        <4>2. QED
          BY <4>1 DEF Record, WithOffset
      <3>7. records' \in [1 .. N - 1 -> Record]
        BY <1>3, <3>2, <3>6
      <3>8. N - 1 \in Nat
        BY <1>1
      <3>9. records' \in Seq(Record) /\ Len(records') = N - 1
        BY <3>7, <3>8
      <3>10. QED
        BY <3>5, <3>9
    <2>3. QED
      BY <2>1, <2>2
  <1>10. \A j \in 1 .. N - 1 : LET s == Source(j, Hole(id), N) IN
           /\ s \in 1 .. N /\ s # Hole(id)
           /\ records'[j].id = records[s].id
           /\ records'[j].text = records[s].text
           /\ records'[j].offset =
                IF records[s].offset = N - 1 THEN Off(id) ELSE records[s].offset
    <2> TAKE j \in 1 .. N - 1
    <2>1. left[j] = records[Source(j, Hole(id), N)] /\ left[j] \in Record
      BY <1>3
    <2>2. Source(j, Hole(id), N) \in 1 .. N /\ Source(j, Hole(id), N) # Hole(id)
      BY <1>1
    <2> HIDE DEF Source
    <2>3. QED
      BY <1>9, <2>1, <2>2 DEF Record, WithOffset
  <1>11. id_to_idx' = index
    BY DEF Delete, index
  <1>12. id_to_idx' \in [DOMAIN id_to_idx' -> Nat]
    <2>1. \A k \in DOMAIN index : index[k] \in Nat
      BY <1>1, <1>5 DEF TypeOK
    <2>2. index = [k \in DOMAIN index |-> index[k]]
      BY DEF RemainingIndex, Restrict, index
    <2>3. QED
      BY <1>11, <2>1, <2>2
  <1>13. QED
    BY <1>1, <1>2, <1>5, <1>9, <1>10, <1>11, <1>12

(* A successful delete keeps the invariant.                                *)
LEMMA DeleteStep ==
  ASSUME IInv, NEW id, Delete(id)
  PROVE  IInv'
  <1> USE DEF IInv
  <1>1. /\ N \in Nat \ {0} /\ Hole(id) \in 1 .. N /\ Off(id) \in 0 .. N - 1
        /\ records[Hole(id)].id = id
        /\ vectors' \in Seq(Stored) /\ Len(vectors') = N - 1
        /\ records' \in Seq(Record) /\ Len(records') = N - 1
        /\ DOMAIN id_to_idx' = DOMAIN id_to_idx \ {id}
        /\ \A k \in DOMAIN id_to_idx' :
             id_to_idx'[k] = IF id_to_idx[k] = N - 1 THEN Hole(id) - 1 ELSE id_to_idx[k]
        /\ id_to_idx' \in [DOMAIN id_to_idx' -> Nat]
    BY DeleteLayout
  <1> DEFINE src(j) == Source(j, Hole(id), N)
  <1>2. \A j \in 1 .. N - 1 :
          /\ src(j) \in 1 .. N /\ src(j) # Hole(id)
          /\ records'[j].id = records[src(j)].id
          /\ records'[j].offset =
               IF records[src(j)].offset = N - 1 THEN Off(id) ELSE records[src(j)].offset
    BY DeleteLayout
  <1>3. /\ \A i, j \in 1 .. N - 1 : src(i) = src(j) => i = j
        /\ \A m \in 1 .. N : m # Hole(id) => \E j \in 1 .. N - 1 : src(j) = m
        /\ \A j \in 1 .. N - 1 : src(j) = IF j = Hole(id) THEN N ELSE j
    <2>1. \A j \in 1 .. N - 1 : src(j) = IF j = Hole(id) THEN N ELSE j
      BY DEF Source
    <2>2. \A i, j \in 1 .. N - 1 : src(i) = src(j) => i = j
      BY <1>1, <2>1
    <2>3. ASSUME NEW m \in 1 .. N, m # Hole(id)
          PROVE  \E j \in 1 .. N - 1 : src(j) = m
      <3>1. CASE m = N
        BY <1>1, <2>1, <2>3, <3>1
      <3>2. CASE m # N
        BY <1>1, <2>1, <2>3, <3>2
      <3>3. QED
        BY <3>1, <3>2
    <2>4. QED
      BY <2>1, <2>2, <2>3
  <1> HIDE DEF src
  <1>4. /\ N = Len(records) /\ N = Len(vectors)
        /\ \A i \in 1 .. N : records[i].offset \in 0 .. N - 1
        /\ \A i, j \in 1 .. N : records[i].offset = records[j].offset => i = j
        /\ Off(id) = records[Hole(id)].offset
    <2>1. N = Len(records) /\ N = Len(vectors)
      BY DEF N, Coherent, OffsetsBijective, SameLength
    <2>2. \A i \in 1 .. N : records[i].offset \in 0 .. N - 1
      <3> TAKE i \in 1 .. N
      <3>1. records[i] \in Record
        <4>1. \A m \in 1 .. Len(records) : records[m] \in Record
          BY DEF TypeOK
        <4>2. QED
          BY <2>1, <4>1
      <3>2. records[i].offset \in Nat
        BY <3>1 DEF Record
      <3>3. records[i].offset < N
        BY <2>1 DEF Coherent, OffsetsBijective, OffsetsInRange
      <3>4. QED
        BY <1>1, <3>2, <3>3
    <2>3. \A i, j \in 1 .. N : records[i].offset = records[j].offset => i = j
      BY <2>1 DEF Coherent, OffsetsBijective, OffsetsDistinct
    <2>4. Off(id) = records[Hole(id)].offset
      BY DEF Off, Get, Hole
    <2>5. QED
      BY <2>1, <2>2, <2>3, <2>4
  <1>5. TypeOK'
    BY <1>1 DEF TypeOK, Delete
  <1>6. SameLength'
    BY <1>1 DEF SameLength
  <1>7. OffsetsInRange'
    <2>1. \A j \in 1 .. N - 1 : records'[j].offset < N - 1
      <3> TAKE j \in 1 .. N - 1
      <3>1. /\ records[src(j)].offset \in 0 .. N - 1
            /\ records[src(j)].offset # Off(id)
        BY <1>1, <1>2, <1>4
      <3>2. Off(id) = N - 1 => records[src(j)].offset # N - 1
        BY <3>1
      <3>3. QED
        BY <1>1, <1>2, <3>1, <3>2
    <2>2. QED
      BY <1>1, <2>1 DEF OffsetsInRange
  <1>8. OffsetsDistinct'
    <2>1. \A i, j \in 1 .. N - 1 : records'[i].offset = records'[j].offset => i = j
      <3> TAKE i, j \in 1 .. N - 1
      <3>1. records[src(i)].offset # Off(id) /\ records[src(j)].offset # Off(id)
        BY <1>1, <1>2, <1>4
      <3>2. records[src(i)].offset = records[src(j)].offset => i = j
        <4>1. src(i) \in 1 .. N /\ src(j) \in 1 .. N
          BY <1>2
        <4>2. records[src(i)].offset = records[src(j)].offset => src(i) = src(j)
          BY <4>1, <1>4
        <4>3. src(i) = src(j) => i = j
          BY <1>3
        <4>4. QED
          BY <4>2, <4>3
      <3>3. QED
        BY <1>2, <3>1, <3>2
    <2>2. QED
      BY <1>1, <2>1 DEF OffsetsDistinct
  <1>9. OffsetsCover'
    <2>1. ASSUME NEW o \in 0 .. N - 2
          PROVE  \E j \in 1 .. N - 1 : records'[j].offset = o
      <3> DEFINE old == IF o = Off(id) THEN N - 1 ELSE o
      <3>0. \A p \in 0 .. N - 1 : \E i \in 1 .. N : records[i].offset = p
        BY <1>4 DEF Coherent, OffsetsBijective, OffsetsCover
      <3>1. PICK m \in 1 .. N : records[m].offset = old
        BY <1>1, <3>0
      <3>2. m # Hole(id)
        BY <1>1, <1>4, <3>1
      <3>3. PICK j \in 1 .. N - 1 : src(j) = m
        BY <1>3, <3>2
      <3>4. records'[j].offset = o
        BY <1>1, <1>2, <3>1, <3>3
      <3>5. QED
        BY <3>4
    <2>2. QED
      BY <1>1, <2>1 DEF OffsetsCover
  <1>10. RecordsMapped'
    <2>1. ASSUME NEW j \in 1 .. N - 1
          PROVE  /\ records'[j].id \in DOMAIN id_to_idx'
                 /\ id_to_idx'[records'[j].id] = j - 1
      <3>1. /\ records[src(j)].id \in DOMAIN id_to_idx
            /\ id_to_idx[records[src(j)].id] = src(j) - 1
            /\ id_to_idx[id] = Hole(id) - 1
        BY <1>1, <1>2, <1>4 DEF Coherent, IdMapInverse, RecordsMapped
      <3>2. records[src(j)].id # id
        BY <1>1, <1>2, <3>1
      <3>3. CASE j = Hole(id)
        BY <1>1, <1>2, <1>3, <3>1, <3>2, <3>3
      <3>4. CASE j # Hole(id)
        BY <1>1, <1>2, <1>3, <3>1, <3>2, <3>4
      <3>5. QED
        BY <3>3, <3>4
    <2>2. QED
      BY <1>1, <2>1 DEF RecordsMapped
  <1>11. MapInverse'
    <2>1. ASSUME NEW k \in DOMAIN id_to_idx'
          PROVE  id_to_idx'[k] < N - 1 /\ records'[id_to_idx'[k] + 1].id = k
      <3>1. /\ k \in DOMAIN id_to_idx /\ k # id
            /\ id_to_idx[k] \in 0 .. N - 1
            /\ records[id_to_idx[k] + 1].id = k
        BY <1>1, <1>4 DEF TypeOK, Coherent, IdMapInverse, MapInverse
      <3>2. id_to_idx[k] + 1 # Hole(id)
        BY <1>1, <3>1
      <3>3. PICK j \in 1 .. N - 1 : src(j) = id_to_idx[k] + 1
        <4>1. id_to_idx[k] + 1 \in 1 .. N
          BY <1>1, <3>1
        <4>2. QED
          BY <1>3, <3>2, <4>1
      <3>4. id_to_idx'[k] = j - 1
        BY <1>1, <1>3, <3>1, <3>3
      <3>5. records'[j].id = k
        BY <1>2, <3>1, <3>3
      <3>6. QED
        BY <1>1, <3>4, <3>5
    <2>2. QED
      BY <1>1, <2>1 DEF MapInverse
  <1>12. IdsIssued'
    BY <1>1 DEF IdsIssued, Coherent, IdMapInverse, Delete
  <1>13. IndexFresh'
    BY DEF IndexFresh, Delete
  <1>14. QED
    BY <1>5, <1>6, <1>7, <1>8, <1>9, <1>10, <1>11, <1>12, <1>13
       DEF Coherent, OffsetsBijective, IdMapInverse

-----------------------------------------------------------------------------
(* An insertion keeps the invariant: the new record is the only one at the *)
(* new offset, and its id was never in the map.                            *)
LEMMA IndexVectorStep ==
  ASSUME IInv, NEW v \in Vector, NEW t \in Text, IndexVector(v, t)
  PROVE  IInv'
  <1> DEFINE new == [id |-> next_id, offset |-> Len(vectors), text |-> t]
  <1>1. /\ vectors \in Seq(Stored) /\ v \in Stored /\ vectors' = Append(vectors, v)
        /\ records \in Seq(Record) /\ records' = Append(records, new)
        /\ Len(records) = Len(vectors) /\ Len(vectors) \in Nat
        /\ next_id \in Nat /\ next_id' = next_id + 1
    BY DEF IInv, TypeOK, Coherent, OffsetsBijective, SameLength, IndexVector, Stored
  <1>2. new \in Record
    BY <1>1 DEF Record
  <1> HIDE DEF new
  <1>3. /\ vectors' \in Seq(Stored) /\ Len(vectors') = Len(vectors) + 1
        /\ records' \in Seq(Record) /\ Len(records') = Len(vectors) + 1
        /\ records'[Len(vectors) + 1] = new
        /\ \A i \in 1 .. Len(vectors) : records'[i] = records[i]
    BY <1>1, <1>2
  <1>4. /\ DOMAIN id_to_idx' = DOMAIN id_to_idx \cup {next_id}
        /\ \A k \in DOMAIN id_to_idx' :
             id_to_idx'[k] = IF k = next_id THEN Len(vectors) ELSE id_to_idx[k]
        /\ next_id \notin DOMAIN id_to_idx
    <2>1. /\ DOMAIN id_to_idx' = DOMAIN id_to_idx \cup {next_id}
          /\ \A k \in DOMAIN id_to_idx' :
               id_to_idx'[k] = IF k = next_id THEN Len(vectors) ELSE id_to_idx[k]
      BY <1>1 DEF IndexVector
    <2>2. next_id \notin DOMAIN id_to_idx
      BY <1>1 DEF IInv, Coherent, IdMapInverse, IdsIssued
    <2>3. QED
      BY <2>1, <2>2
  <1>5. TypeOK'
    <2>1. \A k \in DOMAIN id_to_idx' : id_to_idx'[k] \in Nat
      BY <1>1, <1>4 DEF IInv, TypeOK
    <2>2. id_to_idx' = [k \in DOMAIN id_to_idx' |-> id_to_idx'[k]]
      BY DEF IndexVector
    <2>3. id_to_idx' \in [DOMAIN id_to_idx' -> Nat]
      BY <2>1, <2>2
    <2>4. DOMAIN id_to_idx' \subseteq Nat /\ next_id' \in Nat
      BY <1>1, <1>4 DEF IInv, TypeOK
    <2>5. hnsw' = NoIndex
      BY DEF IndexVector
    <2>6. QED
      BY <1>3, <2>3, <2>4, <2>5 DEF TypeOK
  <1>6. /\ \A i \in 1 .. Len(vectors) : records[i].offset \in 0 .. Len(vectors) - 1
        /\ new.offset = Len(vectors) /\ new.id = next_id
    <2>1. \A i \in 1 .. Len(records) : records[i] \in Record
      BY <1>1
    <2>2. \A i \in 1 .. Len(vectors) : records[i].offset \in Nat
      BY <1>1, <2>1 DEF Record
    <2>3. \A i \in 1 .. Len(vectors) : records[i].offset < Len(vectors)
      BY <1>1 DEF IInv, Coherent, OffsetsBijective, OffsetsInRange
    <2>4. QED
      BY <1>1, <2>2, <2>3 DEF new
  <1>7. SameLength' /\ OffsetsInRange'
    BY <1>1, <1>3, <1>6 DEF SameLength, OffsetsInRange
  <1>8. OffsetsDistinct'
    <2>1. \A i, j \in 1 .. Len(vectors) : records[i].offset = records[j].offset => i = j
      BY <1>1 DEF IInv, Coherent, OffsetsBijective, OffsetsDistinct
    <2>2. \A i \in 1 .. Len(vectors) : records[i].offset # new.offset
      BY <1>1, <1>6
    <2>3. QED
      BY <1>1, <1>3, <2>1, <2>2 DEF OffsetsDistinct
  <1>9. OffsetsCover'
    <2>1. ASSUME NEW o \in 0 .. Len(vectors)
          PROVE  \E i \in 1 .. Len(vectors) + 1 : records'[i].offset = o
      <3>1. CASE o = Len(vectors)
        BY <1>1, <1>3, <1>6, <3>1
      <3>2. CASE o # Len(vectors)
        <4>1. PICK i \in 1 .. Len(vectors) : records[i].offset = o
          BY <1>1, <3>2 DEF IInv, Coherent, OffsetsBijective, OffsetsCover
        <4>2. QED
          BY <1>1, <1>3, <4>1
      <3>3. QED
        BY <3>1, <3>2
    <2>2. QED
      BY <1>1, <1>3, <2>1 DEF OffsetsCover
  <1>10. RecordsMapped'
    <2>1. \A i \in 1 .. Len(vectors) : /\ records[i].id \in DOMAIN id_to_idx
                                      /\ id_to_idx[records[i].id] = i - 1
      BY <1>1 DEF IInv, Coherent, IdMapInverse, RecordsMapped
    <2>2. ASSUME NEW i \in 1 .. Len(vectors) + 1
          PROVE  /\ records'[i].id \in DOMAIN id_to_idx'
                 /\ id_to_idx'[records'[i].id] = i - 1
      <3>1. CASE i = Len(vectors) + 1
        BY <1>1, <1>3, <1>4, <1>6, <3>1
      <3>2. CASE i # Len(vectors) + 1
        BY <1>1, <1>3, <1>4, <2>1, <3>2
      <3>3. QED
        BY <3>1, <3>2
    <2>3. QED
      BY <1>3, <2>2 DEF RecordsMapped
  <1>11. MapInverse'
    <2>1. ASSUME NEW k \in DOMAIN id_to_idx'
          PROVE  /\ id_to_idx'[k] < Len(vectors) + 1
                 /\ records'[id_to_idx'[k] + 1].id = k
      <3>1. CASE k = next_id
        BY <1>1, <1>3, <1>4, <1>6, <3>1
      <3>2. CASE k # next_id
        <4>1. /\ id_to_idx[k] \in 0 .. Len(vectors) - 1
              /\ records[id_to_idx[k] + 1].id = k
          BY <1>1, <1>4, <3>2 DEF IInv, TypeOK, Coherent, IdMapInverse, MapInverse
        <4>2. id_to_idx[k] + 1 \in 1 .. Len(vectors)
          BY <1>1, <4>1
        <4>3. QED
          BY <1>1, <1>3, <1>4, <3>2, <4>1, <4>2
      <3>3. QED
        BY <3>1, <3>2
    <2>2. QED
      BY <1>3, <2>1 DEF MapInverse
  <1>12. IdsIssued'
    BY <1>1, <1>4 DEF IInv, TypeOK, Coherent, IdMapInverse, IdsIssued
  <1>13. IndexFresh'
    BY DEF IndexFresh, IndexVector
  <1>14. QED
    BY <1>5, <1>7, <1>8, <1>9, <1>10, <1>11, <1>12, <1>13
       DEF IInv, Coherent, OffsetsBijective, IdMapInverse

(* clear leaves empty stores, which agree.                                 *)
LEMMA ClearStep ==
  ASSUME Clear
  PROVE  IInv'
  <1>1. /\ vectors' = << >> /\ records' = << >> /\ id_to_idx' = << >>
        /\ next_id' = 0 /\ hnsw' = NoIndex
    BY DEF Clear
  <1>2. QED
    BY <1>1 DEF IInv, TypeOK, Coherent, OffsetsBijective, SameLength, OffsetsInRange,
                OffsetsDistinct, OffsetsCover, IdMapInverse, RecordsMapped, MapInverse,
                IdsIssued, IndexFresh

(* The handlers that leave both stores alone: refusals, searches, and the  *)
(* two that only drop the index or build it over the stored vectors.       *)
LEMMA StoresUnchangedStep ==
  ASSUME IInv, UNCHANGED <<vectors, records, id_to_idx, next_id>>,
         hnsw' \in {hnsw, NoIndex, vectors}
  PROVE  IInv'
  <1>1. Coherent'
    BY DEF IInv, Coherent, OffsetsBijective, SameLength, OffsetsInRange, OffsetsDistinct,
           OffsetsCover, IdMapInverse, RecordsMapped, MapInverse, IdsIssued
  <1>2. TypeOK' /\ IndexFresh'
    BY DEF IInv, TypeOK, IndexFresh
  <1>3. QED
    BY <1>1, <1>2 DEF IInv

(* Only index_vector, delete and clear touch the stores.                   *)
Mutation ==
  \/ \E v \in Vector, t \in Text : IndexVector(v, t)
  \/ \E id \in 0 .. MaxNextId : Delete(id)
  \/ Clear

LEMMA NextCases ==
  ASSUME [Next]_vars
  PROVE  \/ Mutation
         \/ /\ UNCHANGED <<vectors, records, id_to_idx, next_id>>
            /\ hnsw' \in {hnsw, NoIndex, vectors}
  BY DEF Next, Mutation, vars, Fails, IndexVectorRefused, DeleteNotFound, DropIndex,
         BuildIndex, BuildIndexRefused, SearchBrute, SearchHnsw

LEMMA InductiveStep ==
  ASSUME IInv, [Next]_vars
  PROVE  IInv'
  <1>1. CASE Mutation
    BY <1>1, IndexVectorStep, DeleteStep, ClearStep DEF Mutation
  <1>2. CASE /\ UNCHANGED <<vectors, records, id_to_idx, next_id>>
             /\ hnsw' \in {hnsw, NoIndex, vectors}
    BY <1>2, StoresUnchangedStep
  <1>3. QED
    BY <1>1, <1>2, NextCases

LEMMA InductiveInvariant == Spec => []IInv
  <1>1. Init => IInv
    BY DEF Init, IInv, TypeOK, Coherent, OffsetsBijective, SameLength, OffsetsInRange,
           OffsetsDistinct, OffsetsCover, IdMapInverse, RecordsMapped, MapInverse,
           IdsIssued, IndexFresh
  <1>2. IInv /\ [Next]_vars => IInv'
    BY InductiveStep
  <1>3. QED
    BY <1>1, <1>2, PTL DEF Spec

(* Every state of a collection is well typed: no handler stores a vector   *)
(* of another dimension.                                                   *)
THEOREM TypeCorrect == Spec => []TypeOK
  BY InductiveInvariant, PTL DEF IInv

(* The vector store, the records and the id map agree after any sequence   *)
(* of calls, whatever order of inserts and swap-removes produced them.     *)
THEOREM StoresCoherent == Spec => []Coherent
  BY InductiveInvariant, PTL DEF IInv

(* An index that a search could use was built over exactly the vectors     *)
(* now stored.                                                             *)
THEOREM IndexNeverStale == Spec => []IndexFresh
  BY InductiveInvariant, PTL DEF IInv

-----------------------------------------------------------------------------
(* An insertion shows as one new document under the next id.               *)
LEMMA InsertRefined ==
  ASSUME IInv, NEW v \in Vector, NEW t \in Text, IndexVector(v, t)
  PROVE  v \in Stored /\ C!Insert(v, t)
  <1> DEFINE new == [id |-> next_id, offset |-> Len(vectors), text |-> t]
  <1>1. /\ vectors \in Seq(Stored) /\ v \in Stored /\ vectors' = Append(vectors, v)
        /\ records \in Seq(Record) /\ records' = Append(records, new)
        /\ Len(records) = Len(vectors) /\ Len(vectors) \in Nat
        /\ next_id' = next_id + 1
    BY DEF IInv, TypeOK, Coherent, OffsetsBijective, SameLength, IndexVector, Stored
  <1>2. /\ vectors'[Len(vectors) + 1] = v
        /\ \A i \in 1 .. Len(vectors) : vectors'[i] = vectors[i]
        /\ records'[Len(vectors) + 1] = new
        /\ \A i \in 1 .. Len(vectors) : records'[i] = records[i]
    BY <1>1
  <1>3. /\ DOMAIN id_to_idx' = DOMAIN id_to_idx \cup {next_id}
        /\ \A k \in DOMAIN id_to_idx' :
             id_to_idx'[k] = IF k = next_id THEN Len(vectors) ELSE id_to_idx[k]
    BY <1>1 DEF IndexVector
  <1>4. ASSUME NEW k \in DOMAIN id_to_idx'
        PROVE  docsBar'[k] = IF k = next_id THEN [vector |-> v, text |-> t] ELSE docsBar[k]
    <2>1. docsBar'[k] = [vector |-> vectors'[records'[id_to_idx'[k] + 1].offset + 1],
                         text |-> records'[id_to_idx'[k] + 1].text]
      BY DEF docsBar, Get
    <2>2. CASE k = next_id
      <3>1. records'[id_to_idx'[k] + 1] = new
        BY <1>1, <1>2, <1>3, <2>2
      <3>2. QED
        BY <1>2, <2>1, <2>2, <3>1
    <2>3. CASE k # next_id
      <3>1. k \in DOMAIN id_to_idx /\ id_to_idx'[k] = id_to_idx[k]
        BY <1>3, <2>3
      <3>2. id_to_idx[k] \in 0 .. Len(vectors) - 1
        BY <1>1, <3>1 DEF IInv, TypeOK, Coherent, IdMapInverse, MapInverse
      <3>3. id_to_idx[k] + 1 \in 1 .. Len(vectors)
        BY <1>1, <3>2
      <3>4. records'[id_to_idx'[k] + 1] = Get(k) /\ Get(k) \in Record
        BY <1>1, <1>2, <3>1, <3>3 DEF Get
      <3>5. Get(k).offset \in Nat
        BY <3>4 DEF Record
      <3>6. Get(k).offset < Len(vectors)
        BY <1>1, <3>3 DEF IInv, Coherent, OffsetsBijective, OffsetsInRange, Get
      <3>7. Get(k).offset + 1 \in 1 .. Len(vectors)
        BY <1>1, <3>5, <3>6
      <3>8. docsBar[k] = [vector |-> vectors[Get(k).offset + 1], text |-> Get(k).text]
        BY <3>1 DEF docsBar
      <3>9. QED
        BY <1>2, <2>1, <2>3, <3>4, <3>7, <3>8
    <2>4. QED
      BY <2>2, <2>3
  <1>5. /\ docsBar' = [k \in DOMAIN id_to_idx' |-> docsBar'[k]]
        /\ DOMAIN docsBar = DOMAIN id_to_idx
    BY DEF docsBar
  <1>6. docsBar' = [k \in DOMAIN docsBar \cup {next_id} |->
                      IF k = next_id THEN [vector |-> v, text |-> t] ELSE docsBar[k]]
    <2> HIDE DEF docsBar
    <2>1. QED
      BY <1>3, <1>4, <1>5
  <1>7. QED
    BY <1>1, <1>6 DEF C!Insert

(* A delete shows as exactly the named document leaving: what the swap-    *)
(* removes move keeps its vector and its text.                             *)
LEMMA RemoveRefined ==
  ASSUME IInv, NEW id, Delete(id)
  PROVE  id \in DOMAIN docsBar /\ C!Remove(id)
  <1> DEFINE src(j) == Source(j, Hole(id), N)
  <1>1. /\ N \in Nat \ {0} /\ Hole(id) \in 1 .. N /\ Off(id) \in 0 .. N - 1
        /\ \A o \in 1 .. N - 1 :
             vectors'[o] = IF o = Off(id) + 1 THEN vectors[N] ELSE vectors[o]
        /\ DOMAIN id_to_idx' = DOMAIN id_to_idx \ {id}
        /\ Len(records') = N - 1
    BY DeleteLayout DEF IInv
  <1>2. \A j \in 1 .. N - 1 :
          /\ src(j) \in 1 .. N /\ src(j) # Hole(id)
          /\ records'[j].id = records[src(j)].id
          /\ records'[j].text = records[src(j)].text
          /\ records'[j].offset =
               IF records[src(j)].offset = N - 1 THEN Off(id) ELSE records[src(j)].offset
    BY DeleteLayout DEF IInv
  <1> HIDE DEF src
  <1>3. /\ N = Len(records) /\ N = Len(vectors)
        /\ Off(id) = records[Hole(id)].offset
        /\ \A i \in 1 .. N : records[i] \in Record
    BY DEF N, Off, Get, Hole, IInv, TypeOK, Coherent, OffsetsBijective, SameLength
  <1>4. IInv'
    BY DeleteStep
  <1>5. ASSUME NEW k \in DOMAIN id_to_idx'
        PROVE  docsBar'[k] = docsBar[k]
    <2> DEFINE j == id_to_idx'[k] + 1
    <2>1. j \in 1 .. N - 1 /\ records'[j].id = k
      <3>1. id_to_idx'[k] \in Nat
        BY <1>4 DEF IInv, TypeOK
      <3>2. id_to_idx'[k] < Len(records') /\ records'[id_to_idx'[k] + 1].id = k
        BY <1>4 DEF IInv, Coherent, IdMapInverse, MapInverse
      <3>3. N - 1 \in Nat /\ Len(records') = N - 1
        BY <1>1
      <3>4. QED
        BY <3>1, <3>2, <3>3
    <2> HIDE DEF j
    <2>2. records[src(j)].id = k
      BY <1>2, <2>1
    <2>3. k \in DOMAIN id_to_idx /\ id_to_idx[k] = src(j) - 1
      <3>1. src(j) \in 1 .. Len(records)
        BY <1>2, <1>3, <2>1
      <3>2. QED
        BY <2>2, <3>1 DEF IInv, Coherent, IdMapInverse, RecordsMapped
    <2>4. src(j) \in Nat
      BY <1>1, <1>2, <2>1
    <2>5. Get(k) = records[src(j)]
      BY <2>3, <2>4 DEF Get
    <2>6. docsBar'[k] = [vector |-> vectors'[records'[j].offset + 1],
                         text |-> records'[j].text]
      BY DEF docsBar, Get, j
    <2>7. docsBar[k] = [vector |-> vectors[records[src(j)].offset + 1],
                        text |-> records[src(j)].text]
      BY <2>3, <2>5 DEF docsBar
    <2>8. vectors'[records'[j].offset + 1] = vectors[records[src(j)].offset + 1]
      <3>1. records[src(j)].offset \in Nat
        BY <1>2, <1>3, <2>1 DEF Record
      <3>2. records[src(j)].offset < N
        BY <1>2, <1>3, <2>1 DEF IInv, Coherent, OffsetsBijective, OffsetsInRange
      <3>3. records[src(j)].offset # Off(id)
        <4>1. /\ src(j) \in 1 .. Len(records) /\ src(j) # Hole(id)
              /\ Hole(id) \in 1 .. Len(records)
          BY <1>1, <1>2, <1>3, <2>1
        <4>2. QED
          BY <1>3, <4>1 DEF IInv, Coherent, OffsetsBijective, OffsetsDistinct
      <3>4. CASE records[src(j)].offset = N - 1
        <4>1. records'[j].offset = Off(id) /\ Off(id) + 1 \in 1 .. N - 1
          <5>1. records'[j].offset = Off(id)
            BY <1>2, <2>1, <3>4
          <5>2. /\ N \in Nat \ {0} /\ Off(id) \in 0 .. N - 1
                /\ Off(id) # N - 1
            BY <1>1, <3>3, <3>4
          <5>3. QED
            BY <5>1, <5>2
        <4>2. QED
          BY <1>1, <3>4, <4>1
      <3>5. CASE records[src(j)].offset # N - 1
        <4>1. /\ records'[j].offset = records[src(j)].offset
              /\ records[src(j)].offset + 1 \in 1 .. N - 1
              /\ records[src(j)].offset + 1 # Off(id) + 1
          <5>1. records'[j].offset = records[src(j)].offset
            BY <1>2, <2>1, <3>5
          <5>2. records[src(j)].offset + 1 \in 1 .. N - 1
            BY <1>1, <3>1, <3>2, <3>5
          <5>3. records[src(j)].offset + 1 # Off(id) + 1
            BY <1>1, <3>1, <3>3
          <5>4. QED
            BY <5>1, <5>2, <5>3
        <4>2. QED
          BY <1>1, <4>1
      <3>6. QED
        BY <3>4, <3>5
    <2>9. QED
      BY <1>2, <2>1, <2>6, <2>7, <2>8
  <1>6. /\ docsBar' = [k \in DOMAIN id_to_idx' |-> docsBar'[k]]
        /\ DOMAIN docsBar = DOMAIN id_to_idx
    BY DEF docsBar
  <1>7. id \in DOMAIN id_to_idx /\ UNCHANGED next_id
    BY DEF Delete
  <1>8. QED
    <2> HIDE DEF docsBar
    <2>1. docsBar' = [k \in DOMAIN docsBar \ {id} |-> docsBar[k]]
      BY <1>1, <1>5, <1>6
    <2>2. QED
      BY <1>6, <1>7, <2>1 DEF C!Remove, C!Restrict

LEMMA ClearRefined ==
  ASSUME Clear
  PROVE  C!Clear
  BY DEF Clear, C!Clear, docsBar

(* A collection implements the corpus: the layout of the stores never      *)
(* shows through the ids.                                                  *)
THEOREM CollectionImplementsCorpus == Spec => ImplementsCorpus
  <1>1. Init => C!Init
    BY DEF Init, C!Init, docsBar
  <1>2. IInv /\ [Next]_vars => [C!Next]_C!vars
    <2> SUFFICES ASSUME IInv, [Next]_vars
                 PROVE  [C!Next]_C!vars
      OBVIOUS
    <2>1. ASSUME NEW v \in Vector, NEW t \in Text, IndexVector(v, t)
          PROVE  C!Next
      BY <2>1, InsertRefined DEF C!Next
    <2>2. ASSUME NEW id \in 0 .. MaxNextId, Delete(id)
          PROVE  C!Next
      BY <2>2, RemoveRefined DEF C!Next
    <2>3. ASSUME Clear
          PROVE  C!Next
      BY <2>3, ClearRefined DEF C!Next
    <2>4. CASE Mutation
      BY <2>1, <2>2, <2>3, <2>4 DEF Mutation
    <2>5. CASE UNCHANGED <<vectors, records, id_to_idx, next_id>>
      BY <2>5 DEF C!vars, docsBar, Get
    <2>6. QED
      BY <2>4, <2>5, NextCases
  <1>3. QED
    BY <1>1, <1>2, InductiveInvariant, PTL DEF Spec, ImplementsCorpus, C!Spec
-----------------------------------------------------------------------------
(* What searches answer.  An answer is about the collection as it is when  *)
(* the search runs, and the next call replaces it; so the properties hold  *)
(* of every state because each search establishes them from coherence.     *)

(* A one-to-one image of a finite set has as many elements.                *)
LEMMA OneToOne ==
  ASSUME NEW S, NEW T, IsFiniteSet(S), NEW f \in [S -> T],
         \A x, y \in S : f[x] = f[y] => x = y,
         \A t \in T : \E x \in S : f[x] = t
  PROVE  IsFiniteSet(T) /\ Cardinality(T) = Cardinality(S)
  <1>1. f \in Surjection(S, T) /\ f \in Injection(S, T)
    BY DEF Surjection, Injection, IsInjective
  <1>2. QED
    BY <1>1, FS_Surjection

(* The record of a live id is found through the map, and its offset has a  *)
(* vector.                                                                 *)
LEMMA RecordOf ==
  ASSUME IInv
  PROVE  /\ Len(records) \in Nat
         /\ \A i \in 1 .. Len(records) :
              /\ records[i].id \in DOMAIN id_to_idx
              /\ Get(records[i].id) = records[i]
              /\ records[i].offset < Len(vectors)
         /\ \A id \in DOMAIN id_to_idx :
              /\ id_to_idx[id] + 1 \in 1 .. Len(records)
              /\ Get(id).id = id
  <1>1. /\ Len(records) \in Nat
        /\ \A id \in DOMAIN id_to_idx : id_to_idx[id] \in Nat
    BY DEF IInv, TypeOK
  <1>2. /\ \A i \in 1 .. Len(records) :
             /\ records[i].id \in DOMAIN id_to_idx
             /\ id_to_idx[records[i].id] = i - 1
             /\ records[i].offset < Len(vectors)
        /\ \A id \in DOMAIN id_to_idx : /\ id_to_idx[id] < Len(records)
                                        /\ records[id_to_idx[id] + 1].id = id
    BY DEF IInv, Coherent, OffsetsBijective, OffsetsInRange, IdMapInverse,
           RecordsMapped, MapInverse
  <1>3. \A i \in 1 .. Len(records) : Get(records[i].id) = records[i]
    BY <1>1, <1>2 DEF Get
  <1>4. \A id \in DOMAIN id_to_idx : id_to_idx[id] + 1 \in 1 .. Len(records)
    BY <1>1, <1>2
  <1>5. QED
    BY <1>1, <1>2, <1>3, <1>4 DEF Get

(* The candidate that a live document is.                                  *)
Candidate(id) == [id |-> id, scored |-> vectors[Get(id).offset + 1]]

(* The candidates of a brute-force search are the live documents that pass *)
(* the filter, each once: none is lost to a dangling offset.               *)
LEMMA CandidatesAreLive ==
  ASSUME IInv, NEW filter
  PROVE  /\ IsFiniteSet(BruteCandidates(filter))
         /\ Cardinality(BruteCandidates(filter)) = Cardinality(Live(filter))
         /\ \A c \in BruteCandidates(filter) : c.id \in Live(filter) /\ c = Candidate(c.id)
  <1> DEFINE cands == BruteCandidates(filter)
             live  == Live(filter)
             f     == [id \in live |-> Candidate(id)]
  <1>1. \A c \in cands : c.id \in live /\ c = Candidate(c.id)
    BY RecordOf DEF BruteCandidates, Live, Candidate
  <1>2. \A id \in live : Candidate(id) \in cands
    <2> TAKE id \in live
    <2>1. PICK i \in 1 .. Len(records) : i = id_to_idx[id] + 1 /\ id \in DOMAIN id_to_idx
      BY RecordOf DEF Live
    <2>2. records[i] = Get(id) /\ Get(id).id = id
      BY <2>1, RecordOf DEF Get
    <2>3. Matches(records[i].text, filter) /\ records[i].offset < Len(vectors)
      BY <2>1, <2>2, RecordOf DEF Live
    <2>4. QED
      BY <2>1, <2>2, <2>3 DEF BruteCandidates, Candidate
  <1>3. IsFiniteSet(live)
    <2>1. next_id \in Nat /\ live \subseteq 0 .. next_id
      BY DEF IInv, TypeOK, Coherent, IdMapInverse, IdsIssued, Live
    <2>2. IsFiniteSet(0 .. next_id)
      BY <2>1, FS_Interval
    <2>3. QED
      BY <2>1, <2>2, FS_Subset
  <1>4. f \in [live -> cands]
    BY <1>2
  <1>5. \A x, y \in live : f[x] = f[y] => x = y
    BY DEF Candidate
  <1>6. \A c \in cands : \E x \in live : f[x] = c
    BY <1>1
  <1> HIDE DEF cands, live, f
  <1>7. IsFiniteSet(cands) /\ Cardinality(cands) = Cardinality(live)
    BY <1>3, <1>4, <1>5, <1>6, OneToOne
  <1>8. QED
    BY <1>1, <1>7 DEF cands, live

(* What BruteSearchExact says of one answer.                               *)
AnswerExact(r) ==
  /\ \A hit \in r.hits : Matches(hit.text, r.filter) /\ OwnVector(hit)
  /\ Cardinality(r.hits) =
       (IF r.k < Cardinality(Live(r.filter)) THEN r.k ELSE Cardinality(Live(r.filter)))

(* A brute-force search answers exactly.                                   *)
LEMMA BruteAnswerExact ==
  ASSUME IInv, NEW k \in Nat, NEW filter,
         NEW best \in Nearest(k, BruteCandidates(filter))
  PROVE  AnswerExact(Answer("brute", k, filter, best))
  <1> DEFINE r    == Answer("brute", k, filter, best)
             hits == {Hit(c.id, c.scored) : c \in best}
             f    == [c \in best |-> Hit(c.id, c.scored)]
             live == Cardinality(Live(filter))
  <1>1. /\ best \subseteq BruteCandidates(filter)
        /\ Cardinality(best) = (IF k < live THEN k ELSE live)
    BY CandidatesAreLive DEF Nearest
  <1>2. \A c \in best : c.id \in Live(filter) /\ c = Candidate(c.id)
    BY <1>1, CandidatesAreLive
  <1>3. /\ r.hits = hits /\ r.k = k /\ r.filter = filter
    BY <1>2 DEF Answer, Live
  <1>4. \A hit \in hits : Matches(hit.text, filter) /\ OwnVector(hit)
    BY <1>2 DEF Hit, OwnVector, Live, Candidate
  <1>5. IsFiniteSet(best)
    BY <1>1, CandidatesAreLive, FS_Subset
  <1>6. f \in [best -> hits] /\ \A h \in hits : \E c \in best : f[c] = h
    OBVIOUS
  <1>7. \A c, d \in best : f[c] = f[d] => c = d
    <2>1. \A c, d \in best : f[c] = f[d] => c.id = d.id
      BY DEF Hit
    <2>2. QED
      BY <1>2, <2>1
  <1>8. Cardinality(hits) = Cardinality(best)
    <2> HIDE DEF hits, f
    <2>1. QED
      BY <1>5, <1>6, <1>7, OneToOne
  <1> HIDE DEF r, hits, f
  <1>9. QED
    BY <1>1, <1>3, <1>4, <1>8 DEF AnswerExact, live, r

(* What HnswExactWhileIdsAreOffsets says of one answer.                    *)
LEMMA HnswAnswerExact ==
  ASSUME IInv, IdsAreOffsets, NEW k, NEW filter, NEW beam \in SUBSET Nat,
         NEW best \in Nearest(k, HnswCandidates(beam, filter)),
         NEW hit \in Answer("hnsw", k, filter, best).hits
  PROVE  Matches(hit.text, filter) /\ OwnVector(hit)
  <1>1. PICK c \in best : c.id \in DOMAIN id_to_idx /\ hit = Hit(c.id, c.scored)
    BY DEF Answer
  <1>2. c \in HnswCandidates(beam, filter)
    BY DEF Nearest
  <1>3. /\ c.scored = vectors[c.id + 1]
        /\ filter # {} => Matches(Get(c.id).text, filter)
    BY <1>2 DEF HnswCandidates
  <1>4. Get(c.id).offset = c.id
    BY <1>1 DEF IdsAreOffsets
  <1>5. Matches(Get(c.id).text, filter)
    BY <1>3 DEF Matches
  <1>6. QED
    BY <1>1, <1>3, <1>4, <1>5 DEF Hit, OwnVector

(* Only a search answers with hits, and it leaves the stores alone.        *)
LEMMA RepliesOfNext ==
  ASSUME Next
  PROVE  \/ reply'.op # "search"
         \/ /\ UNCHANGED <<vectors, records, id_to_idx, next_id, hnsw>>
            /\ \E k \in 0 .. MaxK, filter \in Filter : \/ SearchBrute(k, filter)
                                                       \/ SearchHnsw(k, filter)
  <1>1. \A v \in Vector, t \in Text : IndexVector(v, t) => reply'.op # "search"
    BY DEF IndexVector
  <1>2. \A id \in 0 .. MaxNextId : Delete(id) => reply'.op # "search"
    BY DEF Delete
  <1>3. Fails \/ Clear \/ DropIndex => reply'.op # "search"
    BY DEF Fails, Clear, DropIndex
  <1>4. \A m, ef_construction \in 0 .. 1 :
          BuildIndex(m, ef_construction) => reply'.op # "search"
    BY DEF BuildIndex
  <1>5. ASSUME NEW k \in 0 .. MaxK, NEW filter \in Filter,
               SearchBrute(k, filter) \/ SearchHnsw(k, filter)
        PROVE  UNCHANGED <<vectors, records, id_to_idx, next_id, hnsw>>
    BY <1>5 DEF SearchBrute, SearchHnsw
  <1>6. QED
    BY <1>1, <1>2, <1>3, <1>4, <1>5
       DEF Next, IndexVectorRefused, DeleteNotFound, BuildIndexRefused

(* Every answer given with the stores as they are is exact.                *)
LEMMA AnswersStep ==
  ASSUME IInv, BruteSearchExact, HnswExactWhileIdsAreOffsets, [Next]_vars
  PROVE  BruteSearchExact' /\ HnswExactWhileIdsAreOffsets'
  <1>1. CASE UNCHANGED vars
    BY <1>1 DEF vars, BruteSearchExact, HnswExactWhileIdsAreOffsets, IdsAreOffsets,
                OwnVector, Live, Get
  <1>2. CASE Next /\ reply'.op # "search"
    BY <1>2 DEF BruteSearchExact, HnswExactWhileIdsAreOffsets
  <1>3. ASSUME UNCHANGED <<vectors, records, id_to_idx, next_id, hnsw>>,
               NEW k \in 0 .. MaxK, NEW filter \in Filter, SearchBrute(k, filter)
        PROVE  BruteSearchExact' /\ HnswExactWhileIdsAreOffsets'
    <2>1. PICK best \in Nearest(k, BruteCandidates(filter)) :
            reply' = Answer("brute", k, filter, best)
      BY <1>3 DEF SearchBrute
    <2>2. AnswerExact(reply')
      BY <2>1, BruteAnswerExact, BoundAssumption
    <2>3. BruteSearchExact'
      BY <1>3, <2>2 DEF AnswerExact, BruteSearchExact, Live, OwnVector, Get
    <2>4. reply'.via = "brute"
      BY <2>1 DEF Answer
    <2>5. QED
      BY <2>3, <2>4 DEF HnswExactWhileIdsAreOffsets
  <1>4. ASSUME UNCHANGED <<vectors, records, id_to_idx, next_id, hnsw>>,
               NEW k \in 0 .. MaxK, NEW filter \in Filter, SearchHnsw(k, filter)
        PROVE  BruteSearchExact' /\ HnswExactWhileIdsAreOffsets'
    <2>1. PICK beam \in SUBSET (0 .. Len(hnsw) - 1) :
            \E best \in Nearest(k, HnswCandidates(beam, filter)) :
              reply' = Answer("hnsw", k, filter, best)
      BY <1>4 DEF SearchHnsw
    <2>2. PICK best \in Nearest(k, HnswCandidates(beam, filter)) :
            reply' = Answer("hnsw", k, filter, best)
      BY <2>1
    <2>3. reply'.via = "hnsw" /\ reply'.filter = filter
      BY <2>2 DEF Answer
    <2>4. IdsAreOffsets' = IdsAreOffsets /\ \A hit : OwnVector(hit)' = OwnVector(hit)
      BY <1>4 DEF IdsAreOffsets, OwnVector, Get
    <2>5. beam \in SUBSET Nat
      BY <2>1, <1>4 DEF SearchHnsw, IInv, IndexFresh, TypeOK
    <2>6. ASSUME IdsAreOffsets', NEW hit \in reply'.hits
          PROVE  Matches(hit.text, reply'.filter) /\ OwnVector(hit)'
      BY <2>2, <2>3, <2>4, <2>5, <2>6, HnswAnswerExact
    <2>7. HnswExactWhileIdsAreOffsets'
      BY <2>6 DEF HnswExactWhileIdsAreOffsets, OwnVector
    <2>8. QED
      BY <2>3, <2>7 DEF BruteSearchExact
  <1>5. QED
    BY <1>1, <1>2, <1>3, <1>4, RepliesOfNext

(* Both hold after any sequence of calls.                                  *)
LEMMA AnswersInvariant == Spec => [](BruteSearchExact /\ HnswExactWhileIdsAreOffsets)
  <1>1. Init => BruteSearchExact /\ HnswExactWhileIdsAreOffsets
    BY DEF Init, BruteSearchExact, HnswExactWhileIdsAreOffsets
  <1>2. QED
    BY <1>1, AnswersStep, InductiveInvariant, PTL DEF Spec

(* After any sequence of calls a brute-force search answers with min(k,    *)
(* matches) hits, each a live document that passes the filter, scored on   *)
(* its own vector (brute.rs:56-91).                                        *)
THEOREM BruteSearchIsExact == Spec => []BruteSearchExact
  BY AnswersInvariant, PTL

(* An HNSW search reports each hit with the distance of its own vector as  *)
(* long as every record sits at the offset equal to its id                 *)
(* (hnsw.rs:462-467).                                                      *)
THEOREM HnswSearchOwnVectors == Spec => []HnswExactWhileIdsAreOffsets
  BY AnswersInvariant, PTL
=============================================================================
