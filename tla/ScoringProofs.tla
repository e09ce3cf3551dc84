---------------------------- MODULE ScoringProofs ---------------------------
(***************************************************************************)
(* The kernels keep what is proved of them in KernelsProofs when searches  *)
(* call them on a store that changes between the calls; the store is the   *)
(* list of whole vectors it promises to be; and so each score is of the    *)
(* query and one vector.                                                   *)
(***************************************************************************)
EXTENDS Scoring, KernelsProofs, FiniteSetTheorems

-----------------------------------------------------------------------------
(* The store.  Its inductive invariant: the array holds the vectors of the *)
(* list one after the other, each whole, at its multiple of the dimension. *)
NameAt(n) == vectors[Start(n) + 1][1]

StoreInv ==
  /\ dimension \in Dimensions
  /\ count \in 0 .. MaxVectors
  /\ vectors \in Seq(Vec \X Nat)
  /\ Len(vectors) = Start(count)
  /\ \A n \in 0 .. count - 1 :
       /\ NameAt(n) \in Vec
       /\ \A k \in 1 .. dimension : vectors[Start(n) + k] = <<NameAt(n), k - 1>>

Names == [n \in 1 .. count |-> NameAt(n - 1)]

(* A vector before another ends before that one starts.                    *)
LEMMA Apart ==
  ASSUME NEW d \in Nat, NEW m \in Nat, NEW n \in Nat, m < n
  PROVE  m * d \in Nat /\ n * d \in Nat /\ m * d + d <= n * d
OBVIOUS

(* Parts of sequences, element by element.                                 *)
LEMMA PartOf ==
  ASSUME NEW S, NEW s \in Seq(S), NEW from \in Nat, NEW n \in Nat, from + n <= Len(s)
  PROVE  /\ SubSeq(s, from + 1, from + n) \in Seq(S)
         /\ Len(SubSeq(s, from + 1, from + n)) = n
         /\ \A k \in 1 .. n : SubSeq(s, from + 1, from + n)[k] = s[from + k]
OBVIOUS

(* What Append adds is the last.                                           *)
LEMMA Appended ==
  ASSUME NEW S, NEW s \in Seq(S), NEW e \in S
  PROVE  Append(s, e) = [k \in 1 .. Len(s) + 1 |-> IF k = Len(s) + 1 THEN e ELSE s[k]]
<1>1. Append(s, e) \in Seq(S) /\ Len(Append(s, e)) = Len(s) + 1 /\ Len(s) \in Nat
  OBVIOUS
<1>2. Append(s, e) \in [1 .. Len(s) + 1 -> S]
  <2>1. \A q \in Seq(S) : q \in [1 .. Len(q) -> S]
    OBVIOUS
  <2>2. Append(s, e) \in [1 .. Len(Append(s, e)) -> S]
    BY <1>1, <2>1, Zenon
  <2>3. QED
    BY <1>1, <2>2, Zenon
<1>3. \A k \in 1 .. Len(s) + 1 : Append(s, e)[k] = IF k = Len(s) + 1 THEN e ELSE s[k]
  OBVIOUS
<1>4. QED
  BY <1>2, <1>3

(* What is appended as a whole follows what was there.                     *)
LEMMA Joined ==
  ASSUME NEW S, NEW s \in Seq(S), NEW t \in Seq(S)
  PROVE  /\ s \o t \in Seq(S) /\ Len(s \o t) = Len(s) + Len(t)
         /\ \A k \in 1 .. Len(s) : (s \o t)[k] = s[k]
         /\ \A k \in 1 .. Len(t) : (s \o t)[Len(s) + k] = t[k]
OBVIOUS

(* The elements of each vector lie in the array.                           *)
LEMMA InArray ==
  ASSUME StoreInv, NEW n \in 0 .. count - 1
  PROVE  /\ Start(n) \in Nat /\ Start(n) + dimension <= Len(vectors)
         /\ dimension \in Nat \ {0}
         /\ \A k \in 1 .. dimension : Start(n) + k \in 1 .. Len(vectors)
<1>1. n \in Nat /\ count \in Nat /\ n < count /\ dimension \in Nat \ {0}
  BY DimensionsAssumption, MaxVectorsAssumption DEF StoreInv
<1>2. Start(n) \in Nat /\ Start(count) \in Nat /\ Start(n) + dimension <= Start(count)
  <2>1. /\ n * dimension \in Nat /\ count * dimension \in Nat
        /\ n * dimension + dimension <= count * dimension
    BY <1>1, Apart
  <2>2. QED
    BY <2>1 DEF Start
<1>3. Start(n) + dimension <= Len(vectors) /\ Len(vectors) \in Nat
  BY <1>2 DEF StoreInv
<1>4. QED
  BY <1>1, <1>2, <1>3

(* A chunk is the vector of that number, whole.                            *)
LEMMA GetWhole ==
  ASSUME StoreInv, NEW n \in 0 .. count - 1
  PROVE  NameAt(n) \in Vec /\ Get(n) = Slice(NameAt(n), dimension)
<1>1. /\ Start(n) \in Nat /\ Start(n) + dimension <= Len(vectors)
      /\ dimension \in Nat \ {0}
  BY InArray
<1>2. vectors \in Seq(Vec \X Nat)
  BY DEF StoreInv
<1>3. /\ Get(n) \in Seq(Vec \X Nat) /\ Len(Get(n)) = dimension
      /\ \A k \in 1 .. dimension : Get(n)[k] = vectors[Start(n) + k]
  <2> DEFINE E == Vec \X Nat
  <2>1. vectors \in Seq(E) /\ Get(n) = SubSeq(vectors, Start(n) + 1, Start(n) + dimension)
    BY <1>2 DEF Get
  <2> HIDE DEF E
  <2> DEFINE part == SubSeq(vectors, Start(n) + 1, Start(n) + dimension)
  <2>2. dimension \in Nat
    BY <1>1
  <2>3. /\ part \in Seq(E) /\ Len(part) = dimension
        /\ \A k \in 1 .. dimension : part[k] = vectors[Start(n) + k]
    BY <1>1, <2>1, <2>2, PartOf, SMTT(30)
  <2>4. Get(n) = part
    BY <2>1, Zenon
  <2> HIDE DEF part
  <2>5. QED
    BY <2>3, <2>4 DEF E
<1>4. \A k \in 1 .. dimension : Get(n)[k] = <<NameAt(n), k - 1>>
  BY <1>3 DEF StoreInv
<1>5. QED
  BY <1>3, <1>4 DEF Slice, StoreInv

(* Cut into chunks, the array is that list.                                *)
LEMMA ChunksAreNames ==
  ASSUME StoreInv
  PROVE  listBar = Names
<1>1. count \in Nat /\ dimension \in Nat \ {0}
  BY DimensionsAssumption, MaxVectorsAssumption DEF StoreInv
<1>2. Len(vectors) \div dimension = count
  <2>1. (count * dimension) \div dimension = count
    BY <1>1
  <2>2. QED
    BY <2>1 DEF StoreInv, Start
<1>3. Iter = [n \in 1 .. count |-> Get(n - 1)]
  BY <1>2 DEF Iter
<1>4. ASSUME NEW n \in 1 .. count
      PROVE  Whole(Get(n - 1)) = NameAt(n - 1)
  <2>1. n - 1 \in 0 .. count - 1
    BY <1>1
  <2>2. NameAt(n - 1) \in Vec /\ Get(n - 1) = Slice(NameAt(n - 1), dimension)
    BY <2>1, GetWhole
  <2>3. ASSUME NEW v \in Vec, NEW w \in Vec, Slice(v, dimension) = Slice(w, dimension)
        PROVE  v = w
    <3>1. Slice(v, dimension)[1] = <<v, 0>> /\ Slice(w, dimension)[1] = <<w, 0>>
      BY <1>1 DEF Slice
    <3>2. QED
      BY <2>3, <3>1
  <2>4. QED
    BY <2>2, <2>3 DEF Whole
<1>5. QED
  BY <1>3, <1>4 DEF Names, listBar

(* A vector inserted becomes the last of the list; one of another length   *)
(* leaves the store as it was.                                             *)
LEMMA InsertStep ==
  ASSUME StoreInv, NEW v \in Vec, NEW n \in Nat, Insert(v, n)
  PROVE  StoreInv' /\ (Names' = Names \/ Names' = Append(Names, v))
<1>1. count \in Nat /\ dimension \in Nat \ {0} /\ dimension' = dimension
  BY DimensionsAssumption, MaxVectorsAssumption DEF StoreInv, Insert
<1>2. CASE n # dimension
  <2>1. UNCHANGED <<vectors, count, dimension>>
    BY <1>2 DEF Insert
  <2>2. QED
    BY <2>1 DEF StoreInv, Names, NameAt, Start
<1>3. CASE n = dimension
  <2> DEFINE new == Slice(v, dimension)
  <2>1. count' = count + 1 /\ vectors' = vectors \o new /\ count < MaxVectors
    BY <1>3 DEF Insert
  <2>2. /\ new \in Seq(Vec \X Nat) /\ Len(new) = dimension
        /\ \A k \in 1 .. dimension : new[k] = <<v, k - 1>>
    BY <1>1 DEF Slice
  <2>3. vectors \in Seq(Vec \X Nat) /\ Len(vectors) = Start(count) /\ Start(count) \in Nat
    BY <1>1 DEF StoreInv, Start
  <2> HIDE DEF new
  <2>4. /\ vectors' \in Seq(Vec \X Nat) /\ Len(vectors') = Start(count) + dimension
        /\ \A p \in 1 .. Start(count) : vectors'[p] = vectors[p]
        /\ \A k \in 1 .. dimension : vectors'[Start(count) + k] = <<v, k - 1>>
    <3>1. /\ vectors \o new \in Seq(Vec \X Nat)
          /\ Len(vectors \o new) = Len(vectors) + Len(new)
          /\ \A k \in 1 .. Len(vectors) : (vectors \o new)[k] = vectors[k]
          /\ \A k \in 1 .. Len(new) : (vectors \o new)[Len(vectors) + k] = new[k]
      <4> DEFINE E == Vec \X Nat
      <4>1. vectors \in Seq(E) /\ new \in Seq(E)
        BY <2>2, <2>3
      <4> HIDE DEF E
      <4>2. vectors \o new \in Seq(E)
        BY <4>1, Joined
      <4>3. /\ Len(vectors \o new) = Len(vectors) + Len(new)
            /\ \A k \in 1 .. Len(vectors) : (vectors \o new)[k] = vectors[k]
            /\ \A k \in 1 .. Len(new) : (vectors \o new)[Len(vectors) + k] = new[k]
        BY <4>1, Joined
      <4>4. QED
        BY <4>2, <4>3 DEF E
    <3>2. QED
      BY <2>1, <2>2, <2>3, <3>1
  <2>5. (count + 1) * dimension = Start(count) + dimension /\ \A m : Start(m)' = Start(m)
    BY <1>1, <2>1 DEF Start
  <2>6. ASSUME NEW m \in 0 .. count - 1
        PROVE  /\ NameAt(m)' = NameAt(m)
               /\ \A k \in 1 .. dimension : vectors'[Start(m) + k] = <<NameAt(m), k - 1>>
    <3>1. \A k \in 1 .. dimension : vectors'[Start(m) + k] = vectors[Start(m) + k]
      BY <2>3, <2>4, InArray
    <3>2. NameAt(m)' = NameAt(m)
      BY <1>1, <2>5, <3>1 DEF NameAt
    <3>3. QED
      BY <3>1, <3>2 DEF StoreInv
  <2>7. \A m : m = count => NameAt(m)' = v
    <3> SUFFICES ASSUME NEW m, m = count PROVE NameAt(m)' = v
      OBVIOUS
    <3>1. NameAt(m)' = vectors'[Start(m) + 1][1]
      BY <2>5 DEF NameAt
    <3>2. vectors'[Start(count) + 1] = <<v, 0>>
      BY <1>1, <2>4
    <3>3. QED
      BY <3>1, <3>2
  <2>8. StoreInv'
    <3>1. ASSUME NEW m \in 0 .. count' - 1
          PROVE  /\ NameAt(m)' \in Vec
                 /\ \A k \in 1 .. dimension' : vectors'[Start(m)' + k] = <<NameAt(m)', k - 1>>
      <4>1. m \in 0 .. count - 1 \/ m = count
        BY <1>1, <2>1
      <4>2. CASE m \in 0 .. count - 1
        BY <1>1, <2>5, <2>6, <4>2 DEF StoreInv
      <4>3. CASE m = count
        <5>1. NameAt(m)' = v /\ Start(m)' = Start(count)
          BY <2>5, <2>7, <4>3
        <5>2. QED
          BY <1>1, <2>4, <5>1
      <4>4. QED
        BY <4>1, <4>2, <4>3
    <3>2. count' \in 0 .. MaxVectors
      BY <1>1, <2>1, MaxVectorsAssumption
    <3>3. Len(vectors') = Start(count)'
      BY <1>1, <2>1, <2>4, <2>5 DEF Start
    <3>4. QED
      BY <1>1, <2>4, <3>1, <3>2, <3>3 DEF StoreInv
  <2>9. Names' = Append(Names, v)
    <3>1. Names' = [m \in 1 .. count + 1 |-> NameAt(m - 1)']
      BY <2>1 DEF Names
    <3>2. ASSUME NEW m \in 1 .. count + 1
          PROVE  NameAt(m - 1)' = IF m = count + 1 THEN v ELSE NameAt(m - 1)
      <4>1. CASE m = count + 1
        BY <1>1, <2>7, <4>1
      <4>2. CASE m # count + 1
        <5>1. m - 1 \in 0 .. count - 1
          BY <1>1, <4>2
        <5>2. QED
          BY <2>6, <4>2, <5>1
      <4>3. QED
        BY <4>1, <4>2
    <3>3. /\ Names \in Seq(Vec) /\ Len(Names) = count
          /\ \A m \in 1 .. count : Names[m] = NameAt(m - 1)
      BY <1>1 DEF Names, StoreInv
    <3>4. Append(Names, v) =
            [m \in 1 .. count + 1 |-> IF m = count + 1 THEN v ELSE Names[m]]
      BY <3>3, Appended
    <3>5. \A m \in 1 .. count + 1 : m # count + 1 => Names[m] = NameAt(m - 1)
      BY <1>1, <3>3
    <3>6. QED
      BY <3>1, <3>2, <3>4, <3>5
  <2>10. QED
    BY <2>8, <2>9
<1>4. QED
  BY <1>2, <1>3

(* The copy and the cut take the removed vector out whole and put the last *)
(* one, whole, in its place.                                               *)
LEMMA SwapRemoveStep ==
  ASSUME StoreInv, NEW index \in Nat, SwapRemove(index)
  PROVE  /\ StoreInv' /\ index \in 0 .. count - 1 /\ count' = count - 1
         /\ \A m \in 0 .. count - 2 :
              NameAt(m)' = IF m = index THEN NameAt(count - 1) ELSE NameAt(m)
<1> DEFINE moved == Moved(count - 1, index)
           from  == Start(count - 1)
           to    == Start(index)
<1>1. /\ count \in Nat \ {0} /\ dimension \in Nat \ {0} /\ index < count
      /\ dimension' = dimension /\ count' = count - 1
      /\ vectors' = SubSeq(moved, 1, from)
  BY DimensionsAssumption, MaxVectorsAssumption DEF StoreInv, SwapRemove
<1>2. index \in 0 .. count - 1 /\ count - 1 \in 0 .. count - 1
  BY <1>1
<1>3. /\ from \in Nat /\ to \in Nat /\ Len(vectors) \in Nat
      /\ Len(vectors) = from + dimension /\ to + dimension <= Len(vectors)
  <2>1. Start(count) = from + dimension
    BY <1>1 DEF Start
  <2>2. /\ Start(index) \in Nat /\ Start(index) + dimension <= Len(vectors)
        /\ Start(count - 1) \in Nat
    BY <1>2, InArray, Zenon
  <2>3. Len(vectors) = Start(count) /\ Len(vectors) \in Nat
    BY DEF StoreInv
  <2>4. QED
    BY <2>1, <2>2, <2>3
<1>4. vectors \in Seq(Vec \X Nat) /\ vectors \in [1 .. Len(vectors) -> Vec \X Nat]
  BY DEF StoreInv
<1> HIDE DEF from, to
<1>5. moved = [p \in 1 .. Len(vectors) |->
                 IF p \in to + 1 .. to + dimension THEN vectors[p - to + from] ELSE vectors[p]]
  BY <1>4 DEF Moved, from, to
<1>6. moved \in Seq(Vec \X Nat) /\ Len(moved) = Len(vectors)
  <2>1. \A p \in to + 1 .. to + dimension : p - to + from \in 1 .. Len(vectors)
    BY <1>1, <1>3
  <2>2. moved \in [1 .. Len(vectors) -> Vec \X Nat]
    BY <1>4, <1>5, <2>1
  <2>3. QED
    BY <1>3, <2>2
<1>7. /\ vectors' \in Seq(Vec \X Nat) /\ Len(vectors') = from
      /\ \A p \in 1 .. from : vectors'[p] = moved[p]
  <2> HIDE DEF moved
  <2>1. QED
    BY <1>1, <1>3, <1>6
<1> HIDE DEF moved
<1>8. \A p \in 1 .. from :
        vectors'[p] = IF p \in to + 1 .. to + dimension THEN vectors[p - to + from]
                                                        ELSE vectors[p]
  <2> TAKE p \in 1 .. from
  <2>1. p \in 1 .. Len(vectors)
    BY <1>1, <1>3
  <2>2. QED
    BY <1>5, <1>7, <2>1
<1>9. \A m : Start(m)' = Start(m)
  BY <1>1 DEF Start
<1>10. ASSUME NEW m \in 0 .. count - 2
       PROVE  /\ NameAt(m)' = IF m = index THEN NameAt(count - 1) ELSE NameAt(m)
              /\ \A k \in 1 .. dimension : vectors'[Start(m) + k] = <<NameAt(m)', k - 1>>
  <2>1. m \in 0 .. count - 1 /\ m < count - 1 /\ m \in Nat /\ count - 1 \in Nat
    BY <1>1
  <2>2. Start(m) \in Nat /\ Start(m) + dimension <= from
    BY <1>1, <2>1, Apart DEF Start, from
  <2>3. CASE m = index
    <3>1. \A k \in 1 .. dimension : vectors'[Start(m) + k] = vectors[from + k]
      <4> TAKE k \in 1 .. dimension
      <4>1. Start(m) = to
        BY <2>3 DEF to
      <4>2. to + k \in 1 .. from /\ to + k \in to + 1 .. to + dimension
        BY <1>1, <1>3, <2>2, <4>1
      <4>3. (to + k) - to + from = from + k
        BY <1>1, <1>3
      <4>4. QED
        BY <1>8, <4>1, <4>2, <4>3
    <3>2. \A k \in 1 .. dimension : vectors[from + k] = <<NameAt(count - 1), k - 1>>
      BY <1>2 DEF StoreInv, from
    <3>3. NameAt(m)' = NameAt(count - 1)
      <4>1. NameAt(m)' = vectors'[Start(m) + 1][1]
        BY <1>9 DEF NameAt
      <4>2. QED
        <5>1. vectors'[Start(m) + 1] = vectors[from + 1]
          <6>1. 1 \in 1 .. dimension
            BY <1>1
          <6>2. QED
            BY <3>1, <6>1
        <5>2. NameAt(count - 1) = vectors[from + 1][1]
          BY DEF NameAt, from
        <5>3. QED
          BY <4>1, <5>1, <5>2
    <3>4. QED
      BY <2>3, <3>1, <3>2, <3>3
  <2>4. CASE m # index
    <3>1. Start(m) + dimension <= to \/ to + dimension <= Start(m)
      BY <1>1, <1>2, <2>1, <2>4, Apart DEF Start, to
    <3>2. \A k \in 1 .. dimension : vectors'[Start(m) + k] = vectors[Start(m) + k]
      BY <1>1, <1>3, <1>8, <2>2, <3>1
    <3>3. NameAt(m)' = NameAt(m)
      <4>1. NameAt(m)' = vectors'[Start(m) + 1][1]
        BY <1>9 DEF NameAt
      <4>2. QED
        <5>1. vectors'[Start(m) + 1] = vectors[Start(m) + 1]
          <6>1. 1 \in 1 .. dimension
            BY <1>1
          <6>2. QED
            BY <3>2, <6>1
        <5>2. NameAt(m) = vectors[Start(m) + 1][1]
          BY DEF NameAt
        <5>3. QED
          BY <4>1, <5>1, <5>2
    <3>4. QED
      BY <2>1, <2>4, <3>2, <3>3 DEF StoreInv
  <2>5. QED
    BY <2>3, <2>4
<1>11. StoreInv'
  <2>1. \A m \in 0 .. count' - 1 : m \in 0 .. count - 2
    BY <1>1
  <2>2. \A m \in 0 .. count - 2 : NameAt(m)' \in Vec
    <3>1. NameAt(count - 1) \in Vec /\ \A m \in 0 .. count - 2 : NameAt(m) \in Vec
      BY <1>1, <1>2 DEF StoreInv
    <3>2. QED
      BY <1>10, <3>1
  <2>3. count' \in 0 .. MaxVectors /\ Len(vectors') = Start(count)'
    <3>1. Start(count)' = from
      BY <1>1 DEF Start, from
    <3>2. QED
      BY <1>1, <1>7, <3>1, MaxVectorsAssumption DEF StoreInv
  <2>4. QED
    BY <1>1, <1>7, <1>9, <1>10, <2>1, <2>2, <2>3 DEF StoreInv
<1>12. QED
  BY <1>1, <1>2, <1>10, <1>11

(* On the list that is what VectorList's SwapRemove does.                  *)
LEMMA SwapRemoveNames ==
  ASSUME StoreInv, NEW index \in Nat, SwapRemove(index)
  PROVE  /\ index + 1 \in 1 .. Len(Names)
         /\ Names' = Front([Names EXCEPT ![index + 1] = Names[Len(Names)]])
<1> DEFINE S == {NameAt(m) : m \in 0 .. count - 1}
           full == [Names EXCEPT ![index + 1] = Names[Len(Names)]]
<1>1. /\ index \in 0 .. count - 1 /\ count' = count - 1 /\ count \in Nat \ {0}
      /\ \A m \in 0 .. count - 2 :
           NameAt(m)' = IF m = index THEN NameAt(count - 1) ELSE NameAt(m)
  <2>1. count \in Nat
    BY MaxVectorsAssumption DEF StoreInv
  <2>2. QED
    BY <2>1, SwapRemoveStep
<1>2. /\ Names \in Seq(S) /\ Len(Names) = count
      /\ \A n \in 1 .. count : Names[n] = NameAt(n - 1)
  BY <1>1 DEF Names
<1>3. /\ full \in Seq(S) /\ Len(full) = count
      /\ \A n \in 1 .. count : full[n] = IF n = index + 1 THEN NameAt(count - 1) ELSE NameAt(n - 1)
  BY <1>1, <1>2
<1> HIDE DEF full, S
<1>4. /\ Front(full) \in Seq(S) /\ Len(Front(full)) = count - 1
      /\ \A n \in 1 .. count - 1 : Front(full)[n] = full[n]
  BY <1>1, <1>3 DEF Front
<1>5. Names' = [n \in 1 .. count - 1 |-> NameAt(n - 1)']
  BY <1>1 DEF Names
<1>6. \A n \in 1 .. count - 1 : NameAt(n - 1)' = full[n]
  BY <1>1, <1>3
<1>7. Names' = Front(full)
  BY <1>4, <1>5, <1>6
<1>8. QED
  BY <1>1, <1>2, <1>7 DEF full

(* A clear leaves the empty list.                                          *)
LEMMA ClearStep ==
  ASSUME StoreInv, Clear
  PROVE  StoreInv' /\ Names' = << >>
<1>1. vectors' = << >> /\ count' = 0 /\ dimension' = dimension
  BY DEF Clear
<1>2. dimension \in Nat /\ Start(count)' = 0
  BY <1>1, DimensionsAssumption DEF StoreInv, Start
<1>3. QED
  BY <1>1, <1>2, MaxVectorsAssumption DEF StoreInv, Names

(* Nothing of this depends on the kernels.                                 *)
LEMMA StoreStutter ==
  ASSUME StoreInv, UNCHANGED storeVars
  PROVE  StoreInv' /\ Names' = Names
BY DEF StoreInv, Names, NameAt, Start, storeVars

-----------------------------------------------------------------------------
(* The invariant of the kernels and the store together.  The slice that a  *)
(* kernel reads is a whole vector from the moment it is called, also when  *)
(* the store has changed since.                                            *)
SliceInv ==
  pc # "idle" => /\ b_len = dimension
                 /\ \E v \in Vec : slice = Slice(v, dimension)

ScoringInv ==
  /\ StoreInv
  /\ KernelInv
  /\ host \in Hosts
  /\ i <= a_len
  /\ SliceInv
  /\ slice \in Seq(Vec \X Nat)

(* The invariant holds before the first call.                              *)
LEMMA ScoringStart == ScoringInit => ScoringInv
<1> SUFFICES ASSUME ScoringInit PROVE ScoringInv
  OBVIOUS
<1>1. New /\ Init /\ slice = << >> /\ KernelInv
  BY KernelInit DEF ScoringInit
<1>2. StoreInv
  BY <1>1, DimensionsAssumption, MaxVectorsAssumption DEF New, StoreInv, Start
<1>3. QED
  BY <1>1, <1>2 DEF ScoringInv, SliceInv, Init

(* A change of the store between two calls.                                *)
LEMMA UpdateStep ==
  ASSUME ScoringInv, StoreInv', dimension' = dimension, UNCHANGED <<vars, slice>>
  PROVE  ScoringInv'
<1>1. KernelInv'
  BY KernelStutter DEF ScoringInv
<1>2. pc' = pc /\ i' = i /\ a_len' = a_len /\ b_len' = b_len /\ host' = host /\ slice' = slice
  BY DEF vars, kernelVars
<1>3. SliceInv'
  BY <1>2 DEF ScoringInv, SliceInv, Slice
<1>4. QED
  BY <1>1, <1>2, <1>3 DEF ScoringInv

(* A call gets the query and one vector of the store.                      *)
LEMMA ScoreStep ==
  ASSUME ScoringInv, NEW metric \in Metric, NEW index \in Nat, NEW qlen \in Nat,
         Score(metric, index, qlen)
  PROVE  ScoringInv'
<1>1. /\ index < count /\ Compute(compute(metric), qlen, dimension)
      /\ slice' = Get(index) /\ UNCHANGED storeVars
  BY DEF Score
<1>2. dimension \in Nat \ {0} /\ compute(metric) \in Fns
  BY DimensionsAssumption DEF ScoringInv, StoreInv, compute, Metric, Fns
<1>3. KernelInv'
  BY <1>1, <1>2, KernelCompute DEF ScoringInv
<1>4. StoreInv'
  BY <1>1, StoreStutter DEF ScoringInv
<1>5. index \in 0 .. count - 1
  BY <1>1, MaxVectorsAssumption DEF ScoringInv, StoreInv
<1>6. NameAt(index) \in Vec /\ slice' = Slice(NameAt(index), dimension)
  BY <1>1, <1>5, GetWhole DEF ScoringInv
<1>7. slice' \in Seq(Vec \X Nat)
  <2>1. \A k \in 1 .. dimension : <<NameAt(index), k - 1>> \in Vec \X Nat
    BY <1>2, <1>6
  <2>2. QED
    BY <1>2, <1>6, <2>1 DEF Slice
<1>8. i' = 0 /\ a_len' = qlen /\ b_len' = dimension /\ host' = host /\ dimension' = dimension
  BY <1>1 DEF Compute, storeVars
<1>9. SliceInv'
  BY <1>6, <1>8 DEF SliceInv, Slice
<1>10. QED
  BY <1>3, <1>4, <1>7, <1>8, <1>9 DEF ScoringInv

(* A step of the kernel reads the slice as it is.                          *)
LEMMA WorkStep ==
  ASSUME ScoringInv, Step, UNCHANGED <<storeVars, slice>>
  PROVE  ScoringInv'
<1>1. KernelInv'
  BY KernelStep DEF ScoringInv
<1>2. StoreInv'
  BY StoreStutter DEF ScoringInv
<1>3. /\ b_len' = b_len /\ a_len' = a_len /\ host' = host /\ pc # "idle"
      /\ dimension' = dimension
  BY DEF Step, Enter, UnrolledLoop, LanesLoop, Reduce, ScalarLoop, Return, storeVars
<1>4. pc' \in {"vector", "tail", "done"} \/ (pc' = "panicked" /\ i' = i)
  BY DEF Step, Enter, UnrolledLoop, LanesLoop, Reduce, ScalarLoop, Return
<1>5. i' <= a_len'
  BY <1>1, <1>3, <1>4 DEF KernelInv, ScoringInv
<1>6. SliceInv'
  BY <1>3 DEF ScoringInv, SliceInv, Slice
<1>7. QED
  BY <1>1, <1>2, <1>3, <1>5, <1>6 DEF ScoringInv

(* Every step keeps the invariant.                                         *)
LEMMA ScoringStep ==
  ASSUME ScoringInv, [ScoringNext]_scoringVars
  PROVE  ScoringInv'
<1>0. StoreInv
  BY DEF ScoringInv
<1>1. CASE \E v \in Vec, n \in Lengths : Update(Insert(v, n))
  <2>1. PICK v \in Vec, n \in Lengths : Insert(v, n) /\ UNCHANGED <<vars, slice>>
    BY <1>1 DEF Update
  <2>2. StoreInv' /\ dimension' = dimension
    BY <1>0, <2>1, InsertStep, LengthsAssumption DEF Insert
  <2> QED
    BY <2>1, <2>2, UpdateStep
<1>2. CASE \E index \in 0 .. MaxVectors - 1 : Update(SwapRemove(index))
  <2>1. PICK index \in 0 .. MaxVectors - 1 : SwapRemove(index) /\ UNCHANGED <<vars, slice>>
    BY <1>2 DEF Update
  <2>2. StoreInv' /\ dimension' = dimension
    <3>1. index \in Nat
      BY MaxVectorsAssumption
    <3>2. StoreInv'
      BY <1>0, <2>1, <3>1, SwapRemoveStep
    <3>3. QED
      BY <2>1, <3>2 DEF SwapRemove
  <2> QED
    BY <2>1, <2>2, UpdateStep
<1>3. CASE Update(Clear)
  <2>1. StoreInv' /\ dimension' = dimension /\ UNCHANGED <<vars, slice>>
    BY <1>0, <1>3, ClearStep DEF Update, Clear
  <2> QED
    BY <2>1, UpdateStep
<1>4. CASE \E metric \in Metric, index \in 0 .. MaxVectors - 1, qlen \in Lengths :
             Score(metric, index, qlen)
  BY <1>4, ScoreStep, LengthsAssumption
<1>5. CASE Step /\ UNCHANGED <<storeVars, slice>>
  BY <1>5, WorkStep
<1>6. CASE UNCHANGED scoringVars
  <2>1. StoreInv' /\ dimension' = dimension /\ UNCHANGED <<vars, slice>>
    BY <1>0, <1>6, StoreStutter DEF scoringVars, storeVars
  <2> QED
    BY <2>1, UpdateStep
<1> QED
  BY <1>1, <1>2, <1>3, <1>4, <1>5, <1>6 DEF ScoringNext

(* It holds throughout.                                                    *)
LEMMA ScoringInvariant == ScoringSpec => []ScoringInv
  BY ScoringStart, ScoringStep, PTL DEF ScoringSpec

-----------------------------------------------------------------------------
(* Every variable of a search has its type; in particular the array is one *)
(* of elements of inserted vectors.                                        *)
THEOREM ScoringTypeCorrect == ScoringSpec => []TypeOK
<1>1. ScoringInv => TypeOK
  BY DEF ScoringInv, StoreInv, KernelInv, TypeInv, TypeOK
<1> QED
  BY <1>1, ScoringInvariant, PTL

(* A search reads no element outside its query or outside the vector it    *)
(* scores, whatever the query's length (brute.rs:60-84, mcp/mod.rs:251).   *)
THEOREM ScoringInBounds == ScoringSpec => []InBounds
<1>1. ScoringInv => InBounds
  BY KernelInvImplies DEF ScoringInv
<1> QED
  BY <1>1, ScoringInvariant, PTL

(* A distance that a search uses has counted every coordinate once.        *)
THEOREM ScoringCountsOnce == ScoringSpec => []CountedOnce
<1>1. ScoringInv => CountedOnce
  BY KernelInvImplies DEF ScoringInv
<1> QED
  BY <1>1, ScoringInvariant, PTL

(* The terms of a finished kernel's first sum pair coordinate k of the     *)
(* query with element k of the slice, for each k below the dimension.      *)
LEMMA FirstSum ==
  ASSUME ScoringInv, pc = "done"
  PROVE  /\ Cardinality(DOMAIN sum[1]) = dimension
         /\ \A t \in DOMAIN sum[1] : t[2][2] \in 0 .. dimension - 1 /\ t[3][2] = t[2][2]
<1> DEFINE first == scalar(fn).terms[1]
           K     == 0 .. dimension - 1
           T     == {Term(first, k) : k \in K}
           f     == [k \in K |-> Term(first, k)]
<1>1. /\ TypeInv /\ a_len = dimension /\ dimension \in Nat
      /\ CountedOnce
  BY KernelInvImplies, DimensionsAssumption DEF ScoringInv, SliceInv, KernelInv, StoreInv
<1>2. 1 \in DOMAIN scalar(fn).terms
  BY <1>1 DEF TypeInv, Fns, scalar, DotTerms, EuclideanTerms, CosineTerms
<1>3. DOMAIN sum[1] = T
  <2>1. sum[1] = Once(first, K)
    BY <1>1, <1>2 DEF CountedOnce
  <2>2. QED
    BY <2>1 DEF Once, SetToBag
<1>4. \A k : Term(first, k)[2][2] = k /\ Term(first, k)[3][2] = k
  BY DEF Term
<1>5. f \in Surjection(K, T) /\ f \in Injection(K, T)
  BY <1>4 DEF Surjection, Injection, IsInjective
<1>6. IsFiniteSet(K) /\ Cardinality(K) = dimension
  BY <1>1, FS_Interval
<1> HIDE DEF f, K, T
<1>7. Cardinality(T) = dimension
  BY <1>5, <1>6, FS_Surjection
<1>8. QED
  BY <1>3, <1>4, <1>7 DEF T, K

(* Whatever was inserted and removed before, a distance is of the query    *)
(* and one vector, whole; a query of another length is never scored        *)
(* (brute.rs:60-84, store/mod.rs:68-97).                                   *)
THEOREM ScoresAreOfOneVector == ScoringSpec => []ScoresOneVector
<1>1. ScoringInv => ScoresOneVector
  <2> SUFFICES ASSUME ScoringInv, pc = "done"
               PROVE  /\ Cardinality(DOMAIN sum[1]) = dimension
                      /\ \E v \in Vec : \A t \in DOMAIN sum[1] :
                           /\ t[2][2] = t[3][2]
                           /\ slice[t[3][2] + 1] = <<v, t[2][2]>>
    BY DEF ScoresOneVector
  <2>1. PICK v \in Vec : slice = Slice(v, dimension)
    BY DEF ScoringInv, SliceInv
  <2>2. dimension \in Nat
    BY DimensionsAssumption DEF ScoringInv, StoreInv
  <2>3. \A k \in 0 .. dimension - 1 : slice[k + 1] = <<v, k>>
    BY <2>1, <2>2 DEF Slice
  <2>4. QED
    BY <2>3, FirstSum
<1>2. QED
  BY <1>1, ScoringInvariant, PTL

-----------------------------------------------------------------------------
(* The flat array implements the list of whole vectors that Collection     *)
(* works on: no vector is ever torn or shifted (store/mod.rs:51-91).       *)
THEOREM StoreImplementsList == ScoringSpec => ImplementsVectorList
<1>1. ScoringInit => L!Init
  <2> SUFFICES ASSUME ScoringInit PROVE L!Init
    OBVIOUS
  <2>1. StoreInv /\ count = 0
    BY ScoringStart DEF ScoringInv, ScoringInit, New
  <2>2. QED
    BY <2>1, ChunksAreNames DEF L!Init, Names
<1>2. ScoringInv /\ [ScoringNext]_scoringVars => [L!Next]_listBar
  <2> SUFFICES ASSUME ScoringInv, [ScoringNext]_scoringVars PROVE [L!Next]_listBar
    OBVIOUS
  <2>1. StoreInv /\ listBar = Names /\ listBar' = Names'
    <3>1. StoreInv /\ StoreInv'
      BY ScoringStep DEF ScoringInv
    <3>2. (StoreInv => listBar = Names)'
      BY ChunksAreNames, PTL
    <3>3. QED
      BY <3>1, <3>2, ChunksAreNames
  <2>2. CASE \E v \in Vec, n \in Lengths : Update(Insert(v, n))
    <3>1. PICK v \in Vec, n \in Lengths : Insert(v, n)
      BY <2>2 DEF Update
    <3>2. listBar' = listBar \/ listBar' = Append(listBar, v)
      BY <2>1, <3>1, InsertStep, LengthsAssumption
    <3>3. QED
      BY <3>2 DEF L!Next, L!Insert
  <2>3. CASE \E index \in 0 .. MaxVectors - 1 : Update(SwapRemove(index))
    <3>1. PICK index \in 0 .. MaxVectors - 1 : SwapRemove(index)
      BY <2>3 DEF Update
    <3>2. /\ index + 1 \in 1 .. Len(listBar)
          /\ listBar' = Front([listBar EXCEPT ![index + 1] = listBar[Len(listBar)]])
      <4>1. index \in Nat
        BY MaxVectorsAssumption
      <4>2. QED
        BY <2>1, <3>1, <4>1, SwapRemoveNames
    <3>3. L!SwapRemove(index + 1)
      BY <3>2 DEF L!SwapRemove, L!Front, Front
    <3>4. QED
      BY <3>2, <3>3 DEF L!Next
  <2>4. CASE Update(Clear)
    BY <2>1, <2>4, ClearStep DEF Update, L!Next, L!Clear
  <2>5. CASE UNCHANGED storeVars
    BY <2>1, <2>5, StoreStutter
  <2>6. QED
    BY <2>2, <2>3, <2>4, <2>5 DEF ScoringNext, Score, scoringVars
<1>3. QED
  BY <1>1, <1>2, ScoringInvariant, PTL DEF ImplementsVectorList, ScoringSpec, L!Spec
=============================================================================
