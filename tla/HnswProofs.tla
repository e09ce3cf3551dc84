----------------------------- MODULE HnswProofs -----------------------------
(***************************************************************************)
(* Proofs about Hnsw for every corpus, every metric, every way to draw the *)
(* levels and every choice of the parameters.                              *)
(***************************************************************************)
EXTENDS Hnsw, SearchLemmas

-----------------------------------------------------------------------------
(* Lists of neighbours.                                                    *)
Distinct(s) == \A i, j \in 1 .. Len(s) : s[i] = s[j] => i = j

(* A list without repetition is as long as its set of elements is large.   *)
LEMMA RangeOf ==
  ASSUME NEW S, NEW s \in Seq(S)
  PROVE  /\ Range(s) \in SUBSET S
         /\ IsFiniteSet(Range(s))
         /\ \A i \in 1 .. Len(s) : s[i] \in Range(s)
         /\ \A x \in Range(s) : \E i \in 1 .. Len(s) : x = s[i]
         /\ Distinct(s) <=> Cardinality(Range(s)) = Len(s)
<1>1. /\ Len(s) \in Nat /\ DOMAIN s = 1 .. Len(s)
      /\ s \in [1 .. Len(s) -> S]
  OBVIOUS
<1>2. Range(s) = {s[i] : i \in 1 .. Len(s)}
  BY <1>1 DEF Range
<1>3. s \in Surjection(1 .. Len(s), Range(s))
  BY <1>1, <1>2 DEF Surjection
<1>4. IsFiniteSet(1 .. Len(s)) /\ Cardinality(1 .. Len(s)) = Len(s)
  <2>1. 1 \in Int /\ Len(s) \in Int
    BY <1>1
  <2>2. QED
    BY <2>1, <1>1, FS_Interval
<1>5. /\ IsFiniteSet(Range(s))
      /\ Cardinality(Range(s)) = Len(s) <=> s \in Injection(1 .. Len(s), Range(s))
  BY <1>3, <1>4, FS_Surjection
<1>6. s \in Injection(1 .. Len(s), Range(s)) <=> Distinct(s)
  BY <1>3 DEF Injection, IsInjective, Surjection, Distinct
<1>7. QED
  BY <1>1, <1>2, <1>5, <1>6

(* Append, element by element.                                             *)
LEMMA Appended ==
  ASSUME NEW S, NEW s \in Seq(S), NEW e \in S
  PROVE  /\ Append(s, e) \in Seq(S) /\ Len(Append(s, e)) = Len(s) + 1 /\ Len(s) \in Nat
         /\ \A i \in 1 .. Len(s) : Append(s, e)[i] = s[i]
         /\ Append(s, e)[Len(s) + 1] = e
         /\ Range(Append(s, e)) = Range(s) \cup {e}
<1>1. /\ Append(s, e) \in Seq(S) /\ Len(Append(s, e)) = Len(s) + 1 /\ Len(s) \in Nat
      /\ \A i \in 1 .. Len(s) : Append(s, e)[i] = s[i]
      /\ Append(s, e)[Len(s) + 1] = e
  OBVIOUS
<1>2. Range(s) = {s[i] : i \in 1 .. Len(s)}
  BY DEF Range
<1>3. Range(Append(s, e)) = {Append(s, e)[i] : i \in 1 .. Len(s) + 1}
  BY <1>1 DEF Range
<1>4. \A x : x \in Range(Append(s, e)) <=> x \in Range(s) \cup {e}
  <2> DEFINE a == Append(s, e)
  <2> HIDE DEF a
  <2>1. \A x : x \in {a[i] : i \in 1 .. Len(s) + 1} <=> x \in {s[i] : i \in 1 .. Len(s)} \cup {e}
    BY <1>1 DEF a
  <2>2. QED
    BY <1>2, <1>3, <2>1 DEF a
<1>5. QED
  BY <1>1, <1>4

(* A list without repetition stays so when what joins it is new to it.     *)
LEMMA AppendDistinct ==
  ASSUME NEW S, NEW s \in Seq(S), NEW e \in S, Distinct(s), e \notin Range(s)
  PROVE  Distinct(Append(s, e))
<1>1. \A i \in 1 .. Len(s) : s[i] # e
  BY RangeOf
<1>2. /\ Len(Append(s, e)) = Len(s) + 1 /\ Len(s) \in Nat
      /\ \A i \in 1 .. Len(s) : Append(s, e)[i] = s[i]
      /\ Append(s, e)[Len(s) + 1] = e
  BY Appended
<1> DEFINE a == Append(s, e)
<1> HIDE DEF a
<1>3. ASSUME NEW i \in 1 .. Len(s) + 1, NEW j \in 1 .. Len(s) + 1, a[i] = a[j]
      PROVE  i = j
  <2>1. /\ \A p \in 1 .. Len(s) : a[p] = s[p]
        /\ a[Len(s) + 1] = e
    BY <1>2 DEF a
  <2>2. CASE i \in 1 .. Len(s) /\ j \in 1 .. Len(s)
    BY <1>3, <2>1, <2>2 DEF Distinct
  <2>3. CASE i \in 1 .. Len(s) /\ j = Len(s) + 1
    BY <1>1, <1>3, <2>1, <2>3
  <2>4. CASE i = Len(s) + 1 /\ j \in 1 .. Len(s)
    BY <1>1, <1>3, <2>1, <2>4
  <2>5. QED
    BY <1>2, <2>2, <2>3, <2>4
<1>4. QED
  BY <1>2, <1>3 DEF Distinct, a

-----------------------------------------------------------------------------
(* The order of nodes by distance, then id.                                *)
Stored == points \in Seq(Point)

(* It is a strict total order.                                             *)
LEMMA CloserOrder ==
  ASSUME Stored, NEW q \in Point,
         NEW a \in DOMAIN points, NEW b \in DOMAIN points, NEW c \in DOMAIN points
  PROVE  /\ To(q, a) \in Nat
         /\ a \in Nat \ {0}
         /\ ~Closer(q, a, a)
         /\ Closer(q, a, b) => ~Closer(q, b, a) /\ To(q, a) <= To(q, b)
         /\ Closer(q, a, b) /\ Closer(q, b, c) => Closer(q, a, c)
         /\ a = b \/ Closer(q, a, b) \/ Closer(q, b, a)
<1>1. \A n \in DOMAIN points : n \in Nat \ {0} /\ points[n] \in Point
  BY DEF Stored
<1>2. \A n \in DOMAIN points : To(q, n) \in Nat
  BY <1>1, DistAssumption DEF To
<1>3. QED
  BY <1>1, <1>2 DEF Closer

(* How many nodes of a set are closer than a node tells the node.          *)
Rank(q, S, n) == Cardinality({o \in S : Closer(q, o, n)})

(* Ranks number the nodes of a set from 0, in their order.                 *)
LEMMA RankOrder ==
  ASSUME Stored, NEW q \in Point, NEW S \in SUBSET (DOMAIN points), IsFiniteSet(S)
  PROVE  /\ Cardinality(S) \in Nat
         /\ \A n \in S : Rank(q, S, n) \in 0 .. Cardinality(S) - 1
         /\ \A a, b \in S : Closer(q, a, b) <=> Rank(q, S, a) < Rank(q, S, b)
         /\ \A a, b \in S : Rank(q, S, a) = Rank(q, S, b) => a = b
         /\ \A i \in 0 .. Cardinality(S) - 1 : \E n \in S : Rank(q, S, n) = i
<1> DEFINE C(n) == {o \in S : Closer(q, o, n)}
<1>1. Cardinality(S) \in Nat
  BY FS_CardinalityType
<1>2. \A n \in S : IsFiniteSet(C(n)) /\ Cardinality(C(n)) \in Nat
  <2> TAKE n \in S
  <2>1. C(n) \in SUBSET S
    OBVIOUS
  <2> HIDE DEF C
  <2>2. IsFiniteSet(C(n))
    BY <2>1, FS_Subset
  <2>3. QED
    BY <2>2, FS_CardinalityType
<1>3. ASSUME NEW a \in S, NEW b \in S, Closer(q, a, b)
      PROVE  Cardinality(C(a)) < Cardinality(C(b))
  <2>1. C(a) \subseteq C(b)
    BY <1>3, CloserOrder
  <2>2. a \in C(b) /\ a \notin C(a)
    BY <1>3, CloserOrder
  <2> HIDE DEF C
  <2>3. Cardinality(C(a)) <= Cardinality(C(b)) /\ Cardinality(C(a)) # Cardinality(C(b))
    BY <1>2, <2>1, <2>2, FS_Subset
  <2>4. QED
    BY <1>2, <2>3
<1>4. \A n \in S : Cardinality(C(n)) < Cardinality(S)
  <2> TAKE n \in S
  <2>1. C(n) \in SUBSET S /\ n \in S /\ n \notin C(n)
    BY CloserOrder
  <2> HIDE DEF C
  <2>2. Cardinality(C(n)) <= Cardinality(S) /\ Cardinality(C(n)) # Cardinality(S)
    BY <2>1, FS_Subset
  <2>3. QED
    BY <1>1, <1>2, <2>2
<1>5. \A n : Rank(q, S, n) = Cardinality(C(n))
  BY DEF Rank
<1> HIDE DEF C
<1>6. \A n \in S : Rank(q, S, n) \in Nat /\ Rank(q, S, n) < Cardinality(S)
  BY <1>2, <1>4, <1>5
<1>7. \A a, b \in S : Closer(q, a, b) => Rank(q, S, a) < Rank(q, S, b)
  BY <1>3, <1>5
<1>8. \A a, b \in S : a = b \/ Closer(q, a, b) \/ Closer(q, b, a)
  BY CloserOrder
<1>9. \A a, b \in S : Rank(q, S, a) = Rank(q, S, b) => a = b
  BY <1>6, <1>7, <1>8
<1>10. \A a, b \in S : Closer(q, a, b) <=> Rank(q, S, a) < Rank(q, S, b)
  <2> TAKE a, b \in S
  <2>1. CASE Closer(q, a, b)
    BY <1>7, <2>1
  <2>2. CASE a = b
    BY <1>6, <2>2, CloserOrder
  <2>3. CASE Closer(q, b, a)
    BY <1>6, <1>7, <2>3, CloserOrder
  <2>4. QED
    BY <1>8, <2>1, <2>2, <2>3
<1>11. \A i \in 0 .. Cardinality(S) - 1 : \E n \in S : Rank(q, S, n) = i
  <2> DEFINE f == [n \in S |-> Rank(q, S, n)]
             T == 0 .. Cardinality(S) - 1
  <2>1. f \in Injection(S, T)
    BY <1>1, <1>6, <1>9 DEF Injection, IsInjective
  <2>2. IsFiniteSet(T) /\ Cardinality(T) = Cardinality(S)
    <3>1. 0 \in Int /\ Cardinality(S) - 1 \in Int
      BY <1>1
    <3>2. QED
      BY <1>1, <3>1, FS_Interval
  <2> HIDE DEF f, T
  <2>3. f \in Surjection(S, T)
    BY <2>1, <2>2, FS_Injection
  <2>4. \A i \in T : \E n \in S : f[n] = i
    BY <2>3 DEF Surjection
  <2>5. QED
    BY <2>4 DEF f, T
<1>12. QED
  BY <1>1, <1>6, <1>9, <1>10, <1>11

(* Ascending lists the nodes of a set, each once, the closest first.       *)
LEMMA AscendingList ==
  ASSUME Stored, NEW q \in Point, NEW S \in SUBSET (DOMAIN points), IsFiniteSet(S)
  PROVE  /\ Ascending(q, S) \in Seq(S) /\ Len(Ascending(q, S)) = Cardinality(S)
         /\ Cardinality(S) \in Nat
         /\ Range(Ascending(q, S)) = S
         /\ Distinct(Ascending(q, S))
         /\ \A i, j \in 1 .. Cardinality(S) :
              i < j => Closer(q, Ascending(q, S)[i], Ascending(q, S)[j])
<1> DEFINE N == Cardinality(S)
           a == Ascending(q, S)
<1>1. N \in Nat
  BY RankOrder
<1>2. a = [i \in 1 .. N |-> CHOOSE n \in S : Rank(q, S, n) = i - 1]
  BY DEF Ascending, Rank
<1>3. ASSUME NEW i \in 1 .. N
      PROVE  a[i] \in S /\ Rank(q, S, a[i]) = i - 1
  <2>1. i - 1 \in 0 .. N - 1
    BY <1>1
  <2>2. \E n \in S : Rank(q, S, n) = i - 1
    BY <2>1, RankOrder
  <2>3. QED
    BY <1>2, <2>2
<1> HIDE DEF a
<1>4. DOMAIN a = 1 .. N
  BY <1>2
<1>5. a \in Seq(S) /\ Len(a) = N
  <2>1. a \in [1 .. N -> S]
    BY <1>2, <1>3
  <2>2. QED
    BY <1>1, <2>1
<1>6. Distinct(a)
  BY <1>1, <1>3, <1>5 DEF Distinct
<1>7. \A i, j \in 1 .. N : i < j => Closer(q, a[i], a[j])
  <2> SUFFICES ASSUME NEW i \in 1 .. N, NEW j \in 1 .. N, i < j
               PROVE  Closer(q, a[i], a[j])
    OBVIOUS
  <2>1. Rank(q, S, a[i]) < Rank(q, S, a[j]) /\ a[i] \in S /\ a[j] \in S
    BY <1>1, <1>3
  <2>2. QED
    BY <2>1, RankOrder
<1>8. Range(a) = S
  <2>1. Range(a) \in SUBSET S /\ \A i \in 1 .. N : a[i] \in Range(a)
    BY <1>5, RangeOf
  <2>2. ASSUME NEW n \in S PROVE n \in Range(a)
    <3>1. Rank(q, S, n) \in 0 .. N - 1
      BY RankOrder
    <3>2. Rank(q, S, n) + 1 \in 1 .. N /\ (Rank(q, S, n) + 1) - 1 = Rank(q, S, n)
      BY <1>1, <3>1
    <3>3. /\ Rank(q, S, a[Rank(q, S, n) + 1]) = Rank(q, S, n)
          /\ a[Rank(q, S, n) + 1] \in S
      BY <1>3, <3>2
    <3>4. a[Rank(q, S, n) + 1] = n
      BY <3>3, RankOrder
    <3>5. QED
      BY <2>1, <3>2, <3>4
  <2>3. QED
    BY <2>1, <2>2
<1>9. QED
  BY <1>1, <1>5, <1>6, <1>7, <1>8 DEF a

(* The closest and the furthest of a set are in it and are what they say.  *)
LEMMA Extremes ==
  ASSUME Stored, NEW q \in Point, NEW S \in SUBSET (DOMAIN points), IsFiniteSet(S), S # {}
  PROVE  /\ Closest(q, S) \in S
         /\ \A o \in S : To(q, Closest(q, S)) <= To(q, o)
         /\ Furthest(q, S) \in S
         /\ \A o \in S : To(q, o) <= To(q, Furthest(q, S))
<1> DEFINE N == Cardinality(S)
           a == Ascending(q, S)
<1>1. /\ a \in Seq(S) /\ Len(a) = N /\ N \in Nat
      /\ \A i, j \in 1 .. N : i < j => Closer(q, a[i], a[j])
      /\ \A x \in S : \E i \in 1 .. N : x = a[i]
  BY AscendingList, RangeOf
<1> HIDE DEF a
<1>2. N \in Nat \ {0}
  BY <1>1, FS_EmptySet
<1>3. 1 \in 1 .. N /\ N \in 1 .. N /\ a[1] \in S /\ a[N] \in S
  BY <1>1, <1>2
<1> HIDE DEF N
<1>4. \A o \in S \ {a[1]} : Closer(q, a[1], o)
  <2> TAKE o \in S \ {a[1]}
  <2>1. PICK i \in 1 .. N : o = a[i]
    BY <1>1
  <2>2. i # 1
    BY <2>1
  <2>3. 1 < i
    BY <1>1, <2>2
  <2>4. QED
    BY <1>1, <1>3, <2>1, <2>3
<1>5. \A o \in S \ {a[N]} : Closer(q, o, a[N])
  <2> TAKE o \in S \ {a[N]}
  <2>1. PICK i \in 1 .. N : o = a[i]
    BY <1>1
  <2>2. i # N
    BY <2>1
  <2>3. i < N
    BY <1>1, <2>2
  <2>4. QED
    BY <1>1, <1>3, <2>1, <2>3
<1>6. Closest(q, S) \in S /\ \A o \in S \ {Closest(q, S)} : Closer(q, Closest(q, S), o)
  BY <1>3, <1>4 DEF Closest
<1>7. Furthest(q, S) \in S /\ \A o \in S \ {Furthest(q, S)} : Closer(q, o, Furthest(q, S))
  BY <1>3, <1>5 DEF Furthest
<1>8. ASSUME NEW o \in S PROVE To(q, Closest(q, S)) <= To(q, o)
  BY <1>6, CloserOrder
<1>9. ASSUME NEW o \in S PROVE To(q, o) <= To(q, Furthest(q, S))
  BY <1>7, CloserOrder
<1>10. QED
  BY <1>6, <1>7, <1>8, <1>9

-----------------------------------------------------------------------------
(* The beam search of a layer.                                             *)
Placed == Stored /\ node_levels \in Seq(Level) /\ Nodes \subseteq DOMAIN points

(* The nodes are numbered from 1, and every set of them is finite.         *)
LEMMA NodesFinite ==
  ASSUME Placed
  PROVE  /\ Nodes = 1 .. Len(node_levels) /\ Len(node_levels) \in Nat
         /\ IsFiniteSet(Nodes) /\ Nodes \in SUBSET (DOMAIN points)
         /\ \A S \in SUBSET Nodes : /\ IsFiniteSet(S) /\ Cardinality(S) \in Nat
                                    /\ S \in SUBSET (DOMAIN points)
<1>1. Nodes = 1 .. Len(node_levels) /\ Len(node_levels) \in Nat
  BY DEF Nodes, Placed
<1>2. IsFiniteSet(Nodes)
  <2>1. 1 \in Int /\ Len(node_levels) \in Int
    BY <1>1
  <2>2. QED
    BY <2>1, <1>1, FS_Interval
<1>3. Nodes \in SUBSET (DOMAIN points)
  BY DEF Placed
<1>4. ASSUME NEW S \in SUBSET Nodes
      PROVE  IsFiniteSet(S) /\ Cardinality(S) \in Nat /\ S \in SUBSET (DOMAIN points)
  <2>1. IsFiniteSet(S)
    BY <1>2, FS_Subset
  <2>2. QED
    BY <1>3, <2>1, FS_CardinalityType
<1>5. QED
  BY <1>1, <1>2, <1>3, <1>4

Beams == [query : Point, ef : Nat \ {0},
          candidates : SUBSET Nodes, result : SUBSET Nodes, visited : SUBSET Nodes]

(* KeepsBest, of nodes.                                                    *)
BestOf(b) ==
  /\ Cardinality(b.result) <= b.ef
  /\ Cardinality(b.result) < b.ef => b.result = b.visited
  /\ \A kept \in b.result, lost \in b.visited \ b.result :
       To(b.query, kept) <= To(b.query, lost)

SoundBeam(b) ==
  /\ b \in Beams
  /\ b.result # {} /\ b.result \subseteq b.visited /\ b.candidates \subseteq b.visited
  /\ BestOf(b)

(* A sound beam that meets a node is sound, has met that node besides, and *)
(* has no more results that are no candidates.                             *)
LEMMA RelaxStep ==
  ASSUME Placed, NEW b, SoundBeam(b), NEW n \in Nodes
  PROVE  /\ SoundBeam(Relax(b, n))
         /\ Relax(b, n).query = b.query /\ Relax(b, n).ef = b.ef
         /\ Relax(b, n).visited = b.visited \cup {n}
         /\ Relax(b, n).result \ Relax(b, n).candidates \subseteq b.result \ b.candidates
<1> DEFINE r == Relax(b, n)
           q == b.query
           grown == b.result \cup {n}
<1>1. /\ b.query \in Point /\ b.ef \in Nat \ {0}
      /\ b.candidates \in SUBSET Nodes /\ b.result \in SUBSET Nodes /\ b.visited \in SUBSET Nodes
      /\ b.result # {} /\ b.result \subseteq b.visited /\ b.candidates \subseteq b.visited
      /\ Cardinality(b.result) <= b.ef
      /\ Cardinality(b.result) < b.ef => b.result = b.visited
      /\ \A kept \in b.result, lost \in b.visited \ b.result :
           To(b.query, kept) <= To(b.query, lost)
  BY DEF SoundBeam, Beams, BestOf
<1>2. CASE n \in b.visited
  <2>1. r = b /\ b.visited = b.visited \cup {n}
    BY <1>2 DEF Relax
  <2>2. QED
    BY <2>1
<1> SUFFICES ASSUME n \notin b.visited
             PROVE  /\ SoundBeam(r)
                    /\ r.query = b.query /\ r.ef = b.ef
                    /\ r.visited = b.visited \cup {n}
                    /\ r.result \ r.candidates \subseteq b.result \ b.candidates
  BY <1>2
<1>3. \A o \in Nodes : To(q, o) \in Nat /\ o \in DOMAIN points
  BY <1>1, NodesFinite, CloserOrder DEF Placed
<1>4. /\ Furthest(q, b.result) \in b.result
      /\ \A o \in b.result : To(q, o) <= To(q, Furthest(q, b.result))
  BY <1>1, NodesFinite, Extremes DEF Placed
<1>5. Worst(b) = To(q, Furthest(q, b.result))
  BY DEF Worst
<1>6. /\ Cardinality(b.result) \in Nat /\ IsFiniteSet(grown)
      /\ Cardinality(grown) = Cardinality(b.result) + 1
      /\ grown \in SUBSET Nodes /\ grown # {}
  <2>1. IsFiniteSet(b.result) /\ Cardinality(b.result) \in Nat /\ n \notin b.result
    BY <1>1, NodesFinite
  <2>2. IsFiniteSet(grown) /\ Cardinality(grown) = Cardinality(b.result) + 1
    BY <2>1, FS_AddElement
  <2>3. QED
    BY <1>1, <2>1, <2>2
<1>7. CASE To(q, n) < Worst(b) \/ Cardinality(b.result) < b.ef
  <2> DEFINE t == Trimmed(b, grown)
             f == Furthest(q, grown)
  <2>1. r = [b EXCEPT !.visited = @ \cup {n}, !.candidates = @ \cup {n}, !.result = t]
    BY <1>7 DEF Relax
  <2>2. f \in grown /\ \A o \in grown : To(q, o) <= To(q, f)
    BY <1>1, <1>6, NodesFinite, Extremes DEF Placed
  <2>3. t = IF Cardinality(grown) > b.ef THEN grown \ {f} ELSE grown
    BY DEF Trimmed
  <2> HIDE DEF t, f
  <2>4. ASSUME Cardinality(grown) > b.ef
        PROVE  /\ t = grown \ {f} /\ Cardinality(t) = b.ef /\ Cardinality(b.result) = b.ef
               /\ To(q, n) < Worst(b)
    <3>1. Cardinality(b.result) = b.ef
      BY <1>1, <1>6, <2>4
    <3>2. Cardinality(grown \ {f}) = Cardinality(grown) - 1
      BY <1>6, <2>2, FS_RemoveElement
    <3>3. QED
      BY <1>1, <1>6, <1>7, <2>3, <2>4, <3>1, <3>2
  <2>5. ASSUME ~(Cardinality(grown) > b.ef)
        PROVE  t = grown /\ Cardinality(t) <= b.ef /\ b.result = b.visited
    BY <1>1, <1>6, <2>3, <2>5
  <2>6. t \subseteq grown /\ t # {} /\ Cardinality(t) <= b.ef
    <3>1. CASE Cardinality(grown) > b.ef
      BY <1>1, <2>4, <3>1, FS_EmptySet
    <3>2. CASE ~(Cardinality(grown) > b.ef)
      BY <2>5, <3>2
    <3>3. QED
      BY <3>1, <3>2
  <2>7. /\ r \in Beams
        /\ r.query = b.query /\ r.ef = b.ef /\ r.visited = b.visited \cup {n}
        /\ r.candidates = b.candidates \cup {n} /\ r.result = t
    <3>1. t \in SUBSET Nodes
      BY <1>6, <2>6
    <3>2. b \in Beams
      BY DEF SoundBeam
    <3> HIDE DEF r
    <3>3. QED
      BY <1>1, <2>1, <3>1, <3>2 DEF Beams
  <2> HIDE DEF r
  <2>8. Cardinality(t) < b.ef => t = b.visited \cup {n}
    BY <1>1, <2>4, <2>5
  <2>9. ASSUME NEW kept \in t, NEW lost \in (b.visited \cup {n}) \ t
        PROVE  To(q, kept) <= To(q, lost)
    <3>1. Cardinality(grown) > b.ef
      BY <2>5, <2>9
    <3>2. t = grown \ {f} /\ To(q, n) < Worst(b)
      BY <2>4, <3>1
    <3>3. kept \in grown /\ (lost = f \/ lost \in b.visited \ b.result)
      BY <3>2
    <3>4. CASE lost = f
      BY <2>2, <3>3, <3>4
    <3>5. CASE lost \in b.visited \ b.result
      <4>1. CASE kept \in b.result
        BY <1>1, <3>5, <4>1
      <4>2. CASE kept = n
        <5>1. To(q, Furthest(q, b.result)) <= To(q, lost)
          BY <1>1, <1>4, <3>5
        <5>2. /\ To(q, n) \in Nat /\ To(q, lost) \in Nat
              /\ To(q, Furthest(q, b.result)) \in Nat
          BY <1>1, <1>3, <1>4, <3>5
        <5>3. QED
          BY <1>5, <3>2, <4>2, <5>1, <5>2
      <4>3. QED
        BY <3>3, <4>1, <4>2
    <3>6. QED
      BY <3>3, <3>4, <3>5
  <2>10. SoundBeam(r)
    <3>1. BestOf(r)
      BY <2>6, <2>7, <2>8, <2>9 DEF BestOf
    <3>2. QED
      BY <1>1, <2>6, <2>7, <3>1 DEF SoundBeam
  <2>11. r.result \ r.candidates \subseteq b.result \ b.candidates
    BY <2>6, <2>7
  <2>12. QED
    BY <2>7, <2>10, <2>11
<1>8. CASE ~(To(q, n) < Worst(b) \/ Cardinality(b.result) < b.ef)
  <2>1. r = [b EXCEPT !.visited = @ \cup {n}]
    BY <1>8 DEF Relax
  <2>2. /\ r \in Beams
        /\ r.query = b.query /\ r.ef = b.ef /\ r.visited = b.visited \cup {n}
        /\ r.candidates = b.candidates /\ r.result = b.result
    <3>1. b \in Beams
      BY DEF SoundBeam
    <3> HIDE DEF r
    <3>2. QED
      BY <1>1, <2>1, <3>1 DEF Beams
  <2> HIDE DEF r
  <2>3. ASSUME NEW kept \in b.result, NEW lost \in (b.visited \cup {n}) \ b.result
        PROVE  To(q, kept) <= To(q, lost)
    <3>1. CASE lost \in b.visited \ b.result
      BY <1>1, <3>1
    <3>2. CASE lost = n
      <4>1. To(q, kept) <= To(q, Furthest(q, b.result))
        BY <1>4
      <4>2. /\ To(q, n) \in Nat /\ To(q, kept) \in Nat
            /\ To(q, Furthest(q, b.result)) \in Nat
        BY <1>1, <1>3, <1>4
      <4>3. QED
        BY <1>5, <1>8, <3>2, <4>1, <4>2
    <3>3. QED
      BY <3>1, <3>2
  <2>4. Cardinality(b.result) = b.ef
    BY <1>1, <1>6, <1>8
  <2>5. BestOf(r)
    BY <1>1, <2>2, <2>3, <2>4 DEF BestOf
  <2>6. QED
    BY <1>1, <2>2, <2>5 DEF SoundBeam
<1>9. QED
  BY <1>7, <1>8

(* What a search of a layer begins with is sound.                          *)
LEMMA BeamStart ==
  ASSUME Placed, NEW q \in Point, NEW starts \in SUBSET Nodes, NEW ef \in Nat \ {0},
         starts # {}, Cardinality(starts) <= ef
  PROVE  /\ SoundBeam(Beam(q, starts, ef))
         /\ Beam(q, starts, ef).query = q /\ Beam(q, starts, ef).ef = ef
         /\ Beam(q, starts, ef).visited = starts
         /\ Beam(q, starts, ef).result \ Beam(q, starts, ef).candidates = {}
BY DEF Beam, SoundBeam, Beams, BestOf

(* FoldLeft of Relax, position by position.                                *)
LEMMA RelaxFold ==
  ASSUME NEW S, NEW s \in Seq(S), NEW V, NEW b \in V,
         \A v \in V, n \in Range(s) : Relax(v, n) \in V
  PROVE  \E h \in [0 .. Len(s) -> V] :
           /\ h[0] = b
           /\ \A i \in 1 .. Len(s) : h[i] = Relax(h[i - 1], s[i])
           /\ h[Len(s)] = FoldLeft(Relax, b, s)
<1> DEFINE N == Len(s)
           op == [i \in 1 .. N |-> [v \in V |-> Relax(v, s[i])]]
           iter[d \in SUBSET DOMAIN s] ==
             IF d = {} THEN b ELSE Relax(iter[d \ {Max(d)}], s[Max(d)])
<1>1. N \in Nat /\ DOMAIN s = 1 .. N
  OBVIOUS
<1>2. FoldLeft(Relax, b, s) = iter[DOMAIN s]
  BY DEF FoldLeft, MapThenFoldSet
<1>3. \A v \in V, i \in 1 .. N : Relax(v, s[i]) \in V
  BY RangeOf
<1>4. \A v \in V, i \in 1 .. N : op[i][v] = Relax(v, s[i]) /\ op[i][v] \in V
  BY <1>3
<1> HIDE DEF op, N
<1>5. PICK g \in [SUBSET (1 .. N) -> V] : Recurs(g, N, b, op)
  <2>1. \A v \in V, i \in 1 .. N : op[i][v] \in V
    BY <1>4
  <2>2. QED
    BY <1>1, <2>1, FoldExists, Zenon
<1>6. \A d \in SUBSET (1 .. N) : d # {} => Max(d) \in 1 .. N
  BY <1>1, MaxInside
<1>7. g = [d \in SUBSET DOMAIN s |->
             IF d = {} THEN b ELSE Relax(g[d \ {Max(d)}], s[Max(d)])]
  <2>1. ASSUME NEW d \in SUBSET (1 .. N), d # {}
        PROVE  g[d] = Relax(g[d \ {Max(d)}], s[Max(d)])
    <3>1. g[d \ {Max(d)}] \in V
      BY <2>1
    <3>2. QED
      BY <1>4, <1>5, <1>6, <2>1, <3>1 DEF Recurs
  <2>2. \A d \in SUBSET (1 .. N) :
          g[d] = IF d = {} THEN b ELSE Relax(g[d \ {Max(d)}], s[Max(d)])
    BY <1>5, <2>1 DEF Recurs
  <2>3. QED
    BY <1>1, <2>2
<1>8. iter = [d \in SUBSET DOMAIN s |->
                IF d = {} THEN b ELSE Relax(iter[d \ {Max(d)}], s[Max(d)])]
  BY <1>7 DEF iter
<1> HIDE DEF iter
<1>9. RecursIn(iter, N, V, b, op)
  BY <1>1, <1>4, <1>6, <1>8 DEF RecursIn
<1>10. PICK h \in [0 .. N -> V] : Follows(h, N, b, op) /\ h[N] = iter[1 .. N]
  <2>1. \A v \in V, i \in 1 .. N : op[i][v] \in V
    BY <1>4
  <2>2. QED
    BY <1>1, <1>9, <2>1, FoldChain
<1>11. h[0] = b /\ \A i \in 1 .. N : h[i] = Relax(h[i - 1], s[i])
  <2>1. \A i \in 1 .. N : i - 1 \in 0 .. N
    BY <1>1
  <2>2. QED
    BY <1>4, <1>10, <2>1 DEF Follows
<1>12. QED
  BY <1>1, <1>2, <1>10, <1>11 DEF N

(* A turn of the loop: the neighbours of a candidate are met.              *)
LEMMA RelaxAll ==
  ASSUME Placed, NEW b, SoundBeam(b), NEW s \in Seq(Nodes), NEW r, r = FoldLeft(Relax, b, s)
  PROVE  /\ SoundBeam(r)
         /\ r.query = b.query /\ r.ef = b.ef
         /\ r.visited = b.visited \cup Range(s)
         /\ r.result \ r.candidates \subseteq b.result \ b.candidates
<1> DEFINE Reachable(x) ==
             /\ SoundBeam(x)
             /\ x.query = b.query /\ x.ef = b.ef
             /\ b.visited \subseteq x.visited /\ x.visited \subseteq b.visited \cup Range(s)
             /\ x.result \ x.candidates \subseteq b.result \ b.candidates
           V == {x \in Beams : Reachable(x)}
           N == Len(s)
<1>1. Range(s) \subseteq Nodes /\ (\A i \in 1 .. N : s[i] \in Range(s)) /\ N \in Nat
      /\ \A x \in Range(s) : \E i \in 1 .. N : x = s[i]
  BY RangeOf
<1>2. b \in V
  BY DEF SoundBeam
<1>3. \A v \in V, n \in Range(s) : Relax(v, n) \in V /\ Relax(v, n).visited = v.visited \cup {n}
  <2> TAKE v \in V, n \in Range(s)
  <2>1. n \in Nodes /\ SoundBeam(v)
    BY <1>1
  <2>2. /\ SoundBeam(Relax(v, n))
        /\ Relax(v, n).query = v.query /\ Relax(v, n).ef = v.ef
        /\ Relax(v, n).visited = v.visited \cup {n}
        /\ Relax(v, n).result \ Relax(v, n).candidates \subseteq v.result \ v.candidates
    BY <2>1, RelaxStep
  <2>3. Relax(v, n) \in Beams
    BY <2>2 DEF SoundBeam
  <2>4. Reachable(Relax(v, n))
    BY <2>2
  <2>5. QED
    BY <2>2, <2>3, <2>4
<1>4. \A v \in V : Reachable(v)
  OBVIOUS
<1> HIDE DEF V
<1>5. PICK h \in [0 .. N -> V] :
        /\ h[0] = b
        /\ \A i \in 1 .. N : h[i] = Relax(h[i - 1], s[i])
        /\ h[N] = r
  <2>1. \A v \in V, n \in Range(s) : Relax(v, n) \in V
    BY <1>3
  <2> HIDE DEF N
  <2>2. PICK h \in [0 .. Len(s) -> V] :
          /\ h[0] = b
          /\ \A i \in 1 .. Len(s) : h[i] = Relax(h[i - 1], s[i])
          /\ h[Len(s)] = FoldLeft(Relax, b, s)
    BY <1>2, <2>1, RelaxFold
  <2>3. QED
    BY <2>2 DEF N
<1>6. \A i \in 0 .. N : \A j \in 1 .. i : s[j] \in h[i].visited
  <2> DEFINE S == {i \in 0 .. N : \A j \in 1 .. i : s[j] \in h[i].visited}
  <2>1. 0 \in S
    BY <1>1
  <2>2. ASSUME NEW i \in 0 .. N - 1, i \in S PROVE i + 1 \in S
    <3>1. i + 1 \in 1 .. N /\ (i + 1) - 1 = i /\ i \in 0 .. N /\ i + 1 \in 0 .. N
      BY <1>1
    <3>2. h[i + 1] = Relax(h[i], s[i + 1]) /\ h[i] \in V /\ s[i + 1] \in Range(s)
      BY <1>1, <1>5, <3>1
    <3>3. h[i + 1].visited = h[i].visited \cup {s[i + 1]}
      BY <1>3, <3>2
    <3>4. \A j \in 1 .. i + 1 : j \in 1 .. i \/ j = i + 1
      BY <3>1
    <3>5. QED
      BY <2>2, <3>1, <3>3, <3>4
  <2> HIDE DEF S
  <2>3. \A i \in 0 .. N : i \in S
    BY <1>1, <2>1, <2>2, Climb
  <2>4. QED
    BY <2>3 DEF S
<1>7. N \in 0 .. N
  BY <1>1
<1>8. Reachable(r)
  BY <1>4, <1>5, <1>7
<1>9. Range(s) \subseteq r.visited
  BY <1>1, <1>5, <1>6, <1>7
<1>10. QED
  BY <1>8, <1>9

(* Taking a candidate off leaves a sound beam.                             *)
LEMMA TakeOff ==
  ASSUME Placed, NEW b, SoundBeam(b), NEW c
  PROVE  /\ SoundBeam([b EXCEPT !.candidates = @ \ {c}])
         /\ [b EXCEPT !.candidates = @ \ {c}].query = b.query
         /\ [b EXCEPT !.candidates = @ \ {c}].ef = b.ef
         /\ [b EXCEPT !.candidates = @ \ {c}].visited = b.visited
         /\ [b EXCEPT !.candidates = @ \ {c}].result = b.result
         /\ [b EXCEPT !.candidates = @ \ {c}].candidates = b.candidates \ {c}
<1>1. b \in Beams
  BY DEF SoundBeam
<1> DEFINE r == [b EXCEPT !.candidates = @ \ {c}]
<1>2. /\ r \in Beams
      /\ r.query = b.query /\ r.ef = b.ef /\ r.visited = b.visited /\ r.result = b.result
      /\ r.candidates = b.candidates \ {c}
  BY <1>1 DEF Beams
<1> HIDE DEF r
<1>3. SoundBeam(r)
  BY <1>2 DEF SoundBeam, BestOf
<1>4. QED
  BY <1>2, <1>3 DEF r

-----------------------------------------------------------------------------
(* The choice of neighbours.                                               *)
Kept(selected, c, q, limit) ==
  IF /\ Len(selected) < limit
     /\ \A s \in Range(selected) : To(points[s], c) >= To(q, c)
  THEN Append(selected, c) ELSE selected

(* FoldLeft of Select, position by position.                               *)
LEMMA SelectFold ==
  ASSUME NEW q, NEW limit, NEW S, NEW a \in Seq(S), a = Ascending(q, S)
  PROVE  \E h \in [0 .. Len(a) -> Seq(S)] :
           /\ h[0] = << >>
           /\ \A i \in 1 .. Len(a) : h[i] = Kept(h[i - 1], a[i], q, limit)
           /\ h[Len(a)] = Select(q, S, limit)
<1> DEFINE N == Len(a)
           V == Seq(S)
           op == [i \in 1 .. N |-> [v \in V |-> Kept(v, a[i], q, limit)]]
           iter[d \in SUBSET DOMAIN a] ==
             IF d = {} THEN << >> ELSE Kept(iter[d \ {Max(d)}], a[Max(d)], q, limit)
<1>1. N \in Nat /\ DOMAIN a = 1 .. N
  OBVIOUS
<1>2. Select(q, S, limit) = iter[DOMAIN a]
  BY DEF Select, Kept, FoldLeft, MapThenFoldSet
<1>3. \A v \in V, i \in 1 .. N : Kept(v, a[i], q, limit) \in V
  <2> TAKE v \in V, i \in 1 .. N
  <2>1. a[i] \in S
    BY <1>1
  <2>2. Append(v, a[i]) \in V
    BY <2>1
  <2>3. QED
    BY <2>2 DEF Kept
<1>4. \A v \in V, i \in 1 .. N : op[i][v] = Kept(v, a[i], q, limit) /\ op[i][v] \in V
  BY <1>3
<1>5. << >> \in V
  OBVIOUS
<1> HIDE DEF op, N, V
<1>6. PICK g \in [SUBSET (1 .. N) -> V] : Recurs(g, N, << >>, op)
  <2>1. \A v \in V, i \in 1 .. N : op[i][v] \in V
    BY <1>4
  <2>2. QED
    BY <1>1, <1>5, <2>1, FoldExists, Zenon
<1>7. \A d \in SUBSET (1 .. N) : d # {} => Max(d) \in 1 .. N
  BY <1>1, MaxInside
<1>8. g = [d \in SUBSET DOMAIN a |->
             IF d = {} THEN << >> ELSE Kept(g[d \ {Max(d)}], a[Max(d)], q, limit)]
  <2>1. ASSUME NEW d \in SUBSET (1 .. N), d # {}
        PROVE  g[d] = Kept(g[d \ {Max(d)}], a[Max(d)], q, limit)
    <3>1. g[d \ {Max(d)}] \in V
      BY <2>1
    <3>2. QED
      BY <1>4, <1>6, <1>7, <2>1, <3>1 DEF Recurs
  <2>2. \A d \in SUBSET (1 .. N) :
          g[d] = IF d = {} THEN << >> ELSE Kept(g[d \ {Max(d)}], a[Max(d)], q, limit)
    BY <1>6, <2>1 DEF Recurs
  <2>3. QED
    BY <1>1, <2>2
<1>9. iter = [d \in SUBSET DOMAIN a |->
                IF d = {} THEN << >> ELSE Kept(iter[d \ {Max(d)}], a[Max(d)], q, limit)]
  BY <1>8 DEF iter
<1> HIDE DEF iter
<1>10. RecursIn(iter, N, V, << >>, op)
  BY <1>1, <1>4, <1>7, <1>9 DEF RecursIn
<1>11. PICK h \in [0 .. N -> V] : Follows(h, N, << >>, op) /\ h[N] = iter[1 .. N]
  <2>1. \A v \in V, i \in 1 .. N : op[i][v] \in V
    BY <1>4
  <2>2. QED
    BY <1>1, <1>5, <1>10, <2>1, FoldChain
<1>12. h[0] = << >> /\ \A i \in 1 .. N : h[i] = Kept(h[i - 1], a[i], q, limit)
  <2>1. \A i \in 1 .. N : i - 1 \in 0 .. N
    BY <1>1
  <2>2. QED
    BY <1>4, <1>11, <2>1 DEF Follows
<1>13. QED
  BY <1>1, <1>2, <1>11, <1>12 DEF N, V

(* A choice is a list without repetition of at most limit of the           *)
(* candidates, and there is one when there is a candidate: the closest.    *)
LEMMA Selected ==
  ASSUME Placed, NEW q \in Point, NEW S \in SUBSET Nodes, NEW limit \in Nat,
         NEW s, s = Select(q, S, limit)
  PROVE  /\ s \in Seq(S) /\ s \in Seq(Nodes)
         /\ Distinct(s) /\ Len(s) <= limit /\ Range(s) \subseteq S
         /\ S # {} /\ limit > 0 => Len(s) > 0
<1> DEFINE a == Ascending(q, S)
           N == Cardinality(S)
<1>1. IsFiniteSet(S) /\ S \in SUBSET (DOMAIN points) /\ N \in Nat
  BY NodesFinite
<1>2. /\ a \in Seq(S) /\ Len(a) = N /\ Distinct(a)
  BY <1>1, AscendingList DEF Placed
<1> HIDE DEF a
<1>3. PICK h \in [0 .. Len(a) -> Seq(S)] :
        /\ h[0] = << >>
        /\ \A i \in 1 .. Len(a) : h[i] = Kept(h[i - 1], a[i], q, limit)
        /\ h[Len(a)] = s
  BY <1>2, SelectFold DEF a
<1> HIDE DEF N
<1> DEFINE I(i) == /\ Distinct(h[i]) /\ Len(h[i]) <= limit
                   /\ \A x \in Range(h[i]) : \E j \in 1 .. i : x = a[j]
                   /\ i > 0 /\ limit > 0 => Len(h[i]) > 0
           T == {i \in 0 .. N : I(i)}
<1>4. 0 \in T
  <2>1. Range(h[0]) = {} /\ Len(h[0]) = 0 /\ Distinct(h[0])
    BY <1>3 DEF Distinct, Range
  <2>2. I(0)
    BY <2>1
  <2>3. QED
    BY <1>1, <2>2
<1>5. ASSUME NEW i \in 0 .. N - 1, i \in T PROVE i + 1 \in T
  <2>1. i + 1 \in 1 .. N /\ (i + 1) - 1 = i /\ i \in 0 .. N /\ i + 1 \in 0 .. N /\ i \in Nat
    BY <1>1
  <2>2. /\ h[i] \in Seq(S) /\ a[i + 1] \in S
        /\ h[i + 1] = Kept(h[i], a[i + 1], q, limit)
    <3>1. i \in 0 .. Len(a) /\ i + 1 \in 1 .. Len(a)
      BY <1>2, <2>1
    <3>2. h[i] \in Seq(S) /\ h[i + 1] = Kept(h[i], a[i + 1], q, limit)
      BY <1>3, <2>1, <3>1
    <3>3. a[i + 1] \in S
      BY <1>2, <3>1
    <3>4. QED
      BY <3>2, <3>3
  <2>3. I(i)
    BY <1>5
  <2>4. /\ Append(h[i], a[i + 1]) \in Seq(S) /\ Len(h[i]) \in Nat
        /\ Len(Append(h[i], a[i + 1])) = Len(h[i]) + 1
        /\ Range(Append(h[i], a[i + 1])) = Range(h[i]) \cup {a[i + 1]}
    BY <2>2, Appended
  <2>5. a[i + 1] \notin Range(h[i])
    <3> SUFFICES ASSUME a[i + 1] \in Range(h[i]) PROVE FALSE
      OBVIOUS
    <3>1. PICK j \in 1 .. i : a[i + 1] = a[j]
      BY <2>3
    <3>2. j \in 1 .. Len(a) /\ i + 1 \in 1 .. Len(a) /\ j # i + 1
      BY <1>1, <1>2, <2>1
    <3>3. QED
      BY <1>2, <3>1, <3>2 DEF Distinct
  <2>6. Distinct(Append(h[i], a[i + 1]))
    BY <2>2, <2>3, <2>5, AppendDistinct
  <2>7. CASE h[i + 1] = Append(h[i], a[i + 1]) /\ Len(h[i]) < limit
    <3>1. \A x \in Range(h[i + 1]) : \E j \in 1 .. i + 1 : x = a[j]
      <4>1. \A j \in 1 .. i : j \in 1 .. i + 1
        BY <2>1
      <4>2. i + 1 \in 1 .. i + 1
        BY <2>1
      <4>3. QED
        BY <2>3, <2>4, <2>7, <4>1, <4>2
    <3>2. I(i + 1)
      BY <2>4, <2>6, <2>7, <3>1
    <3>3. QED
      BY <2>1, <3>2
  <2>8. CASE h[i + 1] = h[i] /\ ~(Len(h[i]) = 0 /\ limit > 0)
    <3>1. \A x \in Range(h[i + 1]) : \E j \in 1 .. i + 1 : x = a[j]
      <4>1. \A j \in 1 .. i : j \in 1 .. i + 1
        BY <2>1
      <4>2. QED
        BY <2>3, <2>8, <4>1
    <3>2. limit > 0 => Len(h[i]) > 0
      BY <2>4, <2>8
    <3>3. I(i + 1)
      BY <2>3, <2>8, <3>1, <3>2
    <3>4. QED
      BY <2>1, <3>3
  <2>9. Len(h[i]) = 0 /\ limit > 0 => h[i + 1] = Append(h[i], a[i + 1]) /\ Len(h[i]) < limit
    <3> SUFFICES ASSUME Len(h[i]) = 0, limit > 0
                 PROVE  h[i + 1] = Append(h[i], a[i + 1]) /\ Len(h[i]) < limit
      OBVIOUS
    <3>1. Range(h[i]) = {}
      BY <2>2, RangeOf
    <3>2. QED
      BY <2>2, <3>1 DEF Kept
  <2>10. \/ h[i + 1] = Append(h[i], a[i + 1]) /\ Len(h[i]) < limit
         \/ h[i + 1] = h[i]
    BY <2>2 DEF Kept
  <2>11. QED
    BY <2>7, <2>8, <2>9, <2>10
<1> HIDE DEF T
<1>6. N \in T
  <2>1. \A i \in 0 .. N - 1 : i \in T => i + 1 \in T
    BY <1>5
  <2>2. N \in 0 .. N
    BY <1>1
  <2> HIDE DEF I
  <2>3. \A i \in 0 .. N : i \in T
    BY <1>1, <1>4, <2>1, Climb
  <2>4. QED
    BY <2>2, <2>3
<1>7. I(N) /\ s = h[N]
  BY <1>2, <1>3, <1>6 DEF T, N
<1>8. s \in Seq(S)
  BY <1>1, <1>2, <1>3, <1>7
<1>9. Range(s) \subseteq S /\ s \in Seq(Nodes)
  BY <1>8, RangeOf
<1>10. S # {} => N > 0
  BY <1>1, FS_EmptySet DEF N
<1>11. QED
  BY <1>7, <1>8, <1>9, <1>10

(* A list may hold what one insert links, and at least one node.           *)
LEMMA CapType ==
  ASSUME NEW l \in Nat
  PROVE  Cap(l) \in Nat \ {0} /\ m \in Nat \ {0} /\ m <= Cap(l)
BY ParamsAssumption DEF Cap

-----------------------------------------------------------------------------
(* The edges of a layer.                                                   *)
Edges == [Nodes -> Seq(Nodes)]

(* An edge and the edge back, and nothing else.                            *)
LEMMA LinkStep ==
  ASSUME Placed, NEW l \in Nat, NEW new \in Nodes, NEW neigh \in Nodes, neigh # new,
         NEW e \in Edges, NEW f, f = Link(e, l, new, neigh)
  PROVE  /\ f \in Edges
         /\ f[new] = Append(e[new], neigh)
         /\ \A o \in Nodes \ {new, neigh} : f[o] = e[o]
         /\ Range(f[neigh]) \subseteq Range(e[neigh]) \cup {new}
         /\ Len(f[neigh]) <= Cap(l)
         /\ Distinct(e[neigh]) /\ new \notin Range(e[neigh]) => Distinct(f[neigh])
         /\ Len(e[neigh]) < Cap(l) => f[neigh] = Append(e[neigh], new)
<1> DEFINE linked == [e EXCEPT ![new] = Append(@, neigh), ![neigh] = Append(@, new)]
           back == Append(e[neigh], new)
<1>1. e[new] \in Seq(Nodes) /\ e[neigh] \in Seq(Nodes)
  BY DEF Edges
<1>2. /\ Append(e[new], neigh) \in Seq(Nodes)
      /\ back \in Seq(Nodes) /\ Len(back) = Len(e[neigh]) + 1 /\ Len(e[neigh]) \in Nat
      /\ Range(back) = Range(e[neigh]) \cup {new}
  BY <1>1, Appended
<1>3. /\ linked \in Edges /\ linked[new] = Append(e[new], neigh) /\ linked[neigh] = back
      /\ \A o \in Nodes \ {new, neigh} : linked[o] = e[o]
  BY <1>2 DEF Edges
<1>4. Cap(l) \in Nat
  BY CapType
<1>5. Distinct(e[neigh]) /\ new \notin Range(e[neigh]) => Distinct(back)
  BY <1>1, AppendDistinct
<1>6. f = IF Len(linked[neigh]) > Cap(l)
          THEN [linked EXCEPT ![neigh] = Select(points[neigh], Range(@), Cap(l))]
          ELSE linked
  BY DEF Link
<1> HIDE DEF linked, back
<1>7. CASE Len(back) > Cap(l)
  <2> DEFINE thinned == Select(points[neigh], Range(back), Cap(l))
  <2>1. f = [linked EXCEPT ![neigh] = thinned]
    BY <1>3, <1>6, <1>7 DEF Edges
  <2>2. points[neigh] \in Point
    BY DEF Placed, Stored
  <2>3. Range(back) \in SUBSET Nodes
    BY <1>2, RangeOf
  <2>4. /\ thinned \in Seq(Nodes)
        /\ Distinct(thinned) /\ Len(thinned) <= Cap(l) /\ Range(thinned) \subseteq Range(back)
    <3> DEFINE p == points[neigh]
               S == Range(back)
               c == Cap(l)
    <3>1. thinned = Select(p, S, c) /\ p \in Point /\ S \in SUBSET Nodes /\ c \in Nat
      BY <1>4, <2>2, <2>3
    <3> HIDE DEF thinned, p, S, c
    <3>2. /\ thinned \in Seq(Nodes)
          /\ Distinct(thinned) /\ Len(thinned) <= c /\ Range(thinned) \subseteq S
      BY <3>1, Selected
    <3>3. QED
      BY <3>2 DEF S, c
  <2> HIDE DEF thinned
  <2>5. f \in Edges /\ f[neigh] = thinned /\ \A o \in Nodes \ {neigh} : f[o] = linked[o]
    BY <1>3, <2>1, <2>4 DEF Edges
  <2>6. QED
    BY <1>2, <1>3, <1>4, <1>7, <2>4, <2>5
<1>8. CASE ~(Len(back) > Cap(l))
  <2>1. f = linked
    BY <1>3, <1>6, <1>8
  <2>2. f[neigh] = Append(e[neigh], new) /\ f[new] = Append(e[new], neigh) /\ f[neigh] = back
    BY <1>3, <2>1 DEF back
  <2>3. Distinct(e[neigh]) /\ new \notin Range(e[neigh]) => Distinct(f[neigh])
    BY <1>5, <2>2
  <2>4. Len(f[neigh]) <= Cap(l) /\ Range(f[neigh]) \subseteq Range(e[neigh]) \cup {new}
    BY <1>2, <1>4, <1>8, <2>2
  <2>5. QED
    BY <1>3, <2>1, <2>2, <2>3, <2>4
<1>9. QED
  BY <1>7, <1>8

LinkEach(e, l, new, s) == FoldLeft(LAMBDA edges, n : Link(edges, l, new, n), e, s)

(* It links position by position.                                          *)
LEMMA LinkFold ==
  ASSUME NEW l, NEW new, NEW S, NEW s \in Seq(S), NEW V, NEW e \in V,
         \A v \in V, n \in Range(s) : Link(v, l, new, n) \in V
  PROVE  \E h \in [0 .. Len(s) -> V] :
           /\ h[0] = e
           /\ \A i \in 1 .. Len(s) : h[i] = Link(h[i - 1], l, new, s[i])
           /\ h[Len(s)] = LinkEach(e, l, new, s)
<1> DEFINE N == Len(s)
           op == [i \in 1 .. N |-> [v \in V |-> Link(v, l, new, s[i])]]
           iter[d \in SUBSET DOMAIN s] ==
             IF d = {} THEN e ELSE Link(iter[d \ {Max(d)}], l, new, s[Max(d)])
<1>1. N \in Nat /\ DOMAIN s = 1 .. N
  OBVIOUS
<1>2. LinkEach(e, l, new, s) = iter[DOMAIN s]
  BY DEF LinkEach, FoldLeft, MapThenFoldSet
<1>3. \A v \in V, i \in 1 .. N : Link(v, l, new, s[i]) \in V
  BY RangeOf
<1>4. \A v \in V, i \in 1 .. N : op[i][v] = Link(v, l, new, s[i]) /\ op[i][v] \in V
  BY <1>3
<1> HIDE DEF op, N
<1>5. PICK g \in [SUBSET (1 .. N) -> V] : Recurs(g, N, e, op)
  <2>1. \A v \in V, i \in 1 .. N : op[i][v] \in V
    BY <1>4
  <2>2. QED
    BY <1>1, <2>1, FoldExists, Zenon
<1>6. \A d \in SUBSET (1 .. N) : d # {} => Max(d) \in 1 .. N
  BY <1>1, MaxInside
<1>7. g = [d \in SUBSET DOMAIN s |->
             IF d = {} THEN e ELSE Link(g[d \ {Max(d)}], l, new, s[Max(d)])]
  <2>1. ASSUME NEW d \in SUBSET (1 .. N), d # {}
        PROVE  g[d] = Link(g[d \ {Max(d)}], l, new, s[Max(d)])
    <3>1. g[d \ {Max(d)}] \in V
      BY <2>1
    <3>2. QED
      BY <1>4, <1>5, <1>6, <2>1, <3>1 DEF Recurs
  <2>2. \A d \in SUBSET (1 .. N) :
          g[d] = IF d = {} THEN e ELSE Link(g[d \ {Max(d)}], l, new, s[Max(d)])
    BY <1>5, <2>1 DEF Recurs
  <2>3. QED
    BY <1>1, <2>2
<1>8. iter = [d \in SUBSET DOMAIN s |->
                IF d = {} THEN e ELSE Link(iter[d \ {Max(d)}], l, new, s[Max(d)])]
  BY <1>7 DEF iter
<1> HIDE DEF iter
<1>9. RecursIn(iter, N, V, e, op)
  BY <1>1, <1>4, <1>6, <1>8 DEF RecursIn
<1>10. PICK h \in [0 .. N -> V] : Follows(h, N, e, op) /\ h[N] = iter[1 .. N]
  <2>1. \A v \in V, i \in 1 .. N : op[i][v] \in V
    BY <1>4
  <2>2. QED
    BY <1>1, <1>9, <2>1, FoldChain
<1>11. h[0] = e /\ \A i \in 1 .. N : h[i] = Link(h[i - 1], l, new, s[i])
  <2>1. \A i \in 1 .. N : i - 1 \in 0 .. N
    BY <1>1
  <2>2. QED
    BY <1>4, <1>10, <2>1 DEF Follows
<1>12. QED
  BY <1>1, <1>2, <1>10, <1>11 DEF N

SoundList(e, l, n) ==
  /\ Len(e[n]) <= IF n \in OnLayer(l) THEN Cap(l) ELSE 0
  /\ Range(e[n]) \subseteq OnLayer(l) \ {n}
  /\ Distinct(e[n])

(* Nothing has been pruned from a layer of so few nodes.                   *)
Small(l) == Cardinality(OnLayer(l)) <= Cap(l) + 1

BothWays(f, e, new, s) ==
  /\ Range(f[new]) = Range(s)
  /\ \A n \in Nodes \ {new} :
       Range(f[n]) = Range(e[n]) \cup (IF n \in Range(s) THEN {new} ELSE {})

(* What a new node's links make of the edges of a layer that knows nothing *)
(* of it yet: sound they stay, and where none has to be pruned each link   *)
(* goes both ways.                                                         *)
LEMMA LinkAll ==
  ASSUME Placed, NEW l \in Nat, NEW new \in OnLayer(l),
         NEW e \in Edges, \A n \in Nodes : SoundList(e, l, n) /\ new \notin Range(e[n]),
         e[new] = << >>,
         NEW s \in Seq(Nodes), Distinct(s), Len(s) <= m, Range(s) \subseteq OnLayer(l) \ {new},
         NEW r, r = LinkEach(e, l, new, s)
  PROVE  /\ r \in Edges
         /\ \A n \in Nodes : SoundList(r, l, n)
         /\ Small(l) => BothWays(r, e, new, s)
<1> DEFINE N == Len(s)
<1>1. /\ N \in Nat /\ \A i \in 1 .. N : s[i] \in Range(s) /\ s[i] \in Nodes
      /\ \A x \in Range(s) : \E i \in 1 .. N : x = s[i]
  BY RangeOf
<1>2. /\ new \in Nodes /\ OnLayer(l) \in SUBSET Nodes /\ new \notin Range(s)
      /\ \A i \in 1 .. N : s[i] \in OnLayer(l) /\ s[i] # new
  BY <1>1 DEF OnLayer
<1>3. Cap(l) \in Nat \ {0} /\ m \in Nat /\ m <= Cap(l)
  BY CapType
<1>4. PICK h \in [0 .. N -> Edges] :
        /\ h[0] = e
        /\ \A i \in 1 .. N : h[i] = Link(h[i - 1], l, new, s[i])
        /\ h[N] = r
  <2>1. \A v \in Edges, n \in Range(s) : Link(v, l, new, n) \in Edges
    <3> TAKE v \in Edges, n \in Range(s)
    <3>1. n \in Nodes /\ n # new
      BY <1>1, <1>2
    <3> DEFINE f == Link(v, l, new, n)
    <3>2. f = Link(v, l, new, n)
      OBVIOUS
    <3> HIDE DEF f
    <3>3. f \in Edges
      BY <1>2, <3>1, <3>2, LinkStep
    <3>4. QED
      BY <3>2, <3>3
  <2> HIDE DEF N
  <2>2. PICK h \in [0 .. Len(s) -> Edges] :
          /\ h[0] = e
          /\ \A i \in 1 .. Len(s) : h[i] = Link(h[i - 1], l, new, s[i])
          /\ h[Len(s)] = LinkEach(e, l, new, s)
    BY <2>1, LinkFold
  <2>3. QED
    BY <2>2 DEF N
<1> HIDE DEF N
<1> DEFINE Fine(i) == \A n \in Nodes : SoundList(h[i], l, n)
           Known(i) == \A n \in Nodes \ {new} :
                         new \in Range(h[i][n]) => \E j \in 1 .. i : n = s[j]
           Listed(i) == Len(h[i][new]) = i /\ \A j \in 1 .. i : h[i][new][j] = s[j]
           Back(i) == \A n \in Nodes \ {new} :
                          Range(h[i][n]) = Range(e[n]) \cup
                            (IF \E j \in 1 .. i : n = s[j] THEN {new} ELSE {})
           T == {i \in 0 .. N : Fine(i) /\ Known(i) /\ Listed(i) /\ (Small(l) => Back(i))}
<1>5. 0 \in T
  <2>1. Fine(0) /\ Known(0) /\ Listed(0)
    BY <1>1, <1>2, <1>4
  <2>2. Back(0)
    BY <1>4
  <2>3. QED
    BY <1>1, <2>1, <2>2
<1>6. ASSUME NEW i \in 0 .. N - 1, i \in T PROVE i + 1 \in T
  <2>1. /\ i + 1 \in 1 .. N /\ (i + 1) - 1 = i /\ i \in 0 .. N /\ i + 1 \in 0 .. N /\ i \in Nat
        /\ i + 1 <= m
    BY <1>1, <1>3 DEF N
  <2> DEFINE b == h[i]
             f == h[i + 1]
             x == s[i + 1]
  <2>2. Fine(i) /\ Known(i) /\ Listed(i) /\ (Small(l) => Back(i))
    BY <1>6
  <2>3. /\ b \in Edges /\ x \in Nodes /\ x # new /\ x \in OnLayer(l) /\ x \in Range(s)
        /\ f = Link(b, l, new, x)
    BY <1>1, <1>2, <1>4, <2>1
  <2>4. SoundList(b, l, x) /\ SoundList(b, l, new)
    BY <1>2, <2>2, <2>3
  <2>5. x \notin Range(b[new]) /\ new \notin Range(b[x])
    <3>1. \A j \in 1 .. i : s[j] # x
      BY <2>1 DEF N, Distinct
    <3>2. b[new] \in Seq(Nodes)
      BY <1>2, <2>3 DEF Edges
    <3>3. x \notin Range(b[new])
      <4>1. Len(b[new]) = i /\ \A j \in 1 .. i : b[new][j] = s[j]
        BY <2>2
      <4>2. \A y \in Range(b[new]) : \E j \in 1 .. Len(b[new]) : y = b[new][j]
        BY <3>2, RangeOf
      <4> HIDE DEF b, x
      <4>3. QED
        BY <3>1, <4>1, <4>2
    <3>4. new \notin Range(b[x])
      BY <2>2, <2>3, <3>1
    <3>5. QED
      BY <3>3, <3>4
  <2>6. /\ b[new] \in Seq(Nodes) /\ b[x] \in Seq(Nodes) /\ f[x] \in Seq(Nodes)
        /\ f \in Edges
        /\ f[new] = Append(b[new], x)
        /\ \A o \in Nodes \ {new, x} : f[o] = b[o]
        /\ Range(f[x]) \subseteq Range(b[x]) \cup {new}
        /\ Len(f[x]) <= Cap(l)
        /\ Distinct(f[x])
        /\ Len(b[x]) < Cap(l) => f[x] = Append(b[x], new)
    <3>1. b[new] \in Seq(Nodes) /\ b[x] \in Seq(Nodes)
      BY <1>2, <2>3 DEF Edges
    <3>2. Distinct(b[x])
      BY <2>4 DEF SoundList
    <3> HIDE DEF b, f, x
    <3>3. /\ f \in Edges
          /\ f[new] = Append(b[new], x)
          /\ \A o \in Nodes \ {new, x} : f[o] = b[o]
          /\ Range(f[x]) \subseteq Range(b[x]) \cup {new}
          /\ Len(f[x]) <= Cap(l)
          /\ Distinct(b[x]) /\ new \notin Range(b[x]) => Distinct(f[x])
          /\ Len(b[x]) < Cap(l) => f[x] = Append(b[x], new)
      <4>1. new \in Nodes /\ x \in Nodes /\ x # new /\ b \in Edges /\ f = Link(b, l, new, x)
        BY <1>2, <2>3
      <4>2. f \in Edges
        BY <4>1, LinkStep
      <4>3. f[new] = Append(b[new], x)
        BY <4>1, LinkStep
      <4>4. \A o \in Nodes \ {new, x} : f[o] = b[o]
        BY <4>1, LinkStep
      <4>5. Range(f[x]) \subseteq Range(b[x]) \cup {new} /\ Len(f[x]) <= Cap(l)
        BY <4>1, LinkStep
      <4>6. Distinct(b[x]) /\ new \notin Range(b[x]) => Distinct(f[x])
        BY <4>1, LinkStep
      <4>7. Len(b[x]) < Cap(l) => f[x] = Append(b[x], new)
        BY <4>1, LinkStep
      <4>8. QED
        BY <4>2, <4>3, <4>4, <4>5, <4>6, <4>7
    <3>4. f[x] \in Seq(Nodes)
      BY <2>3, <3>3 DEF Edges
    <3>5. QED
      BY <2>5, <3>1, <3>2, <3>3, <3>4
  <2>7. /\ Len(f[new]) = i + 1 /\ Range(f[new]) = Range(b[new]) \cup {x}
        /\ \A j \in 1 .. i : f[new][j] = b[new][j]
        /\ f[new][i + 1] = x
        /\ Distinct(f[new])
    <3>1. Len(b[new]) = i
      BY <2>2
    <3>2. Distinct(b[new])
      BY <2>4 DEF SoundList
    <3> HIDE DEF b, f, x
    <3>3. /\ Len(f[new]) = Len(b[new]) + 1 /\ Range(f[new]) = Range(b[new]) \cup {x}
          /\ \A j \in 1 .. Len(b[new]) : f[new][j] = b[new][j]
          /\ f[new][Len(b[new]) + 1] = x
      BY <2>3, <2>6, Appended
    <3>4. Distinct(f[new])
      BY <2>3, <2>5, <2>6, <3>2, AppendDistinct
    <3>5. QED
      BY <3>1, <3>3, <3>4
  <2>8. Fine(i + 1)
    <3>1. SoundList(f, l, new)
      <4>1. Range(f[new]) \subseteq OnLayer(l) \ {new}
        BY <2>3, <2>4, <2>7 DEF SoundList
      <4>2. Len(f[new]) <= Cap(l)
        BY <1>3, <2>1, <2>7
      <4>3. QED
        BY <2>7, <4>1, <4>2 DEF SoundList
    <3>2. SoundList(f, l, x)
      <4>1. Range(f[x]) \subseteq OnLayer(l) \ {x}
        BY <2>3, <2>4, <2>6 DEF SoundList
      <4>2. QED
        BY <2>3, <2>6, <4>1 DEF SoundList
    <3>3. \A o \in Nodes \ {new, x} : SoundList(f, l, o)
      BY <2>2, <2>6 DEF SoundList
    <3>4. QED
      BY <3>1, <3>2, <3>3
  <2>9. Known(i + 1)
    <3> SUFFICES ASSUME NEW n \in Nodes \ {new}, new \in Range(f[n])
                 PROVE  \E j \in 1 .. i + 1 : n = s[j]
      OBVIOUS
    <3>1. CASE n = x
      BY <2>1, <3>1
    <3>2. CASE n # x
      <4>1. new \in Range(b[n])
        BY <2>6, <3>2
      <4>2. PICK j \in 1 .. i : n = s[j]
        BY <2>2, <4>1
      <4>3. j \in 1 .. i + 1
        BY <2>1
      <4>4. QED
        BY <4>2, <4>3
    <3>3. QED
      BY <3>1, <3>2
  <2>10. Listed(i + 1)
    <3>1. \A j \in 1 .. i + 1 : j \in 1 .. i \/ j = i + 1
      BY <2>1
    <3>2. QED
      BY <2>2, <2>7, <3>1
  <2>11. Small(l) => Back(i + 1)
    <3> SUFFICES ASSUME Small(l) PROVE Back(i + 1)
      OBVIOUS
    <3>1. Len(b[x]) < Cap(l)
      <4> DEFINE O == OnLayer(l)
      <4>1. Range(b[x]) \subseteq (O \ {x}) \ {new}
        BY <2>4, <2>5 DEF SoundList
      <4>2. /\ IsFiniteSet(O) /\ Cardinality(O) \in Nat
            /\ Cardinality(Range(b[x])) = Len(b[x])
        <5>1. b[x] \in Seq(Nodes) /\ Distinct(b[x])
          BY <2>4, <2>6 DEF SoundList
        <5>2. QED
          BY <1>2, <5>1, NodesFinite, RangeOf
      <4>3. /\ IsFiniteSet((O \ {x}) \ {new})
            /\ Cardinality((O \ {x}) \ {new}) = Cardinality(O) - 2
        <5>1. IsFiniteSet(O \ {x}) /\ Cardinality(O \ {x}) = Cardinality(O) - 1
          BY <2>3, <4>2, FS_RemoveElement
        <5>2. new \in O \ {x}
          BY <2>3
        <5> DEFINE P == O \ {x}
        <5>3. IsFiniteSet(P) /\ Cardinality(P) = Cardinality(O) - 1 /\ new \in P
          BY <5>1, <5>2
        <5> HIDE DEF P, O
        <5>4. IsFiniteSet(P \ {new}) /\ Cardinality(P \ {new}) = Cardinality(P) - 1
          BY <5>3, FS_RemoveElement
        <5>5. QED
          BY <4>2, <5>3, <5>4 DEF P
      <4>4. Cardinality(Range(b[x])) <= Cardinality((O \ {x}) \ {new})
        BY <4>1, <4>3, FS_Subset
      <4>5. Cardinality(O) <= Cap(l) + 1
        BY DEF Small
      <4> HIDE DEF O, b, x
      <4>6. QED
        BY <1>3, <4>2, <4>3, <4>4, <4>5
    <3>2. Range(f[x]) = Range(b[x]) \cup {new}
      <4>1. f[x] = Append(b[x], new) /\ b[x] \in Seq(Nodes)
        BY <2>6, <3>1
      <4> HIDE DEF b, f, x
      <4>2. QED
        BY <1>2, <4>1, Appended
    <3>3. ASSUME NEW n \in Nodes \ {new}
          PROVE  Range(f[n]) = Range(e[n]) \cup
                   (IF \E j \in 1 .. i + 1 : n = s[j] THEN {new} ELSE {})
      <4>1. Range(b[n]) = Range(e[n]) \cup
              (IF \E j \in 1 .. i : n = s[j] THEN {new} ELSE {})
        BY <2>2
      <4>2. CASE n = x
        <5>1. \E j \in 1 .. i + 1 : n = s[j]
          BY <2>1, <4>2
        <5>2. QED
          BY <3>2, <4>1, <4>2, <5>1
      <4>3. CASE n # x
        <5>1. f[n] = b[n]
          BY <2>6, <4>3
        <5>2. (\E j \in 1 .. i + 1 : n = s[j]) <=> (\E j \in 1 .. i : n = s[j])
          <6>1. \A j \in 1 .. i + 1 : j \in 1 .. i \/ j = i + 1
            BY <2>1
          <6>2. \A j \in 1 .. i : j \in 1 .. i + 1
            BY <2>1
          <6>3. QED
            BY <4>3, <6>1, <6>2
        <5>3. QED
          BY <4>1, <5>1, <5>2
      <4>4. QED
        BY <4>2, <4>3
    <3>4. QED
      BY <3>3
  <2>12. QED
    BY <2>1, <2>8, <2>9, <2>10, <2>11
<1>7. N \in T
  <2>1. \A i \in 0 .. N - 1 : i \in T => i + 1 \in T
    BY <1>6
  <2>2. N \in 0 .. N /\ N \in Nat
    BY <1>1 DEF N
  <2> HIDE DEF T
  <2>3. \A i \in 0 .. N : i \in T
    BY <1>5, <2>1, <2>2, Climb
  <2>4. QED
    BY <2>2, <2>3
<1>8. Fine(N) /\ Listed(N) /\ (Small(l) => Back(N)) /\ r = h[N] /\ r \in Edges
  <2>1. N \in 0 .. N
    BY <1>1 DEF N
  <2>2. r = h[N] /\ r \in Edges
    BY <1>4, <2>1
  <2> HIDE DEF Fine, Known, Listed, Back
  <2>3. Fine(N) /\ Listed(N) /\ (Small(l) => Back(N))
    BY <1>7
  <2>4. QED
    BY <2>2, <2>3
<1>9. \A n : n \in Range(s) <=> \E j \in 1 .. N : n = s[j]
  BY <1>1 DEF N
<1>10. Range(r[new]) = Range(s)
  <2>1. r[new] \in Seq(Nodes)
    BY <1>2, <1>8 DEF Edges
  <2>2. \A n : n \in Range(r[new]) <=> \E j \in 1 .. N : n = r[new][j]
    BY <1>8, <2>1, RangeOf
  <2>3. \A j \in 1 .. N : r[new][j] = s[j]
    BY <1>8
  <2>4. \A n : n \in Range(r[new]) <=> n \in Range(s)
    BY <1>9, <2>2, <2>3
  <2>5. QED
    BY <2>4
<1>11. Small(l) => BothWays(r, e, new, s)
  <2> SUFFICES ASSUME Small(l), NEW n \in Nodes \ {new}
               PROVE  Range(r[n]) = Range(e[n]) \cup (IF n \in Range(s) THEN {new} ELSE {})
    BY <1>10 DEF BothWays
  <2>1. n \in Range(s) <=> \E j \in 1 .. N : n = s[j]
    BY <1>9
  <2>2. QED
    BY <1>8, <2>1
<1>12. QED
  BY <1>8, <1>11

-----------------------------------------------------------------------------
(* The inductive invariant.  Every list of every layer is sound; the       *)
(* layers are those up to the highest level, and between inserts up to the *)
(* entry point's; a task searches a layer that its entry point is on, with *)
(* a sound beam; and a node being inserted has no edge, in either          *)
(* direction, on the layers its insert has not left yet.                   *)
New == Len(node_levels)

GraphOK ==
  /\ Placed
  /\ \E top \in Level : DOMAIN layers = 0 .. top
  /\ \A l \in DOMAIN layers :
       layers[l] \in Edges /\ \A n \in Nodes : SoundList(layers[l], l, n)
  /\ \A n \in Nodes : node_levels[n] \in DOMAIN layers
  /\ entry_point \in Nodes \cup {NONE} /\ (entry_point = NONE <=> Nodes = {})
  /\ Nodes = {} => DOMAIN layers = {0}
  /\ task = Idle /\ Nodes # {} => DOMAIN layers = 0 .. node_levels[entry_point]
  /\ task = Idle => layer = 0

TaskOK ==
  task # Idle =>
    /\ task.kind \in {"insert", "search"}
    /\ task.query \in Point /\ task.ef \in Nat \ {0}
    /\ task.top \in Level /\ task.floor \in 0 .. task.top /\ layer \in 0 .. task.top
    /\ entry_point \in Nodes /\ task.top = node_levels[entry_point]

Expanded ==
  \A n \in beam.result \ beam.candidates : Range(layers[layer][n]) \subseteq beam.visited

BeamOK ==
  task # Idle =>
    /\ SoundBeam(beam)
    /\ beam.query = task.query /\ beam.ef = Width(task, layer)
    /\ beam.visited \subseteq OnLayer(layer)
    /\ Expanded

Unlinked(l) == /\ layers[l][New] = << >>
               /\ \A n \in Nodes : New \notin Range(layers[l][n])

InsertOK ==
  task # Idle /\ task.kind = "insert" =>
    /\ entry_point # New
    /\ task.ef = ef_construction
    /\ task.floor = IF node_levels[New] < task.top THEN node_levels[New] ELSE task.top
    /\ DOMAIN layers = 0 .. (IF node_levels[New] > task.top THEN node_levels[New] ELSE task.top)
    /\ New \notin beam.visited
    /\ \A l \in 0 .. layer : Unlinked(l)

SearchOK ==
  task # Idle /\ task.kind = "search" =>
    /\ task.floor = 0 /\ DOMAIN layers = 0 .. task.top
    /\ Nodes = DOMAIN points
    /\ task.k \in Nat /\ task.ef >= task.k /\ task.ef >= ef_search

AnswerOK == answer # NoAnswer => \A i \in answer.heap : i.id \in Nodes /\ i.score \in Nat

IInv == GraphOK /\ TaskOK /\ BeamOK /\ InsertOK /\ SearchOK /\ AnswerOK

(* Of a task in progress: the layer it searches exists.                    *)
LEMMA AtWork ==
  ASSUME IInv, task # Idle
  PROVE  /\ Placed /\ layer \in Nat /\ layer \in DOMAIN layers
         /\ layers[layer] \in Edges /\ \A n \in Nodes : SoundList(layers[layer], layer, n)
         /\ SoundBeam(beam) /\ beam.query \in Point /\ beam.query = task.query
         /\ beam.ef = Width(task, layer) /\ beam.ef \in Nat \ {0}
         /\ beam.result \in SUBSET Nodes /\ beam.result # {} /\ beam.result \subseteq beam.visited
         /\ beam.visited \in SUBSET Nodes /\ beam.visited \subseteq OnLayer(layer)
         /\ beam.candidates \in SUBSET Nodes /\ beam.candidates \subseteq beam.visited
         /\ layer \in 0 .. task.top /\ task.top \in Nat
<1>1. /\ layer \in 0 .. task.top /\ task.top \in Level /\ entry_point \in Nodes
      /\ task.top = node_levels[entry_point]
  BY DEF IInv, TaskOK
<1>2. task.top \in Nat /\ layer \in Nat
  BY <1>1, LevelAssumption DEF Level
<1>3. layer \in DOMAIN layers
  <2>1. PICK top \in Level : DOMAIN layers = 0 .. top
    BY DEF IInv, GraphOK
  <2>2. task.top \in 0 .. top /\ top \in Nat
    BY <1>1, <2>1, LevelAssumption DEF IInv, GraphOK, Level
  <2>3. QED
    BY <1>1, <1>2, <2>1, <2>2
<1>4. layers[layer] \in Edges /\ \A n \in Nodes : SoundList(layers[layer], layer, n)
  BY <1>3 DEF IInv, GraphOK
<1>5. /\ SoundBeam(beam) /\ beam.query = task.query /\ beam.ef = Width(task, layer)
      /\ beam.visited \subseteq OnLayer(layer)
  BY DEF IInv, BeamOK
<1>6. /\ beam.query \in Point /\ beam.ef \in Nat \ {0}
      /\ beam.result \in SUBSET Nodes /\ beam.result # {} /\ beam.result \subseteq beam.visited
      /\ beam.visited \in SUBSET Nodes
      /\ beam.candidates \in SUBSET Nodes /\ beam.candidates \subseteq beam.visited
  BY <1>5 DEF SoundBeam, Beams
<1>7. QED
  BY <1>1, <1>2, <1>3, <1>4, <1>5, <1>6 DEF IInv, GraphOK

(* Soundness is about points and nodes only.                               *)
LEMMA SoundUnchanged ==
  ASSUME UNCHANGED <<points, node_levels>>, SoundBeam(beam')
  PROVE  SoundBeam(beam)'
BY DEF SoundBeam, Beams, BestOf, To, Nodes

(* A step that leaves the graph alone.                                     *)
LEMMA GraphUnchanged ==
  ASSUME IInv, task # Idle, UNCHANGED <<points, node_levels, layers, entry_point>>
  PROVE  /\ Nodes' = Nodes /\ New' = New /\ \A l : OnLayer(l)' = OnLayer(l)
         /\ task' # Idle => GraphOK'
         /\ \A l : Unlinked(l)' <=> Unlinked(l)
<1>1. Nodes' = Nodes /\ New' = New
  BY DEF Nodes, New
<1>2. \A l : OnLayer(l)' = OnLayer(l)
  BY <1>1 DEF OnLayer
<1>3. \A l : Unlinked(l)' <=> Unlinked(l)
  BY <1>1 DEF Unlinked
<1>4. GraphOK
  BY DEF IInv
<1>5. Placed' /\ Edges' = Edges /\ \A e, l, n : SoundList(e, l, n)' <=> SoundList(e, l, n)
  BY <1>1, <1>2, <1>4 DEF GraphOK, Placed, Stored, Edges, SoundList
<1>6. task' # Idle => GraphOK'
  BY <1>1, <1>4, <1>5 DEF GraphOK
<1>7. QED
  BY <1>1, <1>2, <1>3, <1>6

(* A turn of the loop.                                                     *)
LEMMA ExpandStep ==
  ASSUME IInv, Expand
  PROVE  IInv'
<1> DEFINE c == Closest(beam.query, beam.candidates)
           b == [beam EXCEPT !.candidates = @ \ {c}]
           s == layers[layer][c]
<1>1. /\ task # Idle /\ beam.candidates # {}
      /\ beam' = FoldLeft(Relax, b, s)
      /\ UNCHANGED <<points, node_levels, layers, entry_point, task, layer, answer>>
  BY DEF Expand, Exhausted
<1>2. /\ Placed /\ SoundBeam(beam) /\ layers[layer] \in Edges
      /\ beam.query \in Point /\ beam.candidates \in SUBSET Nodes
      /\ \A n \in Nodes : SoundList(layers[layer], layer, n)
      /\ beam.visited \subseteq OnLayer(layer)
  BY <1>1, AtWork
<1>3. c \in beam.candidates /\ c \in Nodes
  <2>1. Stored /\ IsFiniteSet(beam.candidates) /\ beam.candidates \in SUBSET (DOMAIN points)
    BY <1>2, NodesFinite DEF Placed
  <2>2. Closest(beam.query, beam.candidates) \in beam.candidates
    BY <1>1, <1>2, <2>1, Extremes
  <2>3. QED
    BY <1>2, <2>2
<1>4. s \in Seq(Nodes) /\ Range(s) \subseteq OnLayer(layer)
  BY <1>2, <1>3 DEF Edges, SoundList
<1> HIDE DEF c
<1>5. /\ SoundBeam(b) /\ b.query = beam.query /\ b.ef = beam.ef /\ b.visited = beam.visited
      /\ b.result = beam.result /\ b.candidates = beam.candidates \ {c}
  BY <1>2, TakeOff
<1> HIDE DEF b
<1>6. /\ SoundBeam(beam')
      /\ beam'.query = beam.query /\ beam'.ef = beam.ef
      /\ beam'.visited = beam.visited \cup Range(s)
      /\ beam'.result \ beam'.candidates \subseteq beam.result \ (beam.candidates \ {c})
  <2>1. PICK r : r = FoldLeft(Relax, b, s)
    OBVIOUS
  <2> HIDE DEF s
  <2>2. /\ SoundBeam(r)
        /\ r.query = b.query /\ r.ef = b.ef
        /\ r.visited = b.visited \cup Range(s)
        /\ r.result \ r.candidates \subseteq b.result \ b.candidates
    BY <1>2, <1>4, <1>5, <2>1, RelaxAll
  <2>3. r = beam'
    BY <1>1, <2>1
  <2>4. QED
    BY <1>5, <2>2, <2>3
<1>7. /\ Nodes' = Nodes /\ New' = New /\ (\A l : OnLayer(l)' = OnLayer(l)) /\ GraphOK'
      /\ \A l : Unlinked(l)' <=> Unlinked(l)
  BY <1>1, GraphUnchanged DEF Idle
<1>8. TaskOK' /\ SearchOK' /\ AnswerOK'
  BY <1>1, <1>7 DEF IInv, TaskOK, SearchOK, AnswerOK, Idle, NoAnswer
<1>9. Expanded'
  <2> SUFFICES ASSUME NEW n \in beam'.result \ beam'.candidates
               PROVE  Range(layers[layer][n]) \subseteq beam'.visited
    BY <1>1 DEF Expanded
  <2>1. n \in beam.result \ (beam.candidates \ {c})
    BY <1>6
  <2>2. CASE n = c
    BY <1>6, <2>2
  <2>3. CASE n # c
    BY <1>1, <1>6, <2>1, <2>3 DEF IInv, BeamOK, Expanded
  <2>4. QED
    BY <2>2, <2>3
<1>10. BeamOK'
  <2>1. SoundBeam(beam)'
    BY <1>1, <1>6, SoundUnchanged
  <2>2. beam'.visited \subseteq OnLayer(layer)'
    <3>1. OnLayer(layer)' = OnLayer(layer)
      BY <1>1 DEF OnLayer, Nodes
    <3>2. QED
      BY <1>2, <1>4, <1>6, <3>1
  <2>3. beam'.query = task.query /\ beam'.ef = Width(task, layer)
    BY <1>1, <1>6, AtWork
  <2>4. QED
    BY <1>1, <1>9, <2>1, <2>2, <2>3 DEF BeamOK, Width, OnLayer, Nodes
<1>11. InsertOK'
  <2> SUFFICES ASSUME task.kind = "insert"
               PROVE  New \notin beam'.visited /\ InsertOK
    BY <1>1, <1>7 DEF InsertOK, Idle
  <2>1. InsertOK /\ New \notin beam.visited /\ layer \in 0 .. layer /\ Unlinked(layer)
    BY <1>1, AtWork DEF IInv, InsertOK
  <2>2. New \notin Range(s)
    BY <1>3, <2>1 DEF Unlinked
  <2>3. QED
    BY <1>6, <2>1, <2>2
<1>12. QED
  BY <1>7, <1>8, <1>10, <1>11 DEF IInv

(* A call goes on one layer down, from the closest node that it found.     *)
LEMMA DescendStep ==
  ASSUME IInv, Descend
  PROVE  IInv'
<1> DEFINE c == Closest(beam.query, beam.result)
           w == Width(task, layer - 1)
<1>1. /\ task # Idle /\ layer > task.floor /\ layer' = layer - 1
      /\ beam' = Beam(beam.query, {c}, w)
      /\ UNCHANGED <<points, node_levels, layers, entry_point, task, answer>>
  BY DEF Descend
<1>2. /\ Placed /\ layer \in Nat /\ layer \in 0 .. task.top /\ task.top \in Nat
      /\ beam.query \in Point /\ beam.query = task.query
      /\ beam.result \in SUBSET Nodes /\ beam.result # {} /\ beam.result \subseteq beam.visited
      /\ beam.visited \subseteq OnLayer(layer)
  BY <1>1, AtWork
<1>3. task.ef \in Nat \ {0} /\ task.floor \in Nat
  BY <1>1, <1>2 DEF IInv, TaskOK
<1>4. c \in beam.result /\ c \in Nodes
  <2>1. Stored /\ IsFiniteSet(beam.result) /\ beam.result \in SUBSET (DOMAIN points)
    BY <1>2, NodesFinite DEF Placed
  <2>2. Closest(beam.query, beam.result) \in beam.result
    BY <1>2, <2>1, Extremes
  <2>3. QED
    BY <1>2, <2>2
<1>5. w \in Nat \ {0}
  BY <1>3 DEF Width
<1> HIDE DEF c, w
<1>6. /\ SoundBeam(beam') /\ beam'.query = beam.query /\ beam'.ef = w
      /\ beam'.visited = {c} /\ beam'.result \ beam'.candidates = {}
  <2>1. Cardinality({c}) = 1
    BY FS_Singleton
  <2>2. {c} \in SUBSET Nodes /\ {c} # {} /\ Cardinality({c}) <= w
    BY <1>4, <1>5, <2>1
  <2>3. QED
    BY <1>1, <1>2, <1>5, <2>2, BeamStart
<1>7. layer' \in 0 .. task.top /\ layer' < layer
  BY <1>1, <1>2, <1>3
<1>8. /\ Nodes' = Nodes /\ New' = New /\ GraphOK'
      /\ \A l : Unlinked(l)' <=> Unlinked(l)
  BY <1>1, GraphUnchanged DEF Idle
<1>9. TaskOK' /\ SearchOK' /\ AnswerOK'
  BY <1>1, <1>7, <1>8 DEF IInv, TaskOK, SearchOK, AnswerOK, Idle, NoAnswer
<1>10. BeamOK'
  <2>1. SoundBeam(beam)'
    BY <1>1, <1>6, SoundUnchanged
  <2>2. beam'.visited \subseteq OnLayer(layer)'
    <3>1. c \in OnLayer(layer)
      BY <1>2, <1>4
    <3>2. node_levels[c] \in Nat
      BY <1>2, <1>4, LevelAssumption DEF Placed, Nodes, Level
    <3>3. c \in OnLayer(layer)'
      BY <1>1, <1>2, <1>7, <1>8, <3>1, <3>2 DEF OnLayer
    <3>4. QED
      BY <1>6, <3>3
  <2>3. beam'.query = task.query /\ beam'.ef = Width(task, layer')
    BY <1>1, <1>2, <1>6 DEF w
  <2>4. Expanded'
    BY <1>6 DEF Expanded
  <2>5. QED
    BY <1>1, <2>1, <2>2, <2>3, <2>4 DEF BeamOK, Width
<1>11. InsertOK'
  <2> SUFFICES ASSUME task.kind = "insert" PROVE InsertOK'
    BY <1>1 DEF InsertOK
  <2>1. InsertOK /\ New \notin beam.visited /\ \A l \in 0 .. layer : Unlinked(l)
    BY <1>1 DEF IInv, InsertOK
  <2>2. New \notin beam'.visited
    BY <1>2, <1>4, <1>6, <2>1
  <2>3. \A l \in 0 .. layer' : l \in 0 .. layer
    BY <1>2, <1>7
  <2>4. \A l \in 0 .. layer' : Unlinked(l)'
    BY <1>8, <2>1, <2>3
  <2>5. QED
    BY <1>1, <1>8, <2>1, <2>2, <2>4 DEF InsertOK, Idle
<1>12. QED
  BY <1>8, <1>9, <1>10, <1>11 DEF IInv

(* Nothing happens.                                                        *)
LEMMA Stutter ==
  ASSUME IInv, UNCHANGED vars
  PROVE  IInv'
<1>1. UNCHANGED <<points, node_levels, layers, entry_point, task, layer, beam, answer>>
  BY DEF vars
<1>2. Nodes' = Nodes /\ New' = New /\ \A l : OnLayer(l)' = OnLayer(l)
  BY <1>1 DEF Nodes, New, OnLayer
<1>3. GraphOK'
  <2>1. Placed' /\ Edges' = Edges /\ \A e, l, n : SoundList(e, l, n)' <=> SoundList(e, l, n)
    BY <1>1, <1>2 DEF IInv, GraphOK, Placed, Stored, Edges, SoundList
  <2>2. QED
    BY <1>1, <1>2, <2>1 DEF IInv, GraphOK
<1>4. TaskOK' /\ SearchOK' /\ AnswerOK'
  BY <1>1, <1>2 DEF IInv, TaskOK, SearchOK, AnswerOK
<1>5. BeamOK'
  <2>1. task # Idle => SoundBeam(beam)'
    BY <1>1, SoundUnchanged DEF IInv, BeamOK
  <2>2. task # Idle => OnLayer(layer)' = OnLayer(layer) /\ Expanded'
    BY <1>1, <1>2 DEF IInv, BeamOK, Expanded, OnLayer
  <2>3. QED
    BY <1>1, <2>1, <2>2 DEF IInv, BeamOK, Width
<1>6. InsertOK'
  <2>1. \A l : Unlinked(l)' <=> Unlinked(l)
    BY <1>1, <1>2 DEF Unlinked
  <2>2. QED
    BY <1>1, <1>2, <2>1 DEF IInv, InsertOK
<1>7. QED
  BY <1>3, <1>4, <1>5, <1>6 DEF IInv

(* A search begins at the entry point, on its layer, which is the top one. *)
LEMMA SearchStep ==
  ASSUME IInv, NEW q \in Queries, NEW k \in Limits, Search(q, k)
  PROVE  IInv'
<1>1. task = Idle /\ UNCHANGED <<points, node_levels, layers, entry_point, answer>>
  BY DEF Search
<1>2. CASE k = 0 \/ entry_point = NONE
  <2>1. UNCHANGED vars
    BY <1>1, <1>2 DEF Search, vars
  <2>2. QED
    BY <2>1, Stutter
<1>3. CASE k # 0 /\ entry_point # NONE
  <2> DEFINE t == [kind |-> "search", query |-> q, top |-> Cardinality(DOMAIN layers) - 1,
                   floor |-> 0, ef |-> IF ef_search > k THEN ef_search ELSE k, k |-> k]
  <2>1. /\ task' = t /\ layer' = t.top
        /\ beam' = Beam(q, {entry_point}, Width(t, t.top))
    BY <1>3 DEF Search, Begin
  <2>2. /\ Placed /\ entry_point \in Nodes /\ q \in Point /\ k \in Nat
        /\ node_levels[entry_point] \in Level /\ node_levels[entry_point] \in Nat
        /\ DOMAIN layers = 0 .. node_levels[entry_point]
    <3>1. Placed /\ entry_point \in Nodes
      BY <1>3 DEF IInv, GraphOK
    <3>2. node_levels[entry_point] \in Level
      BY <3>1 DEF Placed, Nodes
    <3>3. QED
      BY <1>1, <3>1, <3>2, QueryAssumption, LevelAssumption DEF IInv, GraphOK, Level
  <2>3. Cardinality(DOMAIN layers) - 1 = node_levels[entry_point]
    <3>1. PICK high : high = node_levels[entry_point]
      OBVIOUS
    <3>2. high \in Nat /\ high \in Int /\ 0 \in Int /\ DOMAIN layers = 0 .. high
      BY <2>2, <3>1
    <3>3. Cardinality(0 .. high) = high - 0 + 1
      BY <3>2, FS_Interval
    <3>4. QED
      BY <3>1, <3>2, <3>3
  <2>4. /\ task'.kind = "search" /\ task'.query = q /\ task'.floor = 0
        /\ task'.top = node_levels[entry_point] /\ task'.ef \in Nat \ {0}
        /\ layer' = node_levels[entry_point]
        /\ task'.k \in Nat /\ task'.ef >= task'.k /\ task'.ef >= ef_search
    BY <1>3, <2>1, <2>2, <2>3, ParamsAssumption
  <2>5. task' # Idle
    BY <2>4 DEF Idle
  <2>6. Width(task', layer') \in Nat \ {0}
    BY <2>4 DEF Width
  <2>7. beam' = Beam(q, {entry_point}, Width(task', layer'))
    BY <2>1
  <2> HIDE DEF t
  <2>8. /\ SoundBeam(beam') /\ beam'.query = q /\ beam'.ef = Width(task', layer')
        /\ beam'.visited = {entry_point} /\ beam'.result \ beam'.candidates = {}
    <3>1. PICK w : w = Width(task', layer')
      OBVIOUS
    <3>2. w \in Nat \ {0} /\ beam' = Beam(q, {entry_point}, w)
      BY <2>6, <2>7, <3>1
    <3>3. /\ {entry_point} \in SUBSET Nodes /\ {entry_point} # {}
          /\ Cardinality({entry_point}) <= w
      <4>1. Cardinality({entry_point}) = 1
        BY FS_Singleton
      <4>2. QED
        BY <2>2, <3>2, <4>1
    <3>4. Placed /\ q \in Point
      BY <2>2
    <3>5. /\ SoundBeam(beam') /\ beam'.query = q /\ beam'.ef = w
          /\ beam'.visited = {entry_point} /\ beam'.result \ beam'.candidates = {}
      BY <3>2, <3>3, <3>4, BeamStart
    <3>6. QED
      BY <3>1, <3>5
  <2>9. Nodes' = Nodes /\ layer' \in Nat
    BY <1>1, <2>2, <2>4 DEF Nodes
  <2>10. GraphOK'
    <3>1. Placed' /\ Edges' = Edges /\ \A e, l, n : SoundList(e, l, n)' <=> SoundList(e, l, n)
      BY <1>1, <2>2 DEF Placed, Stored, Edges, SoundList, OnLayer, Nodes
    <3>2. QED
      BY <1>1, <2>5, <2>9, <3>1 DEF IInv, GraphOK
  <2>11. TaskOK'
    BY <1>1, <2>2, <2>4, <2>9 DEF TaskOK
  <2>12. BeamOK'
    <3>1. SoundBeam(beam)'
      BY <1>1, <2>8, SoundUnchanged
    <3>2. beam'.visited \subseteq OnLayer(layer)'
      BY <1>1, <2>2, <2>4, <2>8, <2>9 DEF OnLayer
    <3>3. Expanded'
      BY <2>8 DEF Expanded
    <3>4. QED
      BY <2>4, <2>8, <3>1, <3>2, <3>3 DEF BeamOK, Width
  <2>13. InsertOK' /\ SearchOK'
    <3>1. Nodes = DOMAIN points
      BY DEF Search
    <3>2. QED
      BY <1>1, <2>2, <2>4, <2>9, <3>1 DEF InsertOK, SearchOK
  <2>14. AnswerOK'
    BY <1>1, <2>9 DEF IInv, AnswerOK, NoAnswer
  <2>15. QED
    BY <2>10, <2>11, <2>12, <2>13, <2>14 DEF IInv
<1>4. QED
  BY <1>2, <1>3

(* A new node: the graph has a place for it on each of its layers, and no  *)
(* edge; its insert begins at the entry point.                             *)
LEMMA InsertStep ==
  ASSUME IInv, NEW level \in Level, Insert(level)
  PROVE  IInv'
<1> DEFINE new == Len(node_levels) + 1
           entry == node_levels[entry_point]
<1>1. /\ task = Idle /\ new \in DOMAIN points
      /\ node_levels' = Append(node_levels, level) /\ layers' = Grown(level)
      /\ points' = points /\ answer' = answer
  BY DEF Insert
<1>2. Placed /\ Nodes = 1 .. Len(node_levels) /\ Len(node_levels) \in Nat /\ level \in Nat
  BY NodesFinite, LevelAssumption DEF IInv, GraphOK, Level
<1>3. /\ node_levels' \in Seq(Level) /\ New' = new /\ Nodes' = Nodes \cup {new}
      /\ new \notin Nodes /\ Nodes' = 1 .. new /\ new \in Nat
      /\ node_levels'[new] = level /\ \A n \in Nodes : node_levels'[n] = node_levels[n]
  <2>1. /\ Append(node_levels, level) \in Seq(Level)
        /\ Len(Append(node_levels, level)) = new
        /\ \A n \in 1 .. Len(node_levels) : Append(node_levels, level)[n] = node_levels[n]
        /\ Append(node_levels, level)[new] = level
    BY <1>2, Appended DEF Placed
  <2>2. Nodes' = 1 .. new
    BY <1>1, <2>1 DEF Nodes
  <2>3. QED
    BY <1>1, <1>2, <2>1, <2>2 DEF New
<1>4. Placed'
  BY <1>1, <1>2, <1>3 DEF Placed, Stored
<1>5. PICK top \in Level : DOMAIN layers = 0 .. top
  BY DEF IInv, GraphOK
<1> DEFINE highest == IF level > top THEN level ELSE top
<1>6. top \in Nat /\ highest \in Level /\ highest \in Nat
  BY <1>2, <1>5, LevelAssumption DEF Level
<1>7. DOMAIN layers' = 0 .. highest
  BY <1>1, <1>2, <1>5, <1>6 DEF Grown
<1>8. \A l \in DOMAIN layers' :
        layers'[l] = [n \in Nodes' |->
                        IF l \in DOMAIN layers /\ n \in Nodes THEN layers[l][n] ELSE << >>]
  BY <1>1, <1>3 DEF Grown
<1>9. \A l : /\ OnLayer(l) \subseteq OnLayer(l)' /\ OnLayer(l) \subseteq Nodes
             /\ \A n \in Nodes : n \in OnLayer(l)' <=> n \in OnLayer(l)
  BY <1>3 DEF OnLayer
<1> HIDE DEF new, highest
<1>10. ASSUME NEW l \in DOMAIN layers', NEW n \in Nodes'
       PROVE  layers'[l][n] \in Seq(Nodes') /\ SoundList(layers[l], l, n)'
              /\ New' \notin Range(layers'[l][n])
  <2>1. l \in Nat /\ Cap(l) \in Nat
    BY <1>6, <1>7, CapType
  <2>2. CASE l \in DOMAIN layers /\ n \in Nodes
    <3>1. layers'[l][n] = layers[l][n]
      BY <1>8, <2>2
    <3>2. layers[l] \in Edges /\ SoundList(layers[l], l, n)
      BY <2>2 DEF IInv, GraphOK
    <3>3. layers[l][n] \in Seq(Nodes) /\ Seq(Nodes) \subseteq Seq(Nodes')
      BY <1>3, <2>2, <3>2 DEF Edges
    <3>4. Range(layers'[l][n]) \subseteq OnLayer(l)' \ {n} /\ Distinct(layers'[l][n])
      BY <1>9, <3>1, <3>2 DEF SoundList
    <3>5. Len(layers'[l][n]) <= IF n \in OnLayer(l)' THEN Cap(l) ELSE 0
      BY <1>9, <2>2, <3>1, <3>2 DEF SoundList
    <3>6. New' \notin Range(layers'[l][n])
      BY <1>3, <1>9, <3>1, <3>2 DEF SoundList
    <3>7. QED
      BY <3>1, <3>3, <3>4, <3>5, <3>6 DEF SoundList
  <2>3. CASE ~(l \in DOMAIN layers /\ n \in Nodes)
    <3>1. layers'[l][n] = << >>
      BY <1>8, <2>3
    <3>2. << >> \in Seq(Nodes') /\ Len(<< >>) = 0 /\ Range(<< >>) = {} /\ Distinct(<< >>)
      BY DEF Range, Distinct
    <3>3. QED
      BY <2>1, <3>1, <3>2 DEF SoundList
  <2>4. QED
    BY <2>2, <2>3
<1>11. \A l \in DOMAIN layers' :
         layers'[l] \in Edges' /\ \A n \in Nodes' : SoundList(layers[l], l, n)'
  <2> TAKE l \in DOMAIN layers'
  <2>1. layers'[l] = [n \in Nodes' |-> layers'[l][n]]
    BY <1>8
  <2>2. QED
    BY <1>10, <2>1 DEF Edges
<1>12. \A l \in DOMAIN layers' : Unlinked(l)'
  <2> TAKE l \in DOMAIN layers'
  <2>1. layers'[l][new] = << >>
    BY <1>3, <1>8
  <2>2. \A n \in Nodes' : New' \notin Range(layers'[l][n])
    BY <1>10
  <2>3. QED
    BY <1>3, <2>1, <2>2 DEF Unlinked
<1>13. \A n \in Nodes' : node_levels'[n] \in DOMAIN layers'
  <2> TAKE n \in Nodes'
  <2>1. CASE n \in Nodes
    <3>1. node_levels[n] \in 0 .. top
      BY <1>5, <2>1 DEF IInv, GraphOK
    <3>2. QED
      BY <1>2, <1>3, <1>6, <1>7, <2>1, <3>1 DEF highest
  <2>2. CASE n = new
    BY <1>2, <1>3, <1>6, <1>7, <2>2 DEF highest
  <2>3. QED
    BY <1>3, <2>1, <2>2
<1>14. AnswerOK'
  BY <1>1, <1>3 DEF IInv, AnswerOK, NoAnswer
<1>15. CASE entry_point = NONE
  <2>1. entry_point' = new /\ UNCHANGED <<task, layer, beam>>
    BY <1>15 DEF Insert, new
  <2>2. Nodes = {} /\ DOMAIN layers = {0} /\ layer = 0
    BY <1>1, <1>15 DEF IInv, GraphOK
  <2>3. top = 0 /\ highest = level
    BY <1>2, <1>5, <1>6, <2>2 DEF highest
  <2>4. new \in Nodes' /\ new # NONE
    BY <1>2, <1>3 DEF NONE, new
  <2>5. GraphOK'
    BY <1>3, <1>4, <1>6, <1>7, <1>11, <1>13, <2>1, <2>2, <2>3, <2>4 DEF GraphOK
  <2>6. QED
    BY <1>1, <1>14, <2>1, <2>5 DEF IInv, TaskOK, BeamOK, InsertOK, SearchOK, Idle
<1>16. CASE entry_point # NONE
  <2> DEFINE t == [kind |-> "insert", query |-> points[new], top |-> entry,
                   floor |-> IF level < entry THEN level ELSE entry, ef |-> ef_construction]
  <2>1. /\ task' = t /\ layer' = t.top
        /\ beam' = Beam(points[new], {entry_point}, Width(t, t.top))
        /\ entry_point' = entry_point
    BY <1>16 DEF Insert, Begin, new
  <2>2. /\ entry_point \in Nodes /\ Nodes # {} /\ DOMAIN layers = 0 .. entry
        /\ entry \in Level /\ entry \in Nat
    <3>1. entry_point \in Nodes /\ Nodes # {} /\ DOMAIN layers = 0 .. entry
      BY <1>1, <1>16 DEF IInv, GraphOK
    <3>2. entry \in Level
      BY <1>2, <3>1 DEF Placed, Nodes
    <3>3. QED
      BY <3>1, <3>2, LevelAssumption DEF Level
  <2>3. top = entry
    BY <1>5, <1>6, <2>2
  <2>4. points[new] \in Point /\ points'[new] \in Point
    BY <1>1, <1>2 DEF Placed, Stored
  <2>5. /\ task'.kind = "insert" /\ task'.query = points[new] /\ task'.top = entry
        /\ task'.ef = ef_construction /\ ef_construction \in Nat \ {0}
        /\ task'.floor \in 0 .. entry /\ layer' = entry
        /\ task'.floor = IF level < entry THEN level ELSE entry
    BY <1>2, <2>1, <2>2, ParamsAssumption
  <2>6. task' # Idle
    BY <2>5 DEF Idle
  <2>7. Width(task', layer') \in Nat \ {0}
    BY <2>5 DEF Width
  <2>8. beam' = Beam(points[new], {entry_point}, Width(task', layer'))
    BY <2>1
  <2> HIDE DEF t, entry
  <2>9. /\ SoundBeam(beam)' /\ beam'.query = points[new] /\ beam'.ef = Width(task', layer')
        /\ beam'.visited = {entry_point} /\ beam'.result \ beam'.candidates = {}
    <3>1. PICK w : w = Width(task', layer')
      OBVIOUS
    <3>2. PICK q : q = points[new]
      OBVIOUS
    <3>7. /\ Placed /\ q \in Point /\ w \in Nat \ {0}
          /\ beam' = Beam(q, {entry_point}, w)
      BY <1>2, <2>4, <2>7, <2>8, <3>1, <3>2
    <3>3. /\ {entry_point} \in SUBSET Nodes /\ {entry_point} # {}
          /\ Cardinality({entry_point}) <= w
      <4>1. Cardinality({entry_point}) = 1
        BY FS_Singleton
      <4>2. QED
        BY <2>2, <3>7, <4>1
    <3>4. /\ SoundBeam(beam') /\ beam'.query = q /\ beam'.ef = w
          /\ beam'.visited = {entry_point} /\ beam'.result \ beam'.candidates = {}
      <4>1. PICK starts : starts = {entry_point}
        OBVIOUS
      <4>2. PICK r : r = Beam(q, starts, w)
        OBVIOUS
      <4>3. starts \in SUBSET Nodes /\ starts # {} /\ Cardinality(starts) <= w
        BY <3>3, <4>1
      <4>4. /\ SoundBeam(r) /\ r.query = q /\ r.ef = w
            /\ r.visited = starts /\ r.result \ r.candidates = {}
        BY <3>7, <4>2, <4>3, BeamStart
      <4>5. QED
        BY <3>7, <4>1, <4>2, <4>4
    <3>5. SoundBeam(beam)'
      <4>1. beam' \in Beams'
        BY <1>3, <3>4 DEF SoundBeam, Beams
      <4>2. QED
        BY <1>1, <3>4, <4>1 DEF SoundBeam, BestOf, To
    <3>6. QED
      BY <3>1, <3>2, <3>4, <3>5
  <2>10. GraphOK'
    <3>1. entry_point' \in Nodes' /\ entry_point' # NONE /\ Nodes' # {}
      BY <1>3, <1>16, <2>1, <2>2
    <3>2. QED
      BY <1>4, <1>6, <1>7, <1>11, <1>13, <2>6, <3>1 DEF GraphOK
  <2>11. TaskOK'
    <3>1. entry_point' \in Nodes' /\ node_levels'[entry_point'] = entry
      BY <1>3, <2>1, <2>2 DEF entry
    <3>2. QED
      BY <2>2, <2>4, <2>5, <3>1 DEF TaskOK
  <2>12. BeamOK'
    <3>1. beam'.visited \subseteq OnLayer(layer)'
      <4>1. entry_point \in OnLayer(layer)'
        BY <1>3, <2>2, <2>5 DEF OnLayer, entry
      <4>2. QED
        BY <2>9, <4>1
    <3>2. Expanded'
      BY <2>9 DEF Expanded
    <3>3. QED
      BY <2>5, <2>9, <3>1, <3>2 DEF BeamOK, Width
  <2>13. InsertOK'
    <3>1. entry_point' # New' /\ New' \notin beam'.visited
      BY <1>3, <2>1, <2>2, <2>9
    <3>2. \A l \in 0 .. layer' : Unlinked(l)'
      <4>1. 0 .. layer' \subseteq DOMAIN layers'
        BY <1>2, <1>6, <1>7, <2>2, <2>3, <2>5 DEF highest
      <4>2. QED
        BY <1>12, <4>1
    <3>3. /\ node_levels'[New'] = level
          /\ DOMAIN layers' = 0 .. (IF level > task'.top THEN level ELSE task'.top)
      BY <1>3, <1>7, <2>3, <2>5 DEF highest
    <3>4. QED
      BY <2>5, <3>1, <3>2, <3>3 DEF InsertOK
  <2>14. SearchOK'
    BY <2>5 DEF SearchOK
  <2>15. QED
    BY <1>14, <2>10, <2>11, <2>12, <2>13, <2>14 DEF IInv
<1>17. QED
  BY <1>15, <1>16

(* What an insert finds when it links a layer, and the edges that it makes *)
(* there: nothing but that layer's edges changes.                          *)
LEMMA Linking ==
  ASSUME IInv, Connect, NEW selected, selected = Select(beam.query, beam.result, m)
  PROVE  /\ layer \in Nat /\ layer \in DOMAIN layers /\ layer \in 0 .. task.top
         /\ beam.query \in Point /\ task.top \in Nat /\ task.top \in Level
         /\ entry_point \in Nodes /\ task.top = node_levels[entry_point]
         /\ New \in Nodes /\ New \in OnLayer(layer)
         /\ \A n \in Nodes : node_levels[n] \in Nat
         /\ selected \in Seq(Nodes) /\ Distinct(selected)
         /\ Len(selected) <= m /\ Len(selected) > 0
         /\ Range(selected) \subseteq OnLayer(layer) \ {New}
         /\ Unlinked(layer)
         /\ DOMAIN layers' = DOMAIN layers
         /\ \A l \in DOMAIN layers \ {layer} : layers'[l] = layers[l]
         /\ layers'[layer] \in Edges /\ \A n \in Nodes : SoundList(layers'[layer], layer, n)
         /\ Small(layer) => BothWays(layers'[layer], layers[layer], New, selected)
<1> DEFINE new == New
           r == LinkEach(layers[layer], layer, new, selected)
<1>1. /\ task # Idle /\ task.kind = "insert" /\ layer <= task.floor
      /\ UNCHANGED <<points, node_levels, answer>>
  BY DEF Connect
<1>2. layers' = [layers EXCEPT ![layer] = r]
  BY DEF Connect, LinkEach, New
<1>3. /\ Placed /\ layer \in Nat /\ layer \in DOMAIN layers /\ layers[layer] \in Edges
      /\ \A n \in Nodes : SoundList(layers[layer], layer, n)
      /\ beam.query \in Point /\ beam.query = task.query
      /\ beam.result \in SUBSET Nodes /\ beam.result # {} /\ beam.result \subseteq beam.visited
      /\ beam.visited \subseteq OnLayer(layer) /\ layer \in 0 .. task.top /\ task.top \in Nat
  BY <1>1, AtWork
<1>4. /\ entry_point \in Nodes /\ task.top = node_levels[entry_point] /\ task.top \in Level
      /\ task.ef \in Nat \ {0} /\ task.floor \in 0 .. task.top
      /\ entry_point # New
      /\ task.floor = IF node_levels[New] < task.top THEN node_levels[New] ELSE task.top
      /\ New \notin beam.visited
      /\ \A l \in 0 .. layer : Unlinked(l)
  BY <1>1 DEF IInv, TaskOK, InsertOK
<1>5. /\ new \in Nodes /\ new \in Nat /\ node_levels[new] \in Level /\ node_levels[new] \in Nat
      /\ \A n \in Nodes : node_levels[n] \in Nat
  <2>1. Nodes = 1 .. Len(node_levels) /\ Len(node_levels) \in Nat
    BY <1>3, NodesFinite
  <2>2. new \in Nodes /\ new \in Nat
    BY <1>4, <2>1 DEF New
  <2>3. \A n \in Nodes : node_levels[n] \in Level
    BY <1>3 DEF Placed, Nodes
  <2>4. QED
    BY <2>2, <2>3, LevelAssumption DEF Level
<1>6. new \in OnLayer(layer)
  <2>1. node_levels[new] >= layer
    BY <1>1, <1>3, <1>4, <1>5
  <2>2. QED
    BY <1>5, <2>1 DEF OnLayer
<1>7. /\ selected \in Seq(Nodes) /\ Distinct(selected) /\ Len(selected) <= m
      /\ Range(selected) \subseteq beam.result /\ Len(selected) > 0
  <2>1. PICK S : S = beam.result
    OBVIOUS
  <2>2. PICK q : q = beam.query
    OBVIOUS
  <2>3. PICK s : s = Select(q, S, m)
    OBVIOUS
  <2>4. m \in Nat \ {0}
    BY ParamsAssumption
  <2>5. q \in Point /\ S \in SUBSET Nodes /\ S # {} /\ m \in Nat /\ m > 0
    BY <1>3, <2>1, <2>2, <2>4
  <2>6. /\ s \in Seq(Nodes) /\ Distinct(s) /\ Len(s) <= m /\ Range(s) \subseteq S
        /\ Len(s) > 0
    BY <1>3, <2>3, <2>5, Selected
  <2>7. QED
    BY <2>1, <2>2, <2>3, <2>6
<1>8. Range(selected) \subseteq OnLayer(layer) \ {new}
  BY <1>3, <1>4, <1>7
<1>9. /\ r \in Edges /\ \A n \in Nodes : SoundList(r, layer, n)
      /\ Small(layer) => BothWays(r, layers[layer], new, selected)
  <2>1. layers[layer][new] = << >> /\ \A n \in Nodes : new \notin Range(layers[layer][n])
    BY <1>3, <1>4 DEF Unlinked
  <2>2. PICK e : e = layers[layer]
    OBVIOUS
  <2>3. PICK f : f = LinkEach(e, layer, new, selected)
    OBVIOUS
  <2>4. /\ layer \in Nat /\ new \in OnLayer(layer) /\ e \in Edges
        /\ \A n \in Nodes : SoundList(e, layer, n) /\ new \notin Range(e[n])
        /\ e[new] = << >>
    BY <1>3, <1>6, <2>1, <2>2
  <2> HIDE DEF new
  <2>5. f \in Edges /\ \A n \in Nodes : SoundList(f, layer, n)
    BY <1>3, <1>7, <1>8, <2>3, <2>4, LinkAll
  <2>6. Small(layer) => BothWays(f, e, new, selected)
    <3>1. PICK l : l = layer
      OBVIOUS
    <3>2. PICK s : s = selected
      OBVIOUS
    <3>3. /\ l \in Nat /\ new \in OnLayer(l) /\ e \in Edges
          /\ \A n \in Nodes : SoundList(e, l, n) /\ new \notin Range(e[n])
          /\ e[new] = << >> /\ f = LinkEach(e, l, new, s)
      BY <2>3, <2>4, <3>1, <3>2
    <3>4. /\ s \in Seq(Nodes) /\ Distinct(s) /\ Len(s) <= m
          /\ Range(s) \subseteq OnLayer(l) \ {new} /\ Placed
      BY <1>3, <1>7, <1>8, <3>1, <3>2
    <3>5. Small(l) => BothWays(f, e, new, s)
      BY <3>3, <3>4, LinkAll
    <3>6. QED
      BY <3>1, <3>2, <3>5
  <2>7. QED
    BY <2>2, <2>3, <2>5, <2>6
<1> HIDE DEF r
<1>10. /\ DOMAIN layers' = DOMAIN layers /\ layers'[layer] = r
       /\ \A l \in DOMAIN layers \ {layer} : layers'[l] = layers[l]
  BY <1>2, <1>3
<1>11. QED
  BY <1>3, <1>4, <1>5, <1>6, <1>7, <1>8, <1>9, <1>10

(* One layer of an insert: the layer below begins with what was linked, or *)
(* the insert ends.                                                        *)
LEMMA ConnectStep ==
  ASSUME IInv, Connect
  PROVE  IInv'
<1> DEFINE new == New
           selected == Select(beam.query, beam.result, m)
<1>1. /\ task # Idle /\ task.kind = "insert" /\ layer <= task.floor
      /\ UNCHANGED <<points, node_levels, answer>>
  BY DEF Connect
<1>3. /\ Placed /\ layer \in Nat /\ beam.query \in Point /\ beam.query = task.query
      /\ layer \in 0 .. task.top /\ task.top \in Nat
  BY <1>1, AtWork
<1>4. /\ entry_point \in Nodes /\ task.top = node_levels[entry_point] /\ task.top \in Level
      /\ task.ef \in Nat \ {0} /\ task.floor \in 0 .. task.top
      /\ entry_point # New /\ task.ef = ef_construction
      /\ DOMAIN layers = 0 .. (IF node_levels[New] > task.top THEN node_levels[New] ELSE task.top)
      /\ \A l \in 0 .. layer : Unlinked(l)
  BY <1>1 DEF IInv, TaskOK, InsertOK
<1>5. /\ new \in Nodes /\ \A n \in Nodes : node_levels[n] \in Nat
      /\ selected \in Seq(Nodes) /\ Distinct(selected)
      /\ Len(selected) <= m /\ Len(selected) > 0
      /\ Range(selected) \subseteq OnLayer(layer) \ {new}
      /\ DOMAIN layers' = DOMAIN layers
      /\ \A l \in DOMAIN layers \ {layer} : layers'[l] = layers[l]
      /\ layers'[layer] \in Edges /\ \A n \in Nodes : SoundList(layers'[layer], layer, n)
  BY Linking
<1> HIDE DEF selected
<1>11. Nodes' = Nodes /\ New' = New /\ \A l : OnLayer(l)' = OnLayer(l)
  BY <1>1 DEF Nodes, New, OnLayer
<1>12. Placed'
  BY <1>1, <1>3, <1>11 DEF Placed, Stored
<1>13. \A l \in DOMAIN layers' :
         layers'[l] \in Edges' /\ \A n \in Nodes' : SoundList(layers[l], l, n)'
  <2> TAKE l \in DOMAIN layers'
  <2>1. layers'[l] \in Edges /\ \A n \in Nodes : SoundList(layers'[l], l, n)
    BY <1>5 DEF IInv, GraphOK
  <2>2. QED
    BY <1>11, <2>1 DEF Edges, SoundList
<1>14. /\ \E top \in Level : DOMAIN layers' = 0 .. top
       /\ \A n \in Nodes' : node_levels'[n] \in DOMAIN layers'
       /\ Nodes' # {}
  BY <1>1, <1>5, <1>11 DEF IInv, GraphOK
<1>15. AnswerOK' /\ SearchOK'
  <2>1. AnswerOK'
    BY <1>1, <1>11 DEF IInv, AnswerOK, NoAnswer
  <2>2. task' = task \/ task' = Idle
    BY DEF Connect, Finish
  <2>3. QED
    BY <1>1, <2>1, <2>2 DEF SearchOK
<1>16. CASE layer = 0
  <2>1. task' = Idle /\ layer' = 0 /\ entry_point' = Promoted(new)
    BY <1>16 DEF Connect, Finish, New
  <2>2. /\ entry_point' \in Nodes /\ entry_point' # NONE
        /\ DOMAIN layers' = 0 .. node_levels[entry_point']
    <3>1. \A n \in Nodes : n # NONE
      BY <1>3, NodesFinite DEF NONE
    <3>2. CASE node_levels[new] > node_levels[entry_point]
      BY <1>4, <1>5, <2>1, <3>1, <3>2 DEF Promoted
    <3>3. CASE ~(node_levels[new] > node_levels[entry_point])
      BY <1>4, <1>5, <2>1, <3>1, <3>3 DEF Promoted
    <3>4. QED
      BY <3>2, <3>3
  <2>3. GraphOK'
    BY <1>1, <1>11, <1>12, <1>13, <1>14, <2>1, <2>2 DEF GraphOK
  <2>4. QED
    BY <1>15, <2>1, <2>3 DEF IInv, TaskOK, BeamOK, InsertOK
<1>17. CASE layer # 0
  <2>1. /\ layer' = layer - 1 /\ beam' = Beam(beam.query, Range(selected), task.ef)
        /\ task' = task /\ entry_point' = entry_point
    BY <1>17 DEF Connect, selected
  <2>2. layer' \in 0 .. task.top /\ layer' \in Nat /\ layer' < layer /\ layer' <= task.floor
    BY <1>1, <1>3, <1>4, <1>17, <2>1
  <2>3. /\ SoundBeam(beam') /\ beam'.query = beam.query /\ beam'.ef = task.ef
        /\ beam'.visited = Range(selected) /\ beam'.result \ beam'.candidates = {}
    <3>1. PICK starts : starts = Range(selected)
      OBVIOUS
    <3>2. PICK q : q = beam.query
      OBVIOUS
    <3>3. PICK w : w = task.ef
      OBVIOUS
    <3>4. PICK b : b = Beam(q, starts, w)
      OBVIOUS
    <3>5. /\ starts \in SUBSET Nodes /\ Cardinality(starts) = Len(selected)
          /\ starts # {} /\ Len(selected) \in Nat
      <4>1. 1 \in 1 .. Len(selected) /\ Len(selected) \in Nat
        BY <1>5
      <4>2. QED
        BY <1>5, <3>1, <4>1, RangeOf
    <3>6. Placed /\ q \in Point /\ w \in Nat \ {0} /\ Cardinality(starts) <= w
      BY <1>3, <1>4, <1>5, <3>2, <3>3, <3>5, ParamsAssumption
    <3>7. /\ SoundBeam(b) /\ b.query = q /\ b.ef = w
          /\ b.visited = starts /\ b.result \ b.candidates = {}
      BY <3>4, <3>5, <3>6, BeamStart
    <3>8. QED
      BY <2>1, <3>1, <3>2, <3>3, <3>4, <3>7
  <2>4. GraphOK'
    BY <1>1, <1>4, <1>11, <1>12, <1>13, <1>14, <2>1 DEF IInv, GraphOK
  <2>5. TaskOK'
    BY <1>1, <1>11, <2>1, <2>2 DEF IInv, TaskOK
  <2>6. BeamOK'
    <3>1. SoundBeam(beam)'
      BY <1>1, <2>3, SoundUnchanged
    <3>2. beam'.visited \subseteq OnLayer(layer)'
      <4>1. ASSUME NEW n \in OnLayer(layer) PROVE n \in OnLayer(layer')
        <5>1. n \in Nodes /\ node_levels[n] >= layer
          BY DEF OnLayer
        <5>2. node_levels[n] >= layer'
          BY <1>3, <1>5, <2>2, <5>1
        <5>3. QED
          BY <5>1, <5>2 DEF OnLayer
      <4>2. QED
        BY <1>1, <1>5, <1>11, <2>3, <4>1 DEF OnLayer
    <3>3. Width(task, layer') = task.ef
      BY <1>4, <2>2 DEF Width
    <3>4. Expanded'
      BY <2>3 DEF Expanded
    <3>5. QED
      BY <1>3, <2>1, <2>3, <3>1, <3>2, <3>3, <3>4 DEF BeamOK, Width
  <2>7. InsertOK'
    <3>1. New' \notin beam'.visited
      BY <1>5, <1>11, <2>3
    <3>2. \A l \in 0 .. layer' : Unlinked(l)'
      <4> TAKE l \in 0 .. layer'
      <4>1. l \in 0 .. layer /\ l # layer /\ l \in DOMAIN layers
        BY <1>3, <1>4, <1>5, <2>2
      <4>2. Unlinked(l) /\ layers'[l] = layers[l]
        BY <1>4, <1>5, <4>1
      <4>3. QED
        BY <1>11, <4>2 DEF Unlinked
    <3>3. QED
      BY <1>1, <1>4, <1>5, <1>11, <2>1, <3>1, <3>2 DEF IInv, InsertOK
  <2>8. QED
    BY <1>15, <2>4, <2>5, <2>6, <2>7 DEF IInv
<1>18. QED
  BY <1>16, <1>17

-----------------------------------------------------------------------------
(* The answer of a search.                                                 *)
PushEach(q, k, s) == FoldLeft(LAMBDA h, n : Push(h, k, Item(q, n)), {}, s)

(* It pushes position by position.                                         *)
LEMMA PushFold ==
  ASSUME NEW q, NEW k, NEW S, NEW s \in Seq(S), NEW V, {} \in V,
         \A v \in V, n \in Range(s) : Push(v, k, Item(q, n)) \in V
  PROVE  \E h \in [0 .. Len(s) -> V] :
           /\ h[0] = {}
           /\ \A i \in 1 .. Len(s) : h[i] = Push(h[i - 1], k, Item(q, s[i]))
           /\ h[Len(s)] = PushEach(q, k, s)
<1> DEFINE N == Len(s)
           op == [i \in 1 .. N |-> [v \in V |-> Push(v, k, Item(q, s[i]))]]
           iter[d \in SUBSET DOMAIN s] ==
             IF d = {} THEN {} ELSE Push(iter[d \ {Max(d)}], k, Item(q, s[Max(d)]))
<1>1. N \in Nat /\ DOMAIN s = 1 .. N
  OBVIOUS
<1>2. PushEach(q, k, s) = iter[DOMAIN s]
  BY DEF PushEach, FoldLeft, MapThenFoldSet
<1>3. \A v \in V, i \in 1 .. N : Push(v, k, Item(q, s[i])) \in V
  BY RangeOf
<1>4. \A v \in V, i \in 1 .. N : op[i][v] = Push(v, k, Item(q, s[i])) /\ op[i][v] \in V
  BY <1>3
<1> HIDE DEF op, N
<1>5. PICK g \in [SUBSET (1 .. N) -> V] : Recurs(g, N, {}, op)
  <2>1. \A v \in V, i \in 1 .. N : op[i][v] \in V
    BY <1>4
  <2>2. QED
    BY <1>1, <2>1, FoldExists, Zenon
<1>6. \A d \in SUBSET (1 .. N) : d # {} => Max(d) \in 1 .. N
  BY <1>1, MaxInside
<1>7. g = [d \in SUBSET DOMAIN s |->
             IF d = {} THEN {} ELSE Push(g[d \ {Max(d)}], k, Item(q, s[Max(d)]))]
  <2>1. ASSUME NEW d \in SUBSET (1 .. N), d # {}
        PROVE  g[d] = Push(g[d \ {Max(d)}], k, Item(q, s[Max(d)]))
    <3>1. g[d \ {Max(d)}] \in V
      BY <2>1
    <3>2. QED
      BY <1>4, <1>5, <1>6, <2>1, <3>1 DEF Recurs
  <2>2. \A d \in SUBSET (1 .. N) :
          g[d] = IF d = {} THEN {} ELSE Push(g[d \ {Max(d)}], k, Item(q, s[Max(d)]))
    BY <1>5, <2>1 DEF Recurs
  <2>3. QED
    BY <1>1, <2>2
<1>8. iter = [d \in SUBSET DOMAIN s |->
                IF d = {} THEN {} ELSE Push(iter[d \ {Max(d)}], k, Item(q, s[Max(d)]))]
  BY <1>7 DEF iter
<1> HIDE DEF iter
<1>9. RecursIn(iter, N, V, {}, op)
  BY <1>1, <1>4, <1>6, <1>8 DEF RecursIn
<1>10. PICK h \in [0 .. N -> V] : Follows(h, N, {}, op) /\ h[N] = iter[1 .. N]
  <2>1. \A v \in V, i \in 1 .. N : op[i][v] \in V
    BY <1>4
  <2>2. PICK base : base = {}
    OBVIOUS
  <2>3. base \in V /\ RecursIn(iter, N, V, base, op)
    BY <1>9, <2>2
  <2>4. \E h \in [0 .. N -> V] : Follows(h, N, base, op) /\ h[N] = iter[1 .. N]
    BY <1>1, <2>1, <2>3, FoldChain
  <2>5. QED
    BY <2>2, <2>4
<1>11. h[0] = {} /\ \A i \in 1 .. N : h[i] = Push(h[i - 1], k, Item(q, s[i]))
  <2>1. \A i \in 1 .. N : i - 1 \in 0 .. N
    BY <1>1
  <2>2. QED
    BY <1>4, <1>10, <2>1 DEF Follows
<1>12. QED
  BY <1>1, <1>2, <1>10, <1>11 DEF N

ItemsOf(q, S) == {Item(q, n) : n \in S}

(* Pushing the nodes of a list without repetition one by one keeps the     *)
(* best k of them.                                                         *)
LEMMA PushAll ==
  ASSUME Placed, NEW q \in Point, NEW k \in Nat, NEW s \in Seq(Nodes), Distinct(s),
         NEW r, r = PushEach(q, k, s)
  PROVE  KeepsBest(r, k, ItemsOf(q, Range(s)))
<1> DEFINE V == SUBSET ItemsOf(q, Range(s))
           N == Len(s)
           Seen(i) == {Item(q, s[j]) : j \in 1 .. i}
<1>1. Range(s) \subseteq Nodes /\ (\A i \in 1 .. N : s[i] \in Range(s)) /\ N \in Nat
      /\ \A x \in Range(s) : \E i \in 1 .. N : x = s[i]
  BY RangeOf
<1>2. \A n \in Nodes : Item(q, n) \in Items /\ Item(q, n).id = n
  <2> TAKE n \in Nodes
  <2>1. n \in DOMAIN points /\ To(q, n) \in Nat /\ n \in Nat
    BY CloserOrder DEF Placed
  <2>2. QED
    BY <2>1 DEF Item, Items
<1>3. PICK h \in [0 .. N -> V] :
        /\ h[0] = {}
        /\ \A i \in 1 .. N : h[i] = Push(h[i - 1], k, Item(q, s[i]))
        /\ h[N] = r
  <2>1. {} \in V
    OBVIOUS
  <2>2. \A v \in V, n \in Range(s) : Push(v, k, Item(q, n)) \in V
    BY DEF Push, ItemsOf
  <2> HIDE DEF V, N
  <2>3. PICK h \in [0 .. Len(s) -> V] :
          /\ h[0] = {}
          /\ \A i \in 1 .. Len(s) : h[i] = Push(h[i - 1], k, Item(q, s[i]))
          /\ h[Len(s)] = PushEach(q, k, s)
    BY <2>1, <2>2, PushFold
  <2>4. QED
    BY <2>3 DEF N
<1> HIDE DEF V, N
<1> DEFINE T == {i \in 0 .. N : /\ h[i] \in SUBSET Items /\ IsFiniteSet(h[i]) /\ Topped(h[i])
                                /\ KeepsBest(h[i], k, Seen(i))}
<1>4. 0 \in T
  <2>1. Cardinality({}) = 0 /\ IsFiniteSet({})
    BY FS_EmptySet
  <2>2. KeepsBest({}, k, Seen(0))
    BY <2>1 DEF KeepsBest
  <2>3. {} \in SUBSET Items /\ Topped({}) /\ 0 \in 0 .. N
    BY <1>1 DEF Topped
  <2> HIDE DEF Seen
  <2>4. QED
    BY <1>3, <2>1, <2>2, <2>3
<1>5. ASSUME NEW i \in 0 .. N - 1, i \in T PROVE i + 1 \in T
  <2> DEFINE item == Item(q, s[i + 1])
  <2>1. i + 1 \in 1 .. N /\ (i + 1) - 1 = i /\ i \in 0 .. N /\ i + 1 \in 0 .. N /\ i \in Nat
    BY <1>1
  <2>2. h[i + 1] = Push(h[i], k, item) /\ item \in Items
    BY <1>1, <1>2, <1>3, <2>1
  <2>3. \A j \in 1 .. i : j \in 1 .. N /\ s[j] \in Nodes /\ s[j] # s[i + 1]
    <3> TAKE j \in 1 .. i
    <3>1. j \in 1 .. N /\ j # i + 1
      BY <1>1, <2>1
    <3>2. QED
      BY <1>1, <2>1, <3>1 DEF Distinct, N
  <2>4. Seen(i) \in SUBSET Items /\ \A j \in Seen(i) : j.id # item.id
    BY <1>1, <1>2, <2>1, <2>3
  <2>5. Seen(i + 1) = Seen(i) \cup {item}
    BY <2>1
  <2>6. /\ h[i] \in SUBSET Items /\ IsFiniteSet(h[i]) /\ Topped(h[i])
        /\ KeepsBest(h[i], k, Seen(i))
    BY <1>5
  <2> HIDE DEF item, Seen
  <2>7. /\ Push(h[i], k, item) \in SUBSET Items
        /\ IsFiniteSet(Push(h[i], k, item))
        /\ Topped(Push(h[i], k, item))
        /\ KeepsBest(Push(h[i], k, item), k, Seen(i) \cup {item})
    <3>1. PICK S : S = Seen(i)
      OBVIOUS
    <3>2. PICK H : H = h[i]
      OBVIOUS
    <3>3. QED
      BY <2>2, <2>4, <2>6, <3>1, <3>2, PushKeepsBest
  <2>8. QED
    BY <2>1, <2>2, <2>5, <2>7
<1> HIDE DEF T
<1>6. N \in T
  <2>1. \A i \in 0 .. N - 1 : i \in T => i + 1 \in T
    BY <1>5
  <2>2. N \in 0 .. N
    BY <1>1
  <2>3. \A i \in 0 .. N : i \in T
    BY <1>1, <1>4, <2>1, Climb
  <2>4. QED
    BY <2>2, <2>3
<1>7. Seen(N) = ItemsOf(q, Range(s))
  BY <1>1 DEF ItemsOf
<1> HIDE DEF Seen
<1>8. QED
  BY <1>3, <1>6, <1>7 DEF T

(* What an answer holds: the best k of what was found and passes.          *)
LEMMA Answered ==
  ASSUME IInv, NEW matching \in SUBSET Nodes, Answer(matching)
  PROVE  /\ answer'.query = beam.query /\ answer'.k = task.k /\ answer'.matching = matching
         /\ task.k \in Nat =>
              KeepsBest(answer'.heap, task.k, ItemsOf(beam.query, beam.result \cap matching))
<1> DEFINE S == beam.result \cap matching
           hits == Ascending(beam.query, S)
<1>1. task # Idle
  BY DEF Answer
<1>2. answer' = [query |-> beam.query, k |-> task.k, matching |-> matching,
                 heap |-> PushEach(beam.query, task.k, hits)]
  BY DEF Answer, PushEach
<1>3. Placed /\ beam.query \in Point /\ S \in SUBSET Nodes
  BY <1>1, AtWork
<1>4. IsFiniteSet(S) /\ S \in SUBSET (DOMAIN points) /\ Stored
  BY <1>3, NodesFinite DEF Placed
<1>5. hits \in Seq(Nodes) /\ Distinct(hits) /\ Range(hits) = S
  <2>1. PICK q : q = beam.query
    OBVIOUS
  <2>2. PICK a : a = Ascending(q, S)
    OBVIOUS
  <2>3. q \in Point
    BY <1>3, <2>1
  <2> HIDE DEF S
  <2>4. a \in Seq(S) /\ Distinct(a) /\ Range(a) = S
    BY <1>4, <2>2, <2>3, AscendingList
  <2>5. a \in Seq(Nodes)
    BY <1>3, <2>4
  <2>6. QED
    BY <2>1, <2>2, <2>4, <2>5
<1> HIDE DEF hits
<1>6. ASSUME task.k \in Nat
      PROVE  KeepsBest(PushEach(beam.query, task.k, hits), task.k, ItemsOf(beam.query, S))
  <2>1. PICK q : q = beam.query
    OBVIOUS
  <2>2. PICK k : k = task.k
    OBVIOUS
  <2>3. PICK r : r = PushEach(q, k, hits)
    OBVIOUS
  <2>4. q \in Point /\ k \in Nat
    BY <1>3, <1>6, <2>1, <2>2
  <2>5. KeepsBest(r, k, ItemsOf(q, Range(hits)))
    BY <1>3, <1>5, <2>3, <2>4, PushAll
  <2>6. QED
    BY <1>5, <2>1, <2>2, <2>3, <2>5
<1>7. QED
  BY <1>2, <1>6

(* A search ends and leaves its answer.                                    *)
LEMMA AnswerStep ==
  ASSUME IInv, NEW filter \in Filters, Answer(filter \cap Nodes)
  PROVE  IInv'
<1>1. /\ task # Idle /\ task.kind = "search" /\ layer = 0
      /\ task' = Idle /\ layer' = 0
      /\ UNCHANGED <<points, node_levels, layers, entry_point>>
  BY DEF Answer, Finish
<1>2. task.k \in Nat /\ DOMAIN layers = 0 .. task.top
  BY <1>1 DEF IInv, SearchOK
<1>3. Placed /\ beam.query \in Point /\ beam.result \in SUBSET Nodes
  BY <1>1, AtWork
<1>4. Nodes' = Nodes /\ \A l : OnLayer(l)' = OnLayer(l)
  BY <1>1 DEF Nodes, OnLayer
<1>5. GraphOK'
  <2>1. Placed' /\ Edges' = Edges /\ \A e, l, n : SoundList(e, l, n)' <=> SoundList(e, l, n)
    BY <1>1, <1>3, <1>4 DEF Placed, Stored, Edges, SoundList
  <2>2. entry_point \in Nodes /\ DOMAIN layers = 0 .. node_levels[entry_point]
    BY <1>1, <1>2 DEF IInv, TaskOK
  <2>3. QED
    BY <1>1, <1>4, <2>1, <2>2 DEF IInv, GraphOK
<1>6. AnswerOK'
  <2> DEFINE found == ItemsOf(beam.query, beam.result \cap (filter \cap Nodes))
  <2>1. KeepsBest(answer'.heap, task.k, found)
    <3>1. PICK matching : matching = filter \cap Nodes
      OBVIOUS
    <3>2. QED
      BY <1>2, <3>1, Answered
  <2>2. \A i \in found : i.id \in Nodes /\ i.score \in Nat
    <3>1. \A n \in Nodes : To(beam.query, n) \in Nat
      BY <1>3, CloserOrder DEF Placed
    <3>2. QED
      BY <3>1 DEF ItemsOf, Item
  <2> HIDE DEF found
  <2>3. \A i \in answer'.heap : i.id \in Nodes /\ i.score \in Nat
    BY <2>1, <2>2 DEF KeepsBest
  <2>4. QED
    BY <1>4, <2>3 DEF AnswerOK
<1>7. QED
  BY <1>1, <1>5, <1>6 DEF IInv, TaskOK, BeamOK, InsertOK, SearchOK

(* Before the first insert.                                                *)
LEMMA Start ==
  ASSUME Init
  PROVE  IInv
<1>1. points \in Seq(Point) /\ node_levels = << >> /\ Nodes = {}
  BY CorporaAssumption DEF Init, Nodes
<1>2. Placed
  BY <1>1 DEF Placed, Stored
<1>3. DOMAIN layers = {0} /\ 0 \in Level /\ 0 .. 0 = {0}
  BY LevelAssumption DEF Init, Level
<1>4. \A l \in DOMAIN layers : layers[l] \in Edges
  BY <1>1 DEF Init, Edges
<1>5. GraphOK
  BY <1>1, <1>2, <1>3, <1>4 DEF Init, GraphOK
<1>6. QED
  BY <1>5 DEF Init, IInv, TaskOK, BeamOK, InsertOK, SearchOK, AnswerOK, Idle, NoAnswer

(* The graph and the work in progress on it, in every state.               *)
LEMMA InductiveInvariant == Spec => []IInv
<1>1. Init => IInv
  BY Start
<1>2. IInv /\ [Next]_vars => IInv'
  <2> SUFFICES ASSUME IInv, [Next]_vars PROVE IInv'
    OBVIOUS
  <2>1. CASE \E level \in Level : Insert(level)
    BY <2>1, InsertStep
  <2>2. CASE Connect
    BY <2>2, ConnectStep
  <2>3. CASE \E q \in Queries, k \in Limits : Search(q, k)
    BY <2>3, SearchStep
  <2>4. CASE \E filter \in Filters : Answer(filter \cap Nodes)
    BY <2>4, AnswerStep
  <2>5. CASE Expand
    BY <2>5, ExpandStep
  <2>6. CASE Descend
    BY <2>6, DescendStep
  <2>7. CASE UNCHANGED vars
    BY <2>7, Stutter
  <2>8. QED
    BY <2>1, <2>2, <2>3, <2>4, <2>5, <2>6, <2>7 DEF Next
<1>3. QED
  BY <1>1, <1>2, PTL DEF Spec

-----------------------------------------------------------------------------
(* Each layer has a list of nodes for every node, there is an entry point  *)
(* as soon as there is a node, and a beam only knows nodes of the graph.   *)
THEOREM HnswTypeCorrect == Spec => []TypeOK
<1>1. IInv => TypeOK
  <2> SUFFICES ASSUME IInv PROVE TypeOK
    OBVIOUS
  <2>1. /\ points \in Seq(Point)
        /\ node_levels \in Seq(Level) /\ Nodes \subseteq DOMAIN points
        /\ \E top \in Level : DOMAIN layers = 0 .. top
        /\ \A l \in DOMAIN layers : layers[l] \in [Nodes -> Seq(Nodes)]
        /\ entry_point \in Nodes \cup {NONE} /\ (entry_point = NONE <=> Nodes = {})
    BY DEF IInv, GraphOK, Placed, Stored, Edges
  <2>2. layer \in DOMAIN layers
    <3>1. CASE task = Idle
      <4>1. PICK top \in Level : DOMAIN layers = 0 .. top
        BY <2>1
      <4>2. top \in Nat /\ layer = 0
        BY <3>1, LevelAssumption DEF Level, IInv, GraphOK
      <4>3. QED
        BY <4>1, <4>2
    <3>2. CASE task # Idle
      BY <3>2, AtWork
    <3>3. QED
      BY <3>1, <3>2
  <2>3. ASSUME task # Idle
        PROVE  /\ task.query \in Point /\ task.top \in Level /\ task.floor \in 0 .. task.top
               /\ beam.query = task.query /\ beam.ef \in Nat \ {0}
               /\ beam.result # {} /\ beam.result \cup beam.candidates \subseteq beam.visited
               /\ beam.visited \subseteq Nodes
    BY <2>3, AtWork DEF IInv, TaskOK
  <2>4. answer # NoAnswer => \A i \in answer.heap : i.id \in Nodes /\ i.score \in Nat
    BY DEF IInv, AnswerOK
  <2>5. QED
    BY <2>1, <2>2, <2>3, <2>4 DEF TypeOK
<1>2. QED
  BY <1>1, InductiveInvariant, PTL

(* At every moment of every build an edge of a layer joins two different   *)
(* nodes that take part in it, no edge is there twice, and no list is      *)
(* longer than insert_node's pruning allows.                               *)
THEOREM GraphStaysSound == Spec => []EdgesSound
<1>1. IInv => EdgesSound
  <2> SUFFICES ASSUME IInv, NEW l \in DOMAIN layers, NEW n \in Nodes
               PROVE  /\ Len(layers[l][n]) <= IF n \in OnLayer(l) THEN Cap(l) ELSE 0
                      /\ Range(layers[l][n]) \subseteq OnLayer(l) \ {n}
                      /\ Cardinality(Range(layers[l][n])) = Len(layers[l][n])
    BY DEF EdgesSound
  <2>1. layers[l] \in Edges /\ SoundList(layers[l], l, n)
    BY DEF IInv, GraphOK
  <2>2. layers[l][n] \in Seq(Nodes)
    BY <2>1 DEF Edges
  <2>3. QED
    BY <2>1, <2>2, RangeOf DEF SoundList
<1>2. QED
  BY <1>1, InductiveInvariant, PTL

(* Between inserts the entry point is on the top layer, and a search never *)
(* leaves the nodes of the layer that it searches.                         *)
THEOREM DescentStaysOnLayers == Spec => []EntryIsTop
<1>1. IInv => EntryIsTop
  BY DEF IInv, GraphOK, BeamOK, EntryIsTop
<1>2. QED
  BY <1>1, InductiveInvariant, PTL

(* Nodes and their items are as many.                                      *)
LEMMA ItemsCount ==
  ASSUME Placed, NEW q \in Point, NEW S \in SUBSET Nodes
  PROVE  /\ Cardinality(ItemsOf(q, S)) = Cardinality(S)
         /\ \A n \in Nodes : Item(q, n) \in ItemsOf(q, S) => n \in S
<1> DEFINE f == [n \in S |-> Item(q, n)]
           T == ItemsOf(q, S)
<1>1. \A a, b : Item(q, a) = Item(q, b) => a = b
  BY DEF Item
<1>2. f \in Bijection(S, T)
  BY <1>1 DEF Bijection, Injection, Surjection, IsInjective, ItemsOf
<1>3. IsFiniteSet(S)
  BY NodesFinite
<1> HIDE DEF f
<1>4. Cardinality(T) = Cardinality(S)
  <2> HIDE DEF T
  <2>1. QED
    BY <1>2, <1>3, FS_Bijection DEF ExistsBijection
<1>5. QED
  BY <1>1, <1>4 DEF ItemsOf

(* At every moment of every beam search the result is the best ef of the   *)
(* nodes visited, and the neighbours of a result that is no candidate any  *)
(* more have been visited.                                                 *)
THEOREM BeamIsLocalOptimum == Spec => []BeamKeepsBest
<1>1. IInv => BeamKeepsBest
  <2> SUFFICES ASSUME IInv, task # Idle
               PROVE  /\ KeepsBest({Item(beam.query, n) : n \in beam.result}, beam.ef,
                                   {Item(beam.query, n) : n \in beam.visited})
                      /\ Expanded
    BY DEF BeamKeepsBest, Expanded
  <2>1. Expanded
    BY DEF IInv, BeamOK
  <2>2. /\ Placed /\ SoundBeam(beam) /\ beam.query \in Point /\ beam.result \subseteq beam.visited
        /\ beam.result \in SUBSET Nodes /\ beam.visited \in SUBSET Nodes
    BY AtWork
  <2>3. /\ Cardinality(beam.result) <= beam.ef
        /\ Cardinality(beam.result) < beam.ef => beam.result = beam.visited
        /\ \A kept \in beam.result, lost \in beam.visited \ beam.result :
             To(beam.query, kept) <= To(beam.query, lost)
    BY <2>2 DEF SoundBeam, BestOf
  <2> DEFINE R == ItemsOf(beam.query, beam.result)
             V == ItemsOf(beam.query, beam.visited)
  <2>4. Cardinality(R) = Cardinality(beam.result)
    BY <2>2, ItemsCount
  <2>5. R \subseteq V
    BY <2>2 DEF ItemsOf
  <2>6. ASSUME NEW kept \in R, NEW lost \in V \ R PROVE kept.score <= lost.score
    <3>1. PICK a \in beam.result : kept = Item(beam.query, a)
      BY DEF ItemsOf
    <3>2. PICK b \in beam.visited : lost = Item(beam.query, b)
      BY DEF ItemsOf
    <3>3. b \notin beam.result
      BY <2>6, <3>2 DEF ItemsOf
    <3>4. QED
      BY <2>3, <3>1, <3>2, <3>3 DEF Item
  <2>7. Cardinality(beam.result) < beam.ef => R = V
    BY <2>3
  <2> HIDE DEF R, V
  <2>8. KeepsBest(R, beam.ef, V)
    BY <2>3, <2>4, <2>5, <2>6, <2>7 DEF KeepsBest
  <2>9. QED
    BY <2>1, <2>8 DEF R, V, ItemsOf
<1>2. QED
  BY <1>1, InductiveInvariant, PTL

-----------------------------------------------------------------------------
(* Layers from which nothing has been pruned.  The nodes of a layer, but   *)
(* for the one that an insert has not linked there yet, cannot be divided  *)
(* so that no edge leads out of a part.                                    *)
Closed(e, C)  == \A n \in C : Range(e[n]) \subseteq C
Joined(e, S)  == \A C \in SUBSET S : C # {} /\ Closed(e, C) => C = S
Mutual(e)     == \A a \in Nodes : \A b \in Range(e[a]) : a \in Range(e[b])

Inserting == task # Idle /\ task.kind = "insert"
Linked(l) == {n \in OnLayer(l) : ~(Inserting /\ l <= layer /\ n = New)}

Unpruned ==
  \A l \in DOMAIN layers : Small(l) => Mutual(layers[l]) /\ Joined(layers[l], Linked(l))

(* A search is the last thing that happens to a graph.                     *)
Whole == Unpruned /\ (answer # NoAnswer => Nodes = DOMAIN points) /\ ExactWhileSmall

(* A newcomer that is linked both ways to somebody joins a joined set.     *)
LEMMA Joins ==
  ASSUME NEW S, NEW new, new \notin S, NEW e, NEW f, NEW sel, sel # {}, sel \subseteq S,
         Joined(e, S), \A n \in S : Range(e[n]) \subseteq S,
         Range(f[new]) = sel,
         \A n \in S : Range(f[n]) = Range(e[n]) \cup (IF n \in sel THEN {new} ELSE {})
  PROVE  Joined(f, S \cup {new})
<1> SUFFICES ASSUME NEW C \in SUBSET (S \cup {new}), C # {}, Closed(f, C)
             PROVE  C = S \cup {new}
  BY DEF Joined
<1> DEFINE D == C \ {new}
<1>1. D # {}
  <2> SUFFICES ASSUME C = {new} PROVE FALSE
    OBVIOUS
  <2>1. sel \subseteq {new}
    BY DEF Closed
  <2>2. QED
    BY <2>1
<1>2. D \in SUBSET S
  OBVIOUS
<1>3. Closed(e, D)
  <2> SUFFICES ASSUME NEW n \in D PROVE Range(e[n]) \subseteq D
    BY DEF Closed
  <2>1. n \in S /\ n \in C /\ Range(e[n]) \subseteq Range(f[n])
    OBVIOUS
  <2>2. Range(f[n]) \subseteq C /\ Range(e[n]) \subseteq S
    BY <2>1 DEF Closed
  <2>3. QED
    BY <2>1, <2>2
<1>4. D = S
  BY <1>1, <1>2, <1>3 DEF Joined
<1>5. new \in C
  <2>1. PICK n \in sel : TRUE
    OBVIOUS
  <2>2. n \in C /\ n \in S /\ new \in Range(f[n])
    BY <1>4, <2>1
  <2>3. QED
    BY <2>2 DEF Closed
<1>6. QED
  BY <1>4, <1>5

(* What a step that leaves the edges alone leaves as it was.               *)
LEMMA UnprunedUnchanged ==
  ASSUME IInv, Unpruned, UNCHANGED <<node_levels, layers>>,
         \A l \in DOMAIN layers : Linked(l)' = Linked(l)
  PROVE  Unpruned'
<1>1. Nodes' = Nodes /\ \A l : OnLayer(l)' = OnLayer(l)
  BY DEF Nodes, OnLayer
<1>2. \A l : (Small(l)' <=> Small(l)) /\ (Mutual(layers[l])' <=> Mutual(layers[l]))
  BY <1>1 DEF Small, Mutual
<1>3. \A l \in DOMAIN layers : Joined(layers[l], Linked(l))' <=> Joined(layers[l], Linked(l))
  BY DEF Joined, Closed
<1>4. QED
  BY <1>2, <1>3 DEF Unpruned

(* A newcomer has no edge yet, so whatever was joined before it came       *)
(* still is.                                                               *)
LEMMA UnprunedInsert ==
  ASSUME IInv, Unpruned, NEW level \in Level, Insert(level)
  PROVE  Unpruned'
<1> DEFINE new == Len(node_levels) + 1
<1>1. /\ task = Idle /\ node_levels' = Append(node_levels, level) /\ layers' = Grown(level)
  BY DEF Insert
<1>2. Placed /\ Nodes = 1 .. Len(node_levels) /\ Len(node_levels) \in Nat /\ level \in Nat
  BY NodesFinite, LevelAssumption DEF IInv, GraphOK, Level
<1>3. /\ New' = new /\ Nodes' = Nodes \cup {new} /\ new \notin Nodes
      /\ \A n \in Nodes : node_levels'[n] = node_levels[n]
      /\ node_levels'[new] = level
  <2>1. /\ Append(node_levels, level) \in Seq(Level)
        /\ Len(Append(node_levels, level)) = new
        /\ \A n \in 1 .. Len(node_levels) : Append(node_levels, level)[n] = node_levels[n]
        /\ Append(node_levels, level)[new] = level
    BY <1>2, Appended DEF Placed
  <2>2. Nodes' = 1 .. new
    BY <1>1, <2>1 DEF Nodes
  <2>3. QED
    BY <1>1, <1>2, <2>1, <2>2 DEF New
<1> HIDE DEF new
<1>4. \A l \in DOMAIN layers' :
        layers'[l] = [n \in Nodes' |->
                        IF l \in DOMAIN layers /\ n \in Nodes THEN layers[l][n] ELSE << >>]
  <2>1. Nodes' = 1 .. Len(node_levels) + 1
    BY <1>2, <1>3 DEF new
  <2>2. QED
    BY <1>1, <2>1 DEF Grown
<1>5. \A l : /\ OnLayer(l) \subseteq OnLayer(l)' /\ OnLayer(l) \subseteq Nodes
             /\ OnLayer(l)' \subseteq OnLayer(l) \cup {new}
  BY <1>3 DEF OnLayer
<1>6. Range(<< >>) = {}
  BY DEF Range
<1>7. ASSUME NEW l \in DOMAIN layers', Small(l)'
      PROVE  Mutual(layers[l])' /\ Joined(layers[l], Linked(l))'
  <2>1. CASE l \in DOMAIN layers
    <3>1. /\ \A n \in Nodes : layers'[l][n] = layers[l][n]
          /\ layers'[l][new] = << >>
      BY <1>3, <1>4, <2>1
    <3>2. Small(l)
      <4>1. IsFiniteSet(OnLayer(l)') /\ Cardinality(OnLayer(l)') \in Nat
        <5> DEFINE S == OnLayer(l) \cup {new}
        <5>1. IsFiniteSet(OnLayer(l))
          BY <1>2, <1>5, NodesFinite
        <5>2. IsFiniteSet(S)
          BY <5>1, FS_AddElement
        <5>3. OnLayer(l)' \in SUBSET S
          BY <1>5
        <5> HIDE DEF S
        <5>4. IsFiniteSet(OnLayer(l)')
          BY <5>2, <5>3, FS_Subset
        <5>5. QED
          BY <5>4, FS_CardinalityType
      <4>2. Cardinality(OnLayer(l)) <= Cardinality(OnLayer(l)')
        BY <1>5, <4>1, FS_Subset
      <4>3. OnLayer(l) \in SUBSET Nodes /\ Cardinality(OnLayer(l)) \in Nat
        BY <1>2, <1>5, NodesFinite
      <4>4. l \in Nat /\ Cap(l) \in Nat
        BY <2>1, CapType, LevelAssumption DEF IInv, GraphOK, Level
      <4>5. Cardinality(OnLayer(l)') <= Cap(l) + 1
        BY <1>7 DEF Small
      <4>6. QED
        BY <4>1, <4>2, <4>3, <4>4, <4>5 DEF Small
    <3>3. Mutual(layers[l]) /\ Joined(layers[l], Linked(l))
      BY <2>1, <3>2 DEF Unpruned
    <3>4. \A n \in Nodes : Range(layers[l][n]) \subseteq OnLayer(l)
      BY <2>1 DEF IInv, GraphOK, SoundList
    <3>5. Mutual(layers[l])'
      <4> SUFFICES ASSUME NEW a \in Nodes', NEW b \in Range(layers'[l][a])
                   PROVE  a \in Range(layers'[l][b])
        BY DEF Mutual
      <4>1. a \in Nodes
        BY <1>3, <1>6, <3>1
      <4>2. b \in Range(layers[l][a]) /\ b \in Nodes
        BY <1>5, <3>1, <3>4, <4>1
      <4>3. QED
        BY <3>1, <3>3, <4>1, <4>2 DEF Mutual
    <3>6. Linked(l) = OnLayer(l)
      BY <1>1 DEF Linked, Inserting, OnLayer
    <3>7. CASE entry_point = NONE
      <4>1. Nodes = {}
        BY <3>7 DEF IInv, GraphOK
      <4>2. Linked(l)' \subseteq {new}
        BY <1>5, <4>1 DEF Linked
      <4>3. QED
        BY <3>5, <4>2 DEF Joined
    <3>8. CASE entry_point # NONE
      <4>1. task' # Idle /\ task'.kind = "insert" /\ layer' = node_levels[entry_point]
        BY <3>8 DEF Insert, Begin, Idle
      <4>2. l <= layer'
        <5>1. DOMAIN layers = 0 .. node_levels[entry_point]
          BY <1>1, <3>8 DEF IInv, GraphOK
        <5>2. QED
          BY <2>1, <4>1, <5>1
      <4>3. Linked(l)' = OnLayer(l)
        BY <1>3, <1>5, <4>1, <4>2 DEF Linked, Inserting
      <4>4. \A C \in SUBSET OnLayer(l) : Closed(layers'[l], C) => Closed(layers[l], C)
        BY <1>5, <3>1 DEF Closed
      <4>5. QED
        BY <3>3, <3>5, <3>6, <4>3, <4>4 DEF Joined
    <3>9. QED
      BY <3>7, <3>8
  <2>2. CASE l \notin DOMAIN layers
    <3>1. \A n \in Nodes' : layers'[l][n] = << >>
      BY <1>4, <2>2
    <3>2. Mutual(layers[l])'
      BY <1>6, <3>1 DEF Mutual
    <3>3. OnLayer(l) = {}
      <4>1. PICK top \in Level : DOMAIN layers = 0 .. top
        BY DEF IInv, GraphOK
      <4>2. PICK high \in Nat : DOMAIN layers' = 0 .. high
        <5>1. IInv'
          BY InsertStep
        <5>2. QED
          BY <5>1, LevelAssumption DEF IInv, GraphOK, Level
      <4>3. l \in Nat /\ top \in Nat /\ l > top
        BY <2>2, <4>1, <4>2, LevelAssumption DEF Level
      <4>4. \A n \in Nodes : node_levels[n] \in 0 .. top
        BY <4>1 DEF IInv, GraphOK
      <4>5. QED
        BY <4>3, <4>4 DEF OnLayer
    <3>4. Linked(l)' \subseteq {new}
      BY <1>5, <3>3 DEF Linked
    <3>5. QED
      BY <3>2, <3>4 DEF Joined
  <2>3. QED
    BY <2>1, <2>2
<1>8. QED
  BY <1>7 DEF Unpruned

(* The newcomer joins the layer that is linked; the others stay as they    *)
(* were.                                                                   *)
LEMMA UnprunedConnect ==
  ASSUME IInv, Unpruned, Connect
  PROVE  Unpruned'
<1>1. /\ task # Idle /\ task.kind = "insert" /\ UNCHANGED <<points, node_levels>>
  BY DEF Connect
<1>2. PICK selected : selected = Select(beam.query, beam.result, m)
  OBVIOUS
<1> DEFINE e == layers[layer]
           f == layers'[layer]
           S == OnLayer(layer) \ {New}
<1>3. /\ layer \in Nat /\ layer \in DOMAIN layers
      /\ New \in Nodes /\ New \in OnLayer(layer)
      /\ selected \in Seq(Nodes) /\ Len(selected) > 0
      /\ Range(selected) \subseteq S
      /\ Unlinked(layer)
      /\ DOMAIN layers' = DOMAIN layers
      /\ \A l \in DOMAIN layers \ {layer} : layers'[l] = layers[l]
      /\ Small(layer) => BothWays(f, e, New, selected)
  BY <1>2, Linking
<1>4. Nodes' = Nodes /\ New' = New /\ \A l : OnLayer(l)' = OnLayer(l) /\ (Small(l)' <=> Small(l))
  BY <1>1 DEF Nodes, New, OnLayer, Small
<1>5. \A l \in DOMAIN layers : l \in Nat
  BY LevelAssumption DEF IInv, GraphOK, Level
<1>6. \/ task' = Idle /\ layer = 0
      \/ task' = task /\ layer' = layer - 1
  BY DEF Connect, Finish
<1>7. ASSUME NEW l \in DOMAIN layers, l # layer, Small(l)
      PROVE  Mutual(layers[l])' /\ Joined(layers[l], Linked(l))'
  <2>1. layers'[l] = layers[l] /\ Mutual(layers[l]) /\ Joined(layers[l], Linked(l))
    BY <1>3, <1>7 DEF Unpruned
  <2>2. Linked(l)' = Linked(l)
    <3>2. (Inserting' /\ l <= layer') <=> (Inserting /\ l <= layer)
      BY <1>1, <1>3, <1>5, <1>6, <1>7 DEF Inserting
    <3>3. QED
      BY <1>4, <3>2 DEF Linked
  <2>3. QED
    BY <1>4, <2>1, <2>2 DEF Mutual, Joined, Closed
<1>8. ASSUME NEW l \in DOMAIN layers, l = layer, Small(l)
      PROVE  Mutual(layers[l])' /\ Joined(layers[l], Linked(l))'
  <2>1. Mutual(e) /\ Joined(e, Linked(layer)) /\ Small(layer)
    BY <1>8 DEF Unpruned
  <2>2. Linked(layer) = S /\ Linked(l)' = S \cup {New}
    <3>1. Linked(layer) = S
      BY <1>1, <1>3 DEF Linked, Inserting
    <3>2. ~(Inserting' /\ layer <= layer')
      BY <1>3, <1>6 DEF Inserting
    <3>3. Linked(l)' = OnLayer(layer)
      BY <1>4, <1>8, <3>2 DEF Linked
    <3>4. QED
      BY <1>3, <3>1, <3>3
  <2>3. /\ \A n \in Nodes : Range(e[n]) \subseteq OnLayer(layer) \ {New}
        /\ e[New] = << >> /\ Range(e[New]) = {}
    BY <1>3 DEF IInv, GraphOK, SoundList, Unlinked, Range
  <2>4. S \subseteq Nodes \ {New} /\ Range(selected) \subseteq Nodes \ {New}
    BY <1>3 DEF OnLayer
  <2>5. Range(selected) # {}
    <3>1. 1 \in 1 .. Len(selected)
      BY <1>3
    <3>2. QED
      BY <1>3, <3>1, RangeOf
  <2>6. /\ Range(f[New]) = Range(selected)
        /\ \A n \in Nodes \ {New} :
             Range(f[n]) = Range(e[n]) \cup (IF n \in Range(selected) THEN {New} ELSE {})
    BY <1>3, <2>1 DEF BothWays
  <2> HIDE DEF S, e, f
  <2>7. Joined(f, S \cup {New})
    <3>1. New \notin S /\ \A n \in S : Range(e[n]) \subseteq S
      BY <2>3, <2>4 DEF S
    <3>2. Joined(e, S) /\ Range(selected) \subseteq S
      BY <1>3, <2>1, <2>2
    <3>3. \A n \in S :
            Range(f[n]) = Range(e[n]) \cup (IF n \in Range(selected) THEN {New} ELSE {})
      BY <2>4, <2>6
    <3>4. PICK new : new = New
      OBVIOUS
    <3>5. PICK sel : sel = Range(selected)
      OBVIOUS
    <3>6. new \notin S /\ sel # {} /\ sel \subseteq S /\ Range(f[new]) = sel
      BY <2>5, <2>6, <3>1, <3>2, <3>4, <3>5
    <3>7. \A n \in S : Range(f[n]) = Range(e[n]) \cup (IF n \in sel THEN {new} ELSE {})
      BY <3>3, <3>4, <3>5
    <3>8. Joined(f, S \cup {new})
      BY <3>1, <3>2, <3>6, <3>7, Joins
    <3>9. QED
      BY <3>4, <3>8
  <2>8. Mutual(f)
    <3> SUFFICES ASSUME NEW a \in Nodes, NEW b \in Range(f[a]) PROVE a \in Range(f[b])
      BY DEF Mutual
    <3>1. CASE a = New
      <4>1. b \in Range(selected) /\ b \in Nodes \ {New}
        BY <2>4, <2>6, <3>1
      <4>2. QED
        BY <2>6, <3>1, <4>1
    <3>2. CASE a # New /\ b = New
      <4>1. a \in Range(selected)
        BY <2>3, <2>6, <3>2
      <4>2. QED
        BY <2>6, <3>2, <4>1
    <3>3. CASE a # New /\ b # New
      <4>1. b \in Range(e[a])
        BY <2>6, <3>3
      <4>2. b \in Nodes /\ a \in Range(e[b])
        BY <2>1, <2>3, <4>1 DEF Mutual, OnLayer
      <4>3. QED
        BY <2>6, <3>3, <4>2
    <3>4. QED
      BY <3>1, <3>2, <3>3
  <2>9. layers'[l] = f
    BY <1>8 DEF f
  <2>10. QED
    BY <1>4, <2>2, <2>7, <2>8, <2>9 DEF Mutual, Joined, Closed
<1>9. QED
  BY <1>3, <1>4, <1>7, <1>8 DEF Unpruned

(* Above its floor an insert is above the new node's level too.            *)
LEMMA UnprunedDescend ==
  ASSUME IInv, Unpruned, Descend
  PROVE  Unpruned'
<1>1. /\ task # Idle /\ layer > task.floor /\ layer' = layer - 1
      /\ UNCHANGED <<points, node_levels, layers, task>>
  BY DEF Descend
<1>2. layer \in Nat /\ layer \in 0 .. task.top /\ task.top \in Nat
  BY <1>1, AtWork
<1>3. Nodes' = Nodes /\ New' = New /\ (\A l : OnLayer(l)' = OnLayer(l)) /\ (Inserting' <=> Inserting)
  BY <1>1 DEF Nodes, New, OnLayer, Inserting
<1>4. \A n \in Nodes : node_levels[n] \in Nat
  <2>1. \A n \in Nodes : node_levels[n] \in Level
    BY DEF IInv, GraphOK, Placed, Nodes
  <2>2. QED
    BY <2>1, LevelAssumption DEF Level
<1>5. ASSUME NEW l \in DOMAIN layers PROVE Linked(l)' = Linked(l)
  <2>1. l \in Nat
    BY LevelAssumption DEF IInv, GraphOK, Level
  <2>2. CASE ~Inserting \/ l # layer
    <3>1. (Inserting' /\ l <= layer') <=> (Inserting /\ l <= layer)
      BY <1>1, <1>2, <1>3, <2>1, <2>2
    <3>2. QED
      BY <1>3, <3>1 DEF Linked
  <2>3. CASE Inserting /\ l = layer
    <3>1. task.floor = IF node_levels[New] < task.top THEN node_levels[New] ELSE task.top
      BY <2>3 DEF Inserting, IInv, InsertOK
    <3>2. New \notin OnLayer(layer)
      <4>1. SUFFICES ASSUME New \in Nodes, node_levels[New] >= layer PROVE FALSE
        BY DEF OnLayer
      <4>2. QED
        BY <1>1, <1>2, <1>4, <3>1, <4>1
    <3>3. Linked(l) = OnLayer(l) /\ Linked(l)' = OnLayer(l)
      BY <1>3, <2>3, <3>2 DEF Linked
    <3>4. QED
      BY <3>3
  <2>4. QED
    BY <2>2, <2>3
<1>6. QED
  BY <1>1, <1>5, UnprunedUnchanged

(* What a step that is neither an insert nor an answer leaves as it was.   *)
LEMMA WholeKept ==
  ASSUME Whole, Unpruned', UNCHANGED <<points, node_levels, answer>>
  PROVE  Whole'
<1>1. Nodes' = Nodes /\ NoAnswer' = NoAnswer
  BY DEF Nodes, NoAnswer
<1>2. \A q, n : Item(q, n)' = Item(q, n)
  BY DEF Item, To
<1>3. ExactWhileSmall'
  BY <1>1, <1>2 DEF Whole, ExactWhileSmall
<1>4. QED
  BY <1>1, <1>3 DEF Whole

(* A finished beam as wide as a graph from which nothing was pruned has    *)
(* found all of it: it has room for whatever it meets, so that it comes to *)
(* an end when no edge leads out of it.                                    *)
LEMMA FindsAll ==
  ASSUME IInv, Unpruned, task # Idle, task.kind = "search", layer = 0, Exhausted(beam),
         Cardinality(Nodes) <= Cap(0) + 1, Cardinality(Nodes) <= beam.ef
  PROVE  beam.result = Nodes
<1>1. /\ Placed /\ layer \in DOMAIN layers /\ SoundBeam(beam) /\ beam.query \in Point
      /\ beam.ef \in Nat \ {0}
      /\ beam.result \in SUBSET Nodes /\ beam.result # {} /\ beam.result \subseteq beam.visited
      /\ beam.visited \in SUBSET Nodes
      /\ beam.candidates \in SUBSET Nodes /\ beam.candidates \subseteq beam.visited
  BY AtWork
<1>2. /\ IsFiniteSet(Nodes) /\ Cardinality(Nodes) \in Nat
      /\ IsFiniteSet(beam.result) /\ Cardinality(beam.result) \in Nat
      /\ IsFiniteSet(beam.candidates)
      /\ beam.result \in SUBSET (DOMAIN points) /\ beam.candidates \in SUBSET (DOMAIN points)
  BY <1>1, NodesFinite
<1>3. SUFFICES ASSUME beam.result # Nodes PROVE FALSE
  OBVIOUS
<1>4. Cardinality(beam.result) < beam.ef
  <2>1. /\ Cardinality(beam.result) <= Cardinality(Nodes)
        /\ Cardinality(beam.result) # Cardinality(Nodes)
    BY <1>1, <1>2, <1>3, FS_Subset
  <2>2. QED
    BY <1>1, <1>2, <2>1
<1>5. beam.result = beam.visited
  BY <1>1, <1>4 DEF SoundBeam, BestOf
<1>6. beam.candidates = {}
  <2> SUFFICES ASSUME beam.candidates # {} PROVE FALSE
    OBVIOUS
  <2>1. PICK q : q = beam.query
    OBVIOUS
  <2>2. PICK c : c = Closest(q, beam.candidates)
    OBVIOUS
  <2>3. PICK f : f = Furthest(q, beam.result)
    OBVIOUS
  <2>4. c \in beam.candidates
    BY <1>1, <1>2, <2>1, <2>2, Extremes DEF Placed
  <2>5. f \in beam.result /\ \A o \in beam.result : To(q, o) <= To(q, f)
    BY <1>1, <1>2, <2>1, <2>3, Extremes DEF Placed
  <2>6. To(q, c) > To(q, f)
    BY <2>1, <2>2, <2>3 DEF Exhausted, Worst
  <2>7. c \in DOMAIN points /\ f \in DOMAIN points /\ q \in Point
    BY <1>1, <1>2, <2>1, <2>4, <2>5
  <2>8. To(q, c) \in Nat /\ To(q, f) \in Nat
    BY <1>1, <2>7, CloserOrder DEF Placed
  <2>9. To(q, c) <= To(q, f)
    BY <1>1, <1>5, <2>4, <2>5
  <2>10. QED
    BY <2>6, <2>8, <2>9
<1>7. OnLayer(0) = Nodes
  <2>1. \A n \in Nodes : node_levels[n] \in Level
    BY <1>1 DEF Placed, Nodes
  <2>2. \A n \in Nodes : node_levels[n] >= 0
    BY <2>1, LevelAssumption DEF Level
  <2>3. QED
    BY <2>2 DEF OnLayer
<1>8. Joined(layers[0], Nodes)
  <2>1. Linked(0) = Nodes
    BY <1>7 DEF Linked, Inserting
  <2>2. QED
    BY <1>1, <1>7, <2>1 DEF Unpruned, Small
<1>9. Closed(layers[0], beam.result)
  BY <1>5, <1>6 DEF IInv, BeamOK, Expanded, Closed
<1>10. QED
  BY <1>1, <1>3, <1>8, <1>9 DEF Joined

(* The answer of a search that has found every node.                       *)
LEMMA WholeAnswer ==
  ASSUME IInv, Whole, NEW matching \in SUBSET Nodes, Answer(matching)
  PROVE  Whole'
<1>1. /\ task # Idle /\ task.kind = "search" /\ layer = 0 /\ Exhausted(beam) /\ task' = Idle
      /\ UNCHANGED <<points, node_levels, layers, entry_point>>
  BY DEF Answer, Finish
<1>2. /\ Nodes = DOMAIN points /\ task.k \in Nat /\ task.ef >= task.k /\ task.ef >= ef_search
      /\ task.floor = 0
  BY <1>1 DEF IInv, SearchOK
<1>3. Nodes' = Nodes /\ \A q, n : Item(q, n)' = Item(q, n)
  BY <1>1 DEF Nodes, Item, To
<1>4. Unpruned'
  <2>1. \A l : Linked(l)' = Linked(l)
    BY <1>1, <1>3 DEF Linked, Inserting, OnLayer
  <2>2. QED
    BY <1>1, <2>1, UnprunedUnchanged DEF Whole
<1>5. ASSUME Cardinality(Nodes) <= Cap(0) + 1,
             Cardinality(Nodes) <= ef_search \/ Cardinality(Nodes) <= answer'.k
      PROVE  KeepsBest(answer'.heap, answer'.k, ItemsOf(answer'.query, answer'.matching))
  <2>1. /\ answer'.query = beam.query /\ answer'.k = task.k /\ answer'.matching = matching
        /\ KeepsBest(answer'.heap, task.k, ItemsOf(beam.query, beam.result \cap matching))
    BY <1>2, Answered
  <2>2. Cardinality(Nodes) <= beam.ef
    <3>1. beam.ef = task.ef
      BY <1>1, <1>2, AtWork DEF Width
    <3>2. Cardinality(Nodes) \in Nat /\ task.ef \in Nat /\ ef_search \in Nat
      <4>1. Cardinality(Nodes) \in Nat
        BY <1>1, AtWork, NodesFinite
      <4>2. QED
        BY <1>1, <4>1, ParamsAssumption DEF IInv, TaskOK
    <3>3. QED
      BY <1>2, <1>5, <2>1, <3>1, <3>2
  <2>3. beam.result \cap matching = matching
    BY <1>1, <1>5, <2>2, FindsAll DEF Whole
  <2>4. QED
    BY <2>1, <2>3
<1>6. ExactWhileSmall'
  <2> DEFINE q == answer'.query
             M == answer'.matching
  <2>1. {Item(q, n) : n \in M} = ItemsOf(q, M)
    BY DEF ItemsOf
  <2>2. ({Item(answer.query, n) : n \in answer.matching})' = {Item(q, n) : n \in M}
    BY <1>3
  <2> SUFFICES ASSUME Cardinality(Nodes) <= Cap(0) + 1,
                      Cardinality(Nodes) <= ef_search \/ Cardinality(Nodes) <= answer'.k
               PROVE  KeepsBest(answer'.heap, answer'.k, ItemsOf(q, M))
    BY <1>3, <2>1, <2>2 DEF ExactWhileSmall
  <2>3. QED
    BY <1>5
<1>7. QED
  BY <1>1, <1>2, <1>3, <1>4, <1>6 DEF Whole

(* The second invariant, which rests on the first.                         *)
LEMMA WholeInvariant == Spec => []Whole
<1>1. Init => Whole
  <2> SUFFICES ASSUME Init PROVE Whole
    OBVIOUS
  <2>1. Nodes = {} /\ answer = NoAnswer
    BY DEF Init, Nodes
  <2>2. Unpruned
    BY <2>1 DEF Unpruned, Mutual, Joined, Linked, OnLayer
  <2>3. QED
    BY <2>1, <2>2 DEF Whole, ExactWhileSmall
<1>2. IInv /\ Whole /\ [Next]_vars => Whole'
  <2> SUFFICES ASSUME IInv, Whole, [Next]_vars PROVE Whole'
    OBVIOUS
  <2>1. CASE \E level \in Level : Insert(level)
    <3>1. PICK level \in Level : Insert(level)
      BY <2>1
    <3>2. Len(node_levels) + 1 \in DOMAIN points /\ answer' = answer
      BY <3>1 DEF Insert
    <3>3. Len(node_levels) + 1 \notin Nodes
      BY NodesFinite DEF IInv, GraphOK
    <3>4. answer = NoAnswer
      BY <3>2, <3>3 DEF Whole
    <3>5. Unpruned'
      BY <3>1, UnprunedInsert DEF Whole
    <3>6. QED
      BY <3>2, <3>4, <3>5 DEF Whole, ExactWhileSmall, NoAnswer
  <2>2. CASE Connect
    BY <2>2, UnprunedConnect, WholeKept DEF Whole, Connect
  <2>3. CASE \E q \in Queries, k \in Limits : Search(q, k)
    <3>1. PICK q \in Queries, k \in Limits : Search(q, k)
      BY <2>3
    <3>2. /\ task = Idle /\ UNCHANGED <<points, node_levels, layers, entry_point, answer>>
          /\ task' = Idle \/ task'.kind = "search"
      BY <3>1 DEF Search, Begin
    <3>3. \A l : Linked(l)' = Linked(l)
      BY <3>2 DEF Linked, Inserting, OnLayer, Nodes
    <3>4. QED
      BY <3>2, <3>3, UnprunedUnchanged, WholeKept DEF Whole
  <2>4. CASE \E filter \in Filters : Answer(filter \cap Nodes)
    <3>1. PICK filter \in Filters : Answer(filter \cap Nodes)
      BY <2>4
    <3>2. QED
      BY <3>1, WholeAnswer
  <2>5. CASE Expand
    <3>1. UNCHANGED <<points, node_levels, layers, entry_point, task, layer, answer>>
      BY <2>5 DEF Expand
    <3>2. \A l : Linked(l)' = Linked(l)
      BY <3>1 DEF Linked, Inserting, OnLayer, Nodes, New
    <3>3. QED
      BY <3>1, <3>2, UnprunedUnchanged, WholeKept DEF Whole
  <2>6. CASE Descend
    BY <2>6, UnprunedDescend, WholeKept DEF Whole, Descend
  <2>7. CASE UNCHANGED vars
    <3>1. UNCHANGED <<points, node_levels, layers, entry_point, task, layer, answer>>
      BY <2>7 DEF vars
    <3>2. \A l : Linked(l)' = Linked(l)
      BY <3>1 DEF Linked, Inserting, OnLayer, Nodes, New
    <3>3. QED
      BY <3>1, <3>2, UnprunedUnchanged, WholeKept DEF Whole
  <2>8. QED
    BY <2>1, <2>2, <2>3, <2>4, <2>5, <2>6, <2>7 DEF Next
<1>3. QED
  BY <1>1, <1>2, InductiveInvariant, PTL DEF Spec

(* A search no narrower than the graph, of a graph too small to have been  *)
(* pruned on layer 0, answers as brute force does.                         *)
THEOREM SmallGraphsSearchExactly == Spec => []ExactWhileSmall
<1>1. Whole => ExactWhileSmall
  BY DEF Whole
<1>2. QED
  BY <1>1, WholeInvariant, PTL

(* In a joined layer the set of nodes within so many edges of a node grows *)
(* until it is the layer, for what does not grow is closed.                *)
LEMMA Reaches ==
  ASSUME IInv, NEW l \in DOMAIN layers, Joined(layers[l], OnLayer(l)),
         NEW start \in OnLayer(l)
  PROVE  Reached(l, start) = OnLayer(l)
<1> DEFINE N == Len(node_levels)
           e == layers[l]
           S == OnLayer(l)
           V == {C \in SUBSET S : start \in C}
           more(C) == C \cup UNION {Range(e[n]) : n \in C}
           op == [C \in V |-> more(C)]
           grow[i \in Nat] ==
             IF i = 0 THEN {start}
             ELSE grow[i - 1] \cup UNION {Range(e[n]) : n \in grow[i - 1]}
<1>1. Placed /\ Nodes = 1 .. N /\ N \in Nat /\ S \in SUBSET Nodes
  BY NodesFinite DEF IInv, GraphOK, OnLayer
<1>2. Reached(l, start) = grow[N]
  BY DEF Reached
<1>3. \A n \in S : Range(e[n]) \subseteq S
  BY <1>1 DEF IInv, GraphOK, SoundList
<1>4. {start} \in V /\ \A C \in V : op[C] = more(C) /\ op[C] \in V
  BY <1>3
<1>5. PICK g \in [Nat -> V] : g[0] = {start} /\ \A i \in Nat : g[i + 1] = op[g[i]]
  <2> HIDE DEF V, op, more, grow, N, e, S
  <2>1. PICK base : base = {start}
    OBVIOUS
  <2>2. PICK W : W = V
    OBVIOUS
  <2>3. PICK p : p = op
    OBVIOUS
  <2>4. base \in W /\ \A C \in W : p[C] \in W
    BY <1>4, <2>1, <2>2, <2>3
  <2>5. \E g \in [Nat -> W] : Repeats(g, base, p)
    BY <2>4, Iterates, Zenon
  <2>6. QED
    BY <2>1, <2>2, <2>3, <2>5 DEF Repeats
<1>6. \A i \in Nat : g[i + 1] = g[i] \cup UNION {Range(e[n]) : n \in g[i]}
  BY <1>4, <1>5
<1>7. g = [i \in Nat |-> IF i = 0 THEN {start}
                         ELSE g[i - 1] \cup UNION {Range(e[n]) : n \in g[i - 1]}]
  <2>1. ASSUME NEW i \in Nat \ {0}
        PROVE  g[i] = g[i - 1] \cup UNION {Range(e[n]) : n \in g[i - 1]}
    <3>1. i - 1 \in Nat /\ (i - 1) + 1 = i
      OBVIOUS
    <3>2. g[(i - 1) + 1] = g[i - 1] \cup UNION {Range(e[n]) : n \in g[i - 1]}
      BY <1>6, <3>1
    <3>3. QED
      BY <3>1, <3>2
  <2>2. QED
    BY <1>5, <2>1
<1>8. grow = [i \in Nat |-> IF i = 0 THEN {start}
                            ELSE grow[i - 1] \cup UNION {Range(e[n]) : n \in grow[i - 1]}]
  BY <1>7 DEF grow
<1> HIDE DEF grow, op, e, N
<1>9. grow[0] = {start} /\ \A i \in Nat : grow[i + 1] = more(grow[i])
  <2>1. grow[0] = {start}
    BY <1>8
  <2>2. ASSUME NEW i \in Nat PROVE grow[i + 1] = more(grow[i])
    <3>1. i + 1 \in Nat /\ i + 1 # 0 /\ (i + 1) - 1 = i
      OBVIOUS
    <3>2. grow[i + 1] = grow[(i + 1) - 1] \cup UNION {Range(e[n]) : n \in grow[(i + 1) - 1]}
      BY <1>8, <3>1
    <3>3. QED
      BY <3>1, <3>2
  <2>3. QED
    BY <2>1, <2>2
<1> DEFINE T == {i \in 0 .. N : /\ grow[i] \in V
                                /\ Cardinality(grow[i]) >= i + 1 \/ grow[i] = S}
<1>10. 0 \in T
  <2>1. Cardinality({start}) = 1
    BY FS_Singleton
  <2>2. 0 \in 0 .. N /\ 0 + 1 = 1 /\ 1 >= 1
    BY <1>1
  <2> HIDE DEF V
  <2>3. grow[0] \in V /\ Cardinality(grow[0]) >= 0 + 1
    BY <1>4, <1>9, <2>1, <2>2
  <2>4. QED
    BY <2>2, <2>3
<1>11. ASSUME NEW i \in 0 .. N - 1, i \in T PROVE i + 1 \in T
  <2>1. i \in Nat /\ i + 1 \in 0 .. N
    BY <1>1
  <2> DEFINE A == grow[i]
             B == grow[i + 1]
  <2>2. B = more(A) /\ A \in V
    BY <1>9, <1>11, <2>1
  <2>3. B \in V /\ A \subseteq B
    BY <1>3, <2>2
  <2>4. IsFiniteSet(A) /\ IsFiniteSet(B) /\ Cardinality(A) \in Nat /\ Cardinality(B) \in Nat
    BY <1>1, <2>2, <2>3, NodesFinite
  <2>5. CASE A = S
    BY <1>11, <2>1, <2>3, <2>5
  <2>6. CASE A # S /\ A = B
    <3>1. Closed(e, A)
      BY <2>2, <2>6 DEF Closed
    <3>2. A = S
      BY <2>2, <3>1 DEF Joined, e
    <3>3. QED
      BY <2>6, <3>2
  <2>7. CASE A # S /\ A # B
    <3>1. Cardinality(A) >= i + 1
      BY <1>11, <2>7
    <3> HIDE DEF A, B
    <3>2. Cardinality(A) <= Cardinality(B) /\ Cardinality(A) # Cardinality(B)
      BY <2>3, <2>4, <2>7, FS_Subset
    <3>3. Cardinality(B) >= (i + 1) + 1
      BY <2>1, <2>4, <3>1, <3>2
    <3>4. QED
      BY <2>1, <2>3, <3>3 DEF B
  <2>8. QED
    BY <2>5, <2>6, <2>7
<1> HIDE DEF T
<1>12. N \in T
  <2>1. N \in 0 .. N /\ \A i \in 0 .. N : i \in T
    BY <1>1, <1>10, <1>11, Climb
  <2>2. QED
    BY <2>1
<1>13. grow[N] = S
  <2> SUFFICES ASSUME Cardinality(grow[N]) >= N + 1 PROVE FALSE
    BY <1>12 DEF T
  <2>1. grow[N] \subseteq Nodes /\ IsFiniteSet(Nodes) /\ Cardinality(Nodes) = N
    <3>1. 1 \in Int /\ N \in Int
      BY <1>1
    <3>2. IsFiniteSet(1 .. N) /\ Cardinality(1 .. N) = N
      BY <1>1, <3>1, FS_Interval
    <3>3. QED
      BY <1>1, <1>12, <3>2 DEF T
  <2>2. Cardinality(grow[N]) <= N /\ Cardinality(grow[N]) \in Nat
    BY <2>1, FS_Subset, FS_CardinalityType
  <2>3. QED
    BY <1>1, <2>2
<1>14. QED
  BY <1>2, <1>13

(* Between inserts, on a layer too small to have been pruned edges go both *)
(* ways and every node can be reached from every other.                    *)
THEOREM SmallLayersNavigable == Spec => []Navigable
<1>1. IInv /\ Whole => Navigable
  <2> SUFFICES ASSUME IInv, Whole, task = Idle, NEW l \in DOMAIN layers, Small(l),
                      NEW n \in OnLayer(l)
               PROVE  /\ \A o \in Range(layers[l][n]) : n \in Range(layers[l][o])
                      /\ Reached(l, n) = OnLayer(l)
    BY DEF Navigable, Small
  <2>1. Linked(l) = OnLayer(l) /\ OnLayer(l) \subseteq Nodes
    BY DEF Linked, Inserting, OnLayer
  <2>2. Mutual(layers[l]) /\ Joined(layers[l], OnLayer(l))
    BY <2>1 DEF Whole, Unpruned
  <2>3. Reached(l, n) = OnLayer(l)
    BY <2>2, Reaches
  <2>4. QED
    BY <2>1, <2>2, <2>3 DEF Mutual
<1>2. QED
  BY <1>1, InductiveInvariant, WholeInvariant, PTL
=============================================================================
