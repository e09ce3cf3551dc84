---------------------------- MODULE SearchLemmas ----------------------------
(***************************************************************************)
(* Facts that the proofs about every kind of search rest on: about natural *)
(* numbers, about folds, and about the bounded heap.                       *)
(*                                                                         *)
(* An induction is made with a set in place of a predicate, and rests on   *)
(* strict inclusion being well founded on finite sets.                     *)
(***************************************************************************)
EXTENDS BoundedMaxHeap, Sequences, SequencesExt, FiniteSetTheorems, TLAPS

(* A set of natural numbers that is not empty has a least member.  The     *)
(* sets 0 .. x are finite, and well-founded under strict inclusion.        *)
LEMMA Least ==
  ASSUME NEW S \in SUBSET Nat, S # {}
  PROVE  \E x \in S : \A y \in S : x <= y
<1> DEFINE T == {0 .. x : x \in S}
           R == StrictSubsetOrdering(Nat)
<1>1. T \subseteq FiniteSubsetsOf(Nat) /\ T # {}
  <2>1. ASSUME NEW x \in S PROVE 0 .. x \in FiniteSubsetsOf(Nat)
    <3>1. x \in Nat /\ x \in Int /\ 0 \in Int
      OBVIOUS
    <3>2. IsFiniteSet(0 .. x)
      BY <3>1, FS_Interval
    <3>3. QED
      BY <3>1, <3>2 DEF FiniteSubsetsOf
  <2>2. QED
    BY <2>1
<1>2. IsWellFoundedOn(R, FiniteSubsetsOf(Nat))
  BY FS_StrictSubsetOrderingWellFounded
<1> HIDE DEF R
<1>3. PICK I \in T : \A J \in T : <<J, I>> \notin R
  <2> HIDE DEF T
  <2>1. QED
    BY <1>1, <1>2, WFMin
<1>4. PICK x \in S : I = 0 .. x
  OBVIOUS
<1>5. \A y \in S : x <= y
  <2>1. SUFFICES ASSUME NEW y \in S, y < x PROVE FALSE
    OBVIOUS
  <2>2. 0 .. y \in SUBSET Nat /\ I \in SUBSET Nat /\ 0 .. y \subseteq I /\ 0 .. y # I
    BY <1>4, <2>1
  <2>3. <<0 .. y, I>> \in R
    BY <2>2 DEF R, StrictSubsetOrdering
  <2>4. QED
    BY <1>3, <2>3
<1>6. QED
  BY <1>5

(* What holds of 0, and of i + 1 when it holds of i, holds up to n.        *)
LEMMA Climb ==
  ASSUME NEW n \in Nat, NEW S, 0 \in S,
         \A i \in 0 .. n - 1 : i \in S => i + 1 \in S
  PROVE  \A i \in 0 .. n : i \in S
<1> DEFINE M == {i \in 0 .. n : i \notin S}
<1> SUFFICES ASSUME M # {} PROVE FALSE
  OBVIOUS
<1>1. M \in SUBSET Nat
  OBVIOUS
<1> HIDE DEF M
<1>2. PICK x \in M : \A y \in M : x <= y
  BY <1>1, Least
<1>3. x \in 0 .. n /\ x \notin S /\ x # 0
  BY DEF M
<1>4. x - 1 \notin M
  BY <1>1, <1>2, <1>3
<1>5. QED
  BY <1>3, <1>4 DEF M

Repeats(g, base, op) == g[0] = base /\ \A i \in Nat : g[i + 1] = op[g[i]]

(* A step repeated from a first value on, as often as one likes.           *)
LEMMA Iterates ==
  ASSUME NEW V, NEW base \in V, NEW op, \A v \in V : op[v] \in V
  PROVE  \E g \in [Nat -> V] : Repeats(g, base, op)
<1> DEFINE Chain(h, n) == /\ h \in [0 .. n -> V]
                          /\ h[0] = base
                          /\ \A i \in 0 .. n - 1 : h[i + 1] = op[h[i]]
           g == [n \in Nat |-> (CHOOSE h : Chain(h, n))[n]]
<1>1. ASSUME NEW n \in Nat PROVE \E h : Chain(h, n)
  <2> DEFINE S == {k \in 0 .. n : \E h : Chain(h, k)}
  <2>1. 0 \in S
    <3>1. Chain([i \in 0 .. 0 |-> base], 0)
      OBVIOUS
    <3> HIDE DEF Chain
    <3>2. QED
      BY <3>1
  <2>2. ASSUME NEW k \in 0 .. n - 1, k \in S PROVE k + 1 \in S
    <3>1. PICK h : Chain(h, k)
      BY <2>2
    <3> DEFINE e == [i \in 0 .. k + 1 |-> IF i = k + 1 THEN op[h[k]] ELSE h[i]]
    <3>2. \A i \in 0 .. k + 1 : i = k + 1 \/ i \in 0 .. k
      OBVIOUS
    <3>3. h[k] \in V /\ op[h[k]] \in V
      BY <3>1
    <3>4. e \in [0 .. k + 1 -> V]
      BY <3>1, <3>2, <3>3
    <3>5. e[0] = base /\ \A i \in 0 .. k : e[i + 1] = op[e[i]]
      <4>1. \A i \in 0 .. k : e[i] = h[i]
        OBVIOUS
      <4>2. \A i \in 0 .. k : i = k \/ i \in 0 .. k - 1
        OBVIOUS
      <4>3. \A i \in 0 .. k - 1 : e[i + 1] = h[i + 1] /\ e[i] = h[i]
        OBVIOUS
      <4>4. e[k + 1] = op[h[k]]
        OBVIOUS
      <4> HIDE DEF e
      <4>5. \A i \in 0 .. k : e[i + 1] = op[e[i]]
        BY <3>1, <4>1, <4>2, <4>3, <4>4
      <4>6. QED
        BY <3>1, <4>1, <4>5
    <3> HIDE DEF e
    <3>6. Chain(e, k + 1)
      BY <3>4, <3>5
    <3> HIDE DEF Chain
    <3>7. QED
      BY <3>6
  <2> HIDE DEF S
  <2>3. n \in 0 .. n /\ \A i \in 0 .. n : i \in S
    BY <2>1, <2>2, Climb
  <2>4. QED
    BY <2>3 DEF S
<1> DEFINE H(n) == CHOOSE h : Chain(h, n)
<1>2. \A n \in Nat : Chain(H(n), n)
  <2> TAKE n \in Nat
  <2> HIDE DEF Chain
  <2>1. QED
    BY <1>1
<1>3. \A n \in Nat : g[n] = H(n)[n]
  OBVIOUS
<1> HIDE DEF H, g
<1>4. \A n \in Nat : g[n] \in V
  <2> TAKE n \in Nat
  <2>1. n \in 0 .. n /\ H(n) \in [0 .. n -> V]
    BY <1>2
  <2>2. QED
    BY <1>3, <2>1
<1>5. g \in [Nat -> V]
  BY <1>4 DEF g
<1>6. g[0] = base
  BY <1>2, <1>3
<1>7. ASSUME NEW n \in Nat PROVE g[n + 1] = op[g[n]]
  <2>1. PICK h : h = H(n)
    OBVIOUS
  <2>2. PICK e : e = H(n + 1)
    OBVIOUS
  <2>3. Chain(h, n) /\ Chain(e, n + 1) /\ (n + 1) - 1 = n
    BY <1>2, <2>1, <2>2
  <2> DEFINE S == {i \in 0 .. n : h[i] = e[i]}
  <2>4. 0 \in S
    BY <2>3
  <2>5. ASSUME NEW i \in 0 .. n - 1, i \in S PROVE i + 1 \in S
    <3>1. i \in 0 .. n /\ i + 1 \in 0 .. n
      OBVIOUS
    <3>2. h[i + 1] = op[h[i]] /\ e[i + 1] = op[e[i]]
      BY <2>3, <3>1
    <3>3. QED
      BY <2>5, <3>1, <3>2
  <2> HIDE DEF S, Chain
  <2>6. n \in 0 .. n /\ \A i \in 0 .. n : i \in S
    BY <2>4, <2>5, Climb
  <2>7. e[n] = h[n]
    BY <2>6 DEF S
  <2>8. e[n + 1] = op[e[n]]
    BY <2>3, <2>6 DEF Chain
  <2>9. QED
    BY <1>3, <2>1, <2>2, <2>7, <2>8
<1>8. QED
  BY <1>5, <1>6, <1>7 DEF Repeats

-----------------------------------------------------------------------------
(* Recursion over a finite structure.  F computes a function anew from an  *)
(* old one and looks, for each argument, at those of a lower rank only:    *)
(* after as many rounds as there are ranks nothing changes any more.       *)
Rounds(F, D, V) == \A f \in [D -> V] : F[f] \in [D -> V]

Layered(F, D, V, rank) ==
  \A f, h \in [D -> V] : \A x \in D :
    (\A y \in D : rank[y] < rank[x] => f[y] = h[y]) => F[f][x] = F[h][x]

Settles(F, D, V) == \E f \in [D -> V] : F[f] = f

(* A recursion that only looks at lower ranks has a solution.              *)
LEMMA FixedPoint ==
  ASSUME NEW D, NEW V, NEW base \in [D -> V], NEW F, Rounds(F, D, V),
         NEW top \in Nat, NEW rank \in [D -> 0 .. top], Layered(F, D, V, rank)
  PROVE  Settles(F, D, V)
<1> DEFINE W == [D -> V]
<1>1. PICK g \in [Nat -> W] : Repeats(g, base, F)
  <2>1. base \in W /\ \A f \in W : F[f] \in W
    BY DEF Rounds
  <2> HIDE DEF W
  <2>2. QED
    BY <2>1, Iterates
<1>a. PICK n \in Nat : n = top + 1
  OBVIOUS
<1> DEFINE S == {i \in 0 .. n : \A x \in D : rank[x] < i => g[i + 1][x] = g[i][x]}
<1>2. n \in Nat /\ \A x \in D : rank[x] \in Nat /\ rank[x] < n
  BY <1>a
<1>3. 0 \in S
  BY <1>2
<1>4. ASSUME NEW i \in 0 .. n - 1, i \in S PROVE i + 1 \in S
  <2>1. i \in Nat /\ i + 1 \in Nat /\ i + 1 \in 0 .. n /\ (i + 1) + 1 \in Nat
    BY <1>2
  <2>2. g[i] \in W /\ g[i + 1] \in W
    BY <2>1
  <2>3. g[i + 1] = F[g[i]] /\ g[(i + 1) + 1] = F[g[i + 1]]
    BY <1>1, <2>1 DEF Repeats
  <2>4. ASSUME NEW x \in D, rank[x] < i + 1 PROVE F[g[i + 1]][x] = F[g[i]][x]
    <3>1. \A y \in D : rank[y] < rank[x] => g[i + 1][y] = g[i][y]
      <4> SUFFICES ASSUME NEW y \in D, rank[y] < rank[x] PROVE g[i + 1][y] = g[i][y]
        OBVIOUS
      <4>1. rank[y] < i
        BY <1>2, <2>1, <2>4
      <4>2. QED
        BY <1>4, <4>1
    <3>2. QED
      BY <2>2, <3>1 DEF Layered
  <2>5. QED
    BY <2>1, <2>3, <2>4
<1> HIDE DEF S
<1>5. n \in S
  <2>1. \A i \in 0 .. n - 1 : i \in S => i + 1 \in S
    BY <1>4
  <2>2. \A i \in 0 .. n : i \in S
    BY <1>3, <2>1, Climb, Zenon
  <2>3. QED
    BY <2>2
<1>6. g[n] \in W /\ g[n + 1] \in W /\ F[g[n]] = g[n + 1]
  BY <1>1, <1>2 DEF Repeats
<1>7. \A x \in D : g[n + 1][x] = g[n][x]
  BY <1>2, <1>5 DEF S
<1>8. g[n + 1] = g[n]
  BY <1>6, <1>7
<1>9. QED
  BY <1>6, <1>8 DEF Settles

(* A sum over a set: a member, any that CHOOSE gives, and what is left.    *)
Some(s) == CHOOSE x \in s : TRUE

Adds(iter, S, fun) ==
  \A s \in SUBSET S : iter[s] = IF s = {} THEN 0 ELSE fun[Some(s)] + iter[s \ {Some(s)}]

(* A set without one of its members is smaller.                            *)
LEMMA Fewer ==
  ASSUME NEW S, IsFiniteSet(S), NEW s \in SUBSET S, NEW x \in s
  PROVE  /\ s \ {x} \in SUBSET S
         /\ Cardinality(s) \in Nat /\ Cardinality(s \ {x}) \in Nat
         /\ Cardinality(s \ {x}) < Cardinality(s)
         /\ Cardinality(s) <= Cardinality(S) /\ Cardinality(S) \in Nat
<1>1. IsFiniteSet(s) /\ Cardinality(s) <= Cardinality(S)
  BY FS_Subset
<1>2. Cardinality(s) \in Nat /\ Cardinality(S) \in Nat
  BY <1>1, FS_CardinalityType
<1>3. IsFiniteSet(s \ {x}) /\ Cardinality(s \ {x}) = Cardinality(s) - 1
  BY <1>1, FS_RemoveElement
<1>4. Cardinality(s \ {x}) \in Nat
  BY <1>3, FS_CardinalityType
<1>5. QED
  BY <1>1, <1>2, <1>3, <1>4

(* What holds of a finite set when it holds of its parts with one member   *)
(* less holds of each part.                                                *)
LEMMA PartByPart ==
  ASSUME NEW S, IsFiniteSet(S), NEW P,
         \A s \in SUBSET S : (\A x \in s : s \ {x} \in P) => s \in P
  PROVE  \A s \in SUBSET S : s \in P
<1> DEFINE M == {Cardinality(s) : s \in {t \in SUBSET S : t \notin P}}
<1> SUFFICES ASSUME NEW w \in SUBSET S, w \notin P PROVE FALSE
  OBVIOUS
<1>1. M \in SUBSET Nat /\ M # {}
  <2>1. \A s \in SUBSET S : Cardinality(s) \in Nat
    BY FS_Subset, FS_CardinalityType
  <2>2. QED
    BY <2>1
<1> HIDE DEF M
<1>2. PICK m \in M : \A k \in M : m <= k
  BY <1>1, Least
<1>3. PICK s \in SUBSET S : s \notin P /\ m = Cardinality(s)
  BY DEF M
<1>4. PICK x \in s : s \ {x} \notin P
  BY <1>3
<1>5. s \ {x} \in SUBSET S /\ Cardinality(s \ {x}) < m /\ Cardinality(s \ {x}) \in Nat /\ m \in Nat
  BY <1>3, Fewer
<1>6. Cardinality(s \ {x}) \in M
  BY <1>4, <1>5 DEF M
<1>7. QED
  BY <1>2, <1>5, <1>6

(* The recursion by which a sum is computed has a solution.                *)
LEMMA SumExists ==
  ASSUME NEW S, IsFiniteSet(S), NEW fun \in [S -> Nat]
  PROVE  \E g \in [SUBSET S -> Nat] : Adds(g, S, fun)
<1> DEFINE D == SUBSET S
           F == [f \in [D -> Nat] |->
                   [s \in D |-> IF s = {} THEN 0 ELSE fun[Some(s)] + f[s \ {Some(s)}]]]
           rank == [s \in D |-> Cardinality(s)]
           top == Cardinality(S)
           base == [s \in D |-> 0]
<1>1. \A s \in D : s # {} => Some(s) \in s /\ s \ {Some(s)} \in D /\ Some(s) \in S
  BY DEF Some
<1>2. \A f \in [D -> Nat] : F[f] \in [D -> Nat]
  <2> TAKE f \in [D -> Nat]
  <2>1. \A s \in D : s # {} => fun[Some(s)] + f[s \ {Some(s)}] \in Nat
    BY <1>1
  <2>2. QED
    BY <2>1
<1>3. top \in Nat /\ rank \in [D -> 0 .. top] /\ base \in [D -> Nat]
  <2>1. \A s \in D : Cardinality(s) \in Nat /\ Cardinality(s) <= top
    BY FS_Subset, FS_CardinalityType
  <2>2. top \in Nat
    BY <2>1
  <2>3. QED
    BY <2>1, <2>2
<1>4. Layered(F, D, Nat, rank)
  <2> SUFFICES ASSUME NEW f \in [D -> Nat], NEW h \in [D -> Nat], NEW s \in D,
                      \A y \in D : rank[y] < rank[s] => f[y] = h[y]
               PROVE  F[f][s] = F[h][s]
    BY DEF Layered
  <2>1. ASSUME s # {} PROVE f[s \ {Some(s)}] = h[s \ {Some(s)}]
    <3>1. Some(s) \in s /\ s \ {Some(s)} \in D
      BY <1>1, <2>1
    <3>2. Cardinality(s \ {Some(s)}) < Cardinality(s)
      BY <3>1, Fewer
    <3>3. QED
      BY <3>1, <3>2
  <2>2. QED
    BY <2>1
<1> HIDE DEF D, F, rank, top, base
<1>5. PICK g \in [D -> Nat] : F[g] = g
  <2>1. \A f \in [D -> Nat] : F[f] \in [D -> Nat]
    BY <1>2
  <2>2. Rounds(F, D, Nat)
    BY <2>1 DEF Rounds
  <2>3. Settles(F, D, Nat)
    BY <1>3, <1>4, <2>2, FixedPoint
  <2>4. QED
    BY <2>3 DEF Settles
<1>6. \A s \in D : g[s] = IF s = {} THEN 0 ELSE fun[Some(s)] + g[s \ {Some(s)}]
  <2>1. F[g] = [s \in D |-> IF s = {} THEN 0 ELSE fun[Some(s)] + g[s \ {Some(s)}]]
    BY DEF F
  <2>2. QED
    BY <1>5, <2>1
<1>7. QED
  BY <1>6 DEF Adds, D

(* A sum is a number, no smaller than what it adds up, and does not depend *)
(* on the member that is taken first.                                      *)
LEMMA SumIsNumber ==
  ASSUME NEW S, IsFiniteSet(S), NEW fun \in [S -> Nat], NEW iter, Adds(iter, S, fun)
  PROVE  \A s \in SUBSET S : iter[s] \in Nat
<1> DEFINE P == {s \in SUBSET S : iter[s] \in Nat}
<1>1. ASSUME NEW s \in SUBSET S, \A x \in s : s \ {x} \in P
      PROVE  iter[s] \in Nat
  <2>1. CASE s = {}
    <3>1. iter[s] = 0
      BY <2>1 DEF Adds
    <3>2. QED
      BY <3>1
  <2>2. CASE s # {}
    <3>1. PICK y : y = Some(s)
      OBVIOUS
    <3>2. y \in s /\ iter[s] = fun[y] + iter[s \ {y}]
      BY <2>2, <3>1 DEF Adds, Some
    <3>3. iter[s \ {y}] \in Nat /\ fun[y] \in Nat
      BY <1>1, <3>2
    <3>4. QED
      BY <3>2, <3>3
  <2>3. QED
    BY <2>1, <2>2
<1>2. \A s \in SUBSET S : (\A x \in s : s \ {x} \in P) => s \in P
  BY <1>1
<1> HIDE DEF P
<1>3. \A s \in SUBSET S : s \in P
  BY <1>2, PartByPart
<1>4. QED
  BY <1>3 DEF P

(* A sum does not depend on the order: any member may be taken out         *)
(* first, and is no larger than the whole.                                 *)
LEMMA SumOf ==
  ASSUME NEW S, IsFiniteSet(S), NEW fun \in [S -> Nat], NEW iter, Adds(iter, S, fun)
  PROVE  \A s \in SUBSET S :
           /\ iter[s] \in Nat
           /\ \A x \in s : iter[s] = fun[x] + iter[s \ {x}] /\ fun[x] <= iter[s]
<1> DEFINE P == {s \in SUBSET S : \A x \in s : iter[s] = fun[x] + iter[s \ {x}]}
<1>1. \A s \in SUBSET S : iter[s] \in Nat
  BY SumIsNumber
<1>2. ASSUME NEW s \in SUBSET S, \A x \in s : s \ {x} \in P, NEW x \in s
      PROVE  iter[s] = fun[x] + iter[s \ {x}]
  <2>1. PICK y : y = Some(s)
    OBVIOUS
  <2>2. y \in s /\ iter[s] = fun[y] + iter[s \ {y}]
    BY <2>1 DEF Adds, Some
  <2>3. CASE x = y
    BY <2>2, <2>3
  <2>4. CASE x # y
    <3>1. PICK r \in SUBSET S : r = (s \ {x}) \ {y}
      OBVIOUS
    <3>2. x \in s \ {y} /\ y \in s \ {x} /\ (s \ {y}) \ {x} = r
      BY <2>2, <2>4, <3>1
    <3>3. iter[s \ {y}] = fun[x] + iter[r] /\ iter[s \ {x}] = fun[y] + iter[r]
      BY <1>2, <2>2, <3>1, <3>2
    <3>4. iter[r] \in Nat /\ fun[x] \in Nat /\ fun[y] \in Nat
      BY <1>1, <2>2
    <3>5. QED
      BY <2>2, <3>3, <3>4
  <2>5. QED
    BY <2>3, <2>4
<1>3. \A s \in SUBSET S : (\A x \in s : s \ {x} \in P) => s \in P
  BY <1>2
<1> HIDE DEF P
<1>4. \A s \in SUBSET S : s \in P
  BY <1>3, PartByPart
<1>5. ASSUME NEW s \in SUBSET S, NEW x \in s
      PROVE  iter[s] = fun[x] + iter[s \ {x}] /\ fun[x] <= iter[s]
  <2>1. iter[s] = fun[x] + iter[s \ {x}]
    BY <1>4 DEF P
  <2>2. iter[s] \in Nat /\ iter[s \ {x}] \in Nat /\ fun[x] \in Nat
    BY <1>1
  <2>3. QED
    BY <2>1, <2>2
<1>6. QED
  BY <1>1, <1>5

(* Sums of the same numbers are the same, whatever else is summed.         *)
LEMMA SameSums ==
  ASSUME NEW S, NEW R, NEW T \in SUBSET S, T \in SUBSET R, IsFiniteSet(T), NEW f, NEW h,
         NEW i, NEW j, Adds(i, S, f), Adds(j, R, h), \A x \in T : f[x] = h[x]
  PROVE  \A s \in SUBSET T : i[s] = j[s]
<1> DEFINE P == {s \in SUBSET T : i[s] = j[s]}
<1>1. ASSUME NEW s \in SUBSET T, \A x \in s : s \ {x} \in P
      PROVE  i[s] = j[s]
  <2>1. s \in SUBSET S /\ s \in SUBSET R
    OBVIOUS
  <2>2. CASE s = {}
    BY <2>1, <2>2 DEF Adds
  <2>3. CASE s # {}
    <3>1. PICK y : y = Some(s)
      OBVIOUS
    <3>2. y \in s /\ i[s] = f[y] + i[s \ {y}] /\ j[s] = h[y] + j[s \ {y}]
      BY <2>1, <2>3, <3>1 DEF Adds, Some
    <3>3. i[s \ {y}] = j[s \ {y}] /\ f[y] = h[y]
      BY <1>1, <3>2
    <3>4. QED
      BY <3>2, <3>3
  <2>4. QED
    BY <2>2, <2>3
<1>2. \A s \in SUBSET T : (\A x \in s : s \ {x} \in P) => s \in P
  BY <1>1
<1> HIDE DEF P
<1>3. \A s \in SUBSET T : s \in P
  BY <1>2, PartByPart
<1>4. QED
  BY <1>3 DEF P

(* When one number changes and the sum of all is no smaller, no sum is.    *)
ButFor(f, h, S, x) == \A y \in S \ {x} : f[y] = h[y]
Smaller(i, j, S)   == \A s \in SUBSET S : i[s] <= j[s]

(* Without x the sums are the same, and so f[x] cannot be the larger.      *)
LEMMA SumsGrow ==
  ASSUME NEW S, IsFiniteSet(S), NEW f \in [S -> Nat], NEW h \in [S -> Nat], NEW i, NEW j,
         Adds(i, S, f), Adds(j, S, h), NEW x, ButFor(f, h, S, x), i[S] <= j[S]
  PROVE  Smaller(i, j, S)
<1>1. \A s \in SUBSET S : i[s] \in Nat /\ j[s] \in Nat
  BY SumIsNumber
<1>2. \A s \in SUBSET (S \ {x}) : i[s] = j[s]
  <2>1. PICK T \in SUBSET S : T = S \ {x}
    OBVIOUS
  <2>2. IsFiniteSet(T) /\ \A y \in T : f[y] = h[y]
    BY <2>1, FS_Subset DEF ButFor
  <2>3. \A s \in SUBSET T : i[s] = j[s]
    BY <2>2, SameSums
  <2>4. QED
    BY <2>1, <2>3
<1>3. ASSUME NEW s \in SUBSET S, x \in s PROVE i[s] <= j[s]
  <2>1. /\ i[s] = f[x] + i[s \ {x}] /\ j[s] = h[x] + j[s \ {x}]
        /\ i[S] = f[x] + i[S \ {x}] /\ j[S] = h[x] + j[S \ {x}]
    <3>1. \A t \in SUBSET S :
            /\ i[t] \in Nat
            /\ \A y \in t : i[t] = f[y] + i[t \ {y}] /\ f[y] <= i[t]
      BY SumOf, Zenon
    <3>2. \A t \in SUBSET S :
            /\ j[t] \in Nat
            /\ \A y \in t : j[t] = h[y] + j[t \ {y}] /\ h[y] <= j[t]
      BY SumOf, Zenon
    <3>3. QED
      BY <1>3, <3>1, <3>2
  <2>2. i[s \ {x}] = j[s \ {x}] /\ i[S \ {x}] = j[S \ {x}]
    BY <1>2
  <2>3. f[x] \in Nat /\ h[x] \in Nat /\ i[s \ {x}] \in Nat /\ i[S \ {x}] \in Nat
    BY <1>1, <1>3
  <2>4. QED
    BY <2>1, <2>2, <2>3
<1>4. ASSUME NEW s \in SUBSET S, x \notin s PROVE i[s] <= j[s]
  <2>1. i[s] = j[s]
    BY <1>2, <1>4
  <2>2. QED
    BY <1>1, <2>1
<1>5. QED
  BY <1>3, <1>4 DEF Smaller

-----------------------------------------------------------------------------
(* Folds.  FoldLeft is defined by a recursion over the sets of positions   *)
(* that are left, largest position first.                                  *)
LEMMA MaxOf ==
  ASSUME NEW k \in Nat, NEW s \in SUBSET (1 .. k + 1), k + 1 \in s
  PROVE  Max(s) = k + 1
<1>1. \A y \in s : y \in Nat /\ k + 1 >= y
  OBVIOUS
<1>2. \A x \in s : (\A y \in s : x >= y) => x = k + 1
  BY <1>1
<1>3. QED
  BY <1>1, <1>2 DEF Max

(* A number of the set is the largest one.                                 *)
LEMMA MaxInside ==
  ASSUME NEW n \in Nat, NEW s \in SUBSET (1 .. n), s # {}
  PROVE  Max(s) \in s
<1> DEFINE T == {n - x : x \in s}
<1>1. T \in SUBSET Nat /\ T # {}
  <2>1. \A x \in s : x \in 1 .. n
    OBVIOUS
  <2>2. \A x \in s : n - x \in Nat
    BY <2>1
  <2>3. QED
    BY <2>2
<1> HIDE DEF T
<1>2. PICK t \in T : \A y \in T : t <= y
  BY <1>1, Least
<1>3. PICK x \in s : t = n - x
  BY DEF T
<1>4. \A y \in s : x >= y
  <2> TAKE y \in s
  <2>1. n - y \in T
    BY DEF T
  <2>2. QED
    BY <1>2, <1>3, <2>1
<1>5. QED
  BY <1>3, <1>4 DEF Max

(* iter is such a recursion, where op[i] takes what was computed from the  *)
(* positions before i one further.                                         *)
Recurs(iter, n, base, op) ==
  \A s \in SUBSET (1 .. n) :
    iter[s] = IF s = {} THEN base ELSE op[Max(s)][iter[s \ {Max(s)}]]

(* It is one as long as what it computes is in V.                          *)
RecursIn(iter, n, V, base, op) ==
  /\ iter[{}] = base
  /\ \A s \in SUBSET (1 .. n) :
       s # {} /\ iter[s \ {Max(s)}] \in V => iter[s] = op[Max(s)][iter[s \ {Max(s)}]]

(* And so it goes through the positions in order, from the first.          *)
Follows(h, n, base, op) ==
  /\ h[0] = base
  /\ \A i \in 1 .. n : h[i] = op[i][h[i - 1]]

(* The recursion has a solution, by induction on the number of positions.  *)
LEMMA FoldExists ==
  ASSUME NEW n \in Nat, NEW V, NEW base \in V, NEW op,
         \A v \in V, i \in 1 .. n : op[i][v] \in V
  PROVE  \E g \in [SUBSET (1 .. n) -> V] : Recurs(g, n, base, op)
<1> DEFINE Solves(g, k) ==
             /\ g \in [SUBSET (1 .. k) -> V]
             /\ \A s \in SUBSET (1 .. k) :
                  g[s] = IF s = {} THEN base ELSE op[Max(s)][g[s \ {Max(s)}]]
           S == {k \in 0 .. n : \E g : Solves(g, k)}
<1>1. 0 \in S
  <2> DEFINE g == [s \in SUBSET (1 .. 0) |-> base]
  <2>1. SUBSET (1 .. 0) = {{}}
    OBVIOUS
  <2>2. Solves(g, 0)
    BY <2>1
  <2>3. 0 \in 0 .. n
    OBVIOUS
  <2> HIDE DEF Solves, g
  <2>4. QED
    BY <2>2, <2>3
<1>2. ASSUME NEW k \in 0 .. n - 1, k \in S
      PROVE  k + 1 \in S
  <2>1. PICK g : Solves(g, k)
    BY <1>2
  <2> DEFINE e == [s \in SUBSET (1 .. k + 1) |->
                     IF k + 1 \in s THEN op[k + 1][g[s \ {k + 1}]] ELSE g[s]]
  <2>2. k \in Nat /\ k + 1 \in 1 .. n /\ k + 1 \in 0 .. n
    OBVIOUS
  <2>3. \A s \in SUBSET (1 .. k + 1) : s \ {k + 1} \in SUBSET (1 .. k)
    BY <2>2
  <2>4. e \in [SUBSET (1 .. k + 1) -> V]
    <3>1. ASSUME NEW s \in SUBSET (1 .. k + 1) PROVE e[s] \in V
      <4>1. g[s \ {k + 1}] \in V
        BY <2>1, <2>3
      <4>2. CASE k + 1 \in s
        BY <2>2, <4>1, <4>2
      <4>3. CASE k + 1 \notin s
        <5>1. s \ {k + 1} = s
          BY <4>3
        <5>2. QED
          BY <4>1, <4>3, <5>1
      <4>4. QED
        BY <4>2, <4>3
    <3>2. QED
      BY <3>1
  <2>5. ASSUME NEW s \in SUBSET (1 .. k + 1)
        PROVE  e[s] = IF s = {} THEN base ELSE op[Max(s)][e[s \ {Max(s)}]]
    <3>1. CASE k + 1 \in s
      <4>1. Max(s) = k + 1 /\ s # {}
        BY <2>2, <3>1, MaxOf
      <4>2. e[s \ {k + 1}] = g[s \ {k + 1}]
        <5>1. s \ {k + 1} \in SUBSET (1 .. k + 1) /\ k + 1 \notin s \ {k + 1}
          OBVIOUS
        <5>2. QED
          BY <5>1
      <4>3. QED
        BY <3>1, <4>1, <4>2
    <3>2. CASE k + 1 \notin s
      <4>1. s \in SUBSET (1 .. k) /\ e[s] = g[s]
        BY <2>3, <3>2
      <4>2. \A x : s \ {x} \in SUBSET (1 .. k + 1) /\ e[s \ {x}] = g[s \ {x}]
        BY <3>2
      <4>3. g[s] = IF s = {} THEN base ELSE op[Max(s)][g[s \ {Max(s)}]]
        BY <2>1, <4>1
      <4>4. QED
        BY <4>1, <4>2, <4>3
    <3>3. QED
      BY <3>1, <3>2
  <2> HIDE DEF e
  <2>6. Solves(e, k + 1)
    BY <2>4, <2>5
  <2>7. QED
    BY <2>2, <2>6
<1> HIDE DEF S
<1>3. n \in S
  BY <1>1, <1>2, Climb
<1>4. PICK g : Solves(g, n)
  BY <1>3 DEF S
<1>5. QED
  BY <1>4 DEF Recurs

(* What is a solution as far as it stays in V does, and stays there.       *)
LEMMA FoldChain ==
  ASSUME NEW n \in Nat, NEW V, NEW base \in V, NEW op, NEW iter,
         \A v \in V, i \in 1 .. n : op[i][v] \in V,
         RecursIn(iter, n, V, base, op)
  PROVE  \E h \in [0 .. n -> V] : Follows(h, n, base, op) /\ h[n] = iter[1 .. n]
<1> DEFINE h == [i \in 0 .. n |-> iter[1 .. i]]
           S == {i \in 0 .. n : h[i] \in V}
<1>0. /\ iter[{}] = base
      /\ \A s \in SUBSET (1 .. n) :
           s # {} /\ iter[s \ {Max(s)}] \in V => iter[s] = op[Max(s)][iter[s \ {Max(s)}]]
  BY DEF RecursIn
<1>1. h[0] = base /\ h[n] = iter[1 .. n]
  <2>1. 1 .. 0 = {}
    OBVIOUS
  <2>2. QED
    BY <1>0, <2>1
<1>2. ASSUME NEW i \in 1 .. n, h[i - 1] \in V
      PROVE  h[i] = op[i][h[i - 1]]
  <2>1. 1 .. i \in SUBSET (1 .. n) /\ 1 .. i # {} /\ (1 .. i) \ {i} = 1 .. i - 1
    <3>1. 1 .. i \in SUBSET (1 .. n)
      OBVIOUS
    <3>2. i \in 1 .. i
      OBVIOUS
    <3>3. \A j : j \in (1 .. i) \ {i} <=> j \in 1 .. i - 1
      OBVIOUS
    <3>4. QED
      BY <3>1, <3>2, <3>3
  <2>2. Max(1 .. i) = i
    <3>1. i - 1 \in Nat /\ (i - 1) + 1 = i /\ i \in 1 .. i
      OBVIOUS
    <3>2. QED
      BY <3>1, MaxOf
  <2>3. h[i - 1] = iter[1 .. i - 1] /\ h[i] = iter[1 .. i]
    OBVIOUS
  <2> HIDE DEF h
  <2>4. iter[(1 .. i) \ {Max(1 .. i)}] \in V
    BY <1>2, <2>1, <2>2, <2>3
  <2>5. iter[1 .. i] = op[Max(1 .. i)][iter[(1 .. i) \ {Max(1 .. i)}]]
    BY <1>0, <2>1, <2>4
  <2>6. QED
    BY <2>1, <2>2, <2>3, <2>5
<1> HIDE DEF h
<1>3. \A i \in 0 .. n : h[i] \in V
  <2>1. 0 \in S
    BY <1>1
  <2>2. ASSUME NEW i \in 0 .. n - 1, i \in S PROVE i + 1 \in S
    <3>1. i + 1 \in 1 .. n /\ (i + 1) - 1 = i /\ i + 1 \in 0 .. n
      OBVIOUS
    <3>2. h[i + 1] = op[i + 1][h[i]]
      BY <1>2, <2>2, <3>1
    <3>3. QED
      BY <2>2, <3>1, <3>2
  <2> HIDE DEF S
  <2>3. \A i \in 0 .. n : i \in S
    BY <2>1, <2>2, Climb
  <2>4. QED
    BY <2>3 DEF S
<1>4. h \in [0 .. n -> V]
  BY <1>3 DEF h
<1>5. \A i \in 1 .. n : h[i] = op[i][h[i - 1]]
  <2> TAKE i \in 1 .. n
  <2>1. i - 1 \in 0 .. n
    OBVIOUS
  <2>2. QED
    BY <1>2, <1>3, <2>1
<1>6. QED
  BY <1>1, <1>4, <1>5 DEF Follows
-----------------------------------------------------------------------------
(* The bounded heap.                                                       *)
Items == [id : Nat, score : Int]

IsTop(i, S) == i \in S /\ \A j \in S \ {i} : Precedes(j, i)

(* Every choice of items has a largest one.  Of a finite set this is true, *)
(* but it takes an induction to see; a push keeps it, which takes none.    *)
Topped(heap_) == \A S \in SUBSET heap_ : S # {} => \E i \in S : IsTop(i, S)

(* Precedes is a strict total order on items with distinct ids.            *)
LEMMA PrecedesOrder ==
  ASSUME NEW i \in Items, NEW j \in Items, NEW m \in Items
  PROVE  /\ Precedes(i, j) /\ Precedes(j, m) => Precedes(i, m)
         /\ Precedes(i, j) => i.score <= j.score
         /\ i.id # j.id => Precedes(i, j) \/ Precedes(j, i)
BY DEF Precedes, Items

(* The item that a full heap would give up is in it and is the largest.    *)
LEMMA TopIsTop ==
  ASSUME NEW H, H # {}, Topped(H)
  PROVE  IsTop(Top(H), H)
<1>1. \E i \in H : IsTop(i, H)
  BY DEF Topped
<1>2. QED
  BY <1>1 DEF Top, IsTop

(* A set stays topped when an item joins whose id is new to it.            *)
LEMMA ToppedGrows ==
  ASSUME NEW H \in SUBSET Items, NEW item \in Items, Topped(H),
         \A j \in H : j.id # item.id
  PROVE  Topped(H \cup {item})
<1> SUFFICES ASSUME NEW S \in SUBSET (H \cup {item}), S # {}
             PROVE  \E i \in S : IsTop(i, S)
  BY DEF Topped
<1>1. CASE S \subseteq H
  BY <1>1 DEF Topped
<1>2. CASE S = {item}
  BY <1>2 DEF IsTop
<1>3. CASE item \in S /\ S # {item}
  <2> DEFINE R == S \ {item}
  <2>1. R \in SUBSET H /\ R # {}
    BY <1>3
  <2>2. PICK t \in R : IsTop(t, R)
    BY <2>1 DEF Topped
  <2>3. t \in Items /\ t.id # item.id /\ t \in S
    BY <2>1, <2>2
  <2>4. Precedes(t, item) \/ Precedes(item, t)
    BY <2>3, PrecedesOrder
  <2>5. CASE Precedes(t, item)
    <3>1. ASSUME NEW j \in S \ {item} PROVE Precedes(j, item)
      <4>1. j \in Items /\ (j = t \/ Precedes(j, t))
        BY <2>1, <2>2 DEF IsTop
      <4>2. QED
        BY <4>1, <2>3, <2>5, PrecedesOrder
    <3>2. IsTop(item, S)
      BY <3>1, <1>3 DEF IsTop
    <3>3. QED
      BY <3>2, <1>3
  <2>6. CASE Precedes(item, t)
    <3>1. IsTop(t, S)
      BY <2>2, <2>3, <2>6 DEF IsTop
    <3>2. QED
      BY <3>1, <2>3
  <2>7. QED
    BY <2>4, <2>5, <2>6
<1>4. QED
  BY <1>1, <1>2, <1>3

(* A push of an item not seen before leaves a heap that is as good for the *)
(* items seen with it as the heap was for those seen before.               *)
LEMMA PushKeepsBest ==
  ASSUME NEW H \in SUBSET Items, NEW capacity \in Nat, NEW seen \in SUBSET Items,
         NEW item \in Items,
         IsFiniteSet(H), Topped(H), KeepsBest(H, capacity, seen),
         \A j \in seen : j.id # item.id
  PROVE  /\ Push(H, capacity, item) \in SUBSET Items
         /\ IsFiniteSet(Push(H, capacity, item))
         /\ Topped(Push(H, capacity, item))
         /\ KeepsBest(Push(H, capacity, item), capacity, seen \cup {item})
<1> DEFINE P == Push(H, capacity, item)
<1>1. /\ H \subseteq seen
      /\ Cardinality(H) \in Nat
      /\ Cardinality(H) <= capacity
      /\ Cardinality(H) < capacity => H = seen
      /\ \A kept \in H, lost \in seen \ H : kept.score <= lost.score
  BY FS_CardinalityType DEF KeepsBest
<1>2. item \notin seen /\ item \notin H /\ \A j \in H : j.id # item.id
  BY <1>1
<1>3. CASE capacity = 0
  <2>1. P = H
    BY <1>3 DEF Push
  <2>2. H = {}
    BY <1>1, <1>3, FS_EmptySet
  <2>3. QED
    BY <2>1, <2>2, <1>1, <1>3, FS_EmptySet DEF KeepsBest, Topped
<1>4. CASE capacity # 0 /\ Cardinality(H) < capacity
  <2>1. P = H \cup {item} /\ H = seen
    BY <1>1, <1>4 DEF Push
  <2>2. IsFiniteSet(P) /\ Cardinality(P) = Cardinality(H) + 1
    BY <2>1, <1>2, FS_AddElement
  <2>3. Topped(P)
    BY <2>1, <1>2, ToppedGrows
  <2>4. KeepsBest(P, capacity, seen \cup {item})
    BY <2>1, <2>2, <1>1, <1>4 DEF KeepsBest
  <2>5. QED
    BY <2>1, <2>2, <2>3, <2>4
<1>5. CASE capacity # 0 /\ ~(Cardinality(H) < capacity)
  <2> DEFINE t == Top(H)
  <2>1. Cardinality(H) = capacity /\ H # {}
    BY <1>1, <1>5, FS_EmptySet
  <2>2. t \in H /\ t \in Items /\ \A j \in H : j = t \/ Precedes(j, t)
    BY <2>1, TopIsTop DEF IsTop
  <2>3. \A j \in H : j.score <= t.score
    <3> SUFFICES ASSUME NEW j \in H PROVE j.score <= t.score
      OBVIOUS
    <3>1. j \in Items /\ (j = t \/ Precedes(j, t))
      BY <2>2
    <3>2. QED
      BY <3>1, <2>2, PrecedesOrder DEF Items
  <2>4. PeekWorst(H) = t.score
    BY DEF PeekWorst
  <2> HIDE DEF t
  <2>5. CASE item.score < t.score
    <3> DEFINE Q == H \ {t}
    <3>1. P = Q \cup {item}
      BY <1>5, <2>4, <2>5 DEF Push, t
    <3>2. IsFiniteSet(Q) /\ Cardinality(Q) = capacity - 1
      BY <2>1, <2>2, FS_RemoveElement
    <3>3. IsFiniteSet(P) /\ Cardinality(P) = capacity
      <4>1. item \notin Q
        BY <1>2
      <4>2. IsFiniteSet(Q \cup {item}) /\ Cardinality(Q \cup {item}) = (capacity - 1) + 1
        BY <4>1, <3>2, FS_AddElement
      <4>3. QED
        BY <4>2, <3>1
    <3>4. Topped(Q) /\ Q \in SUBSET Items
      BY DEF Topped
    <3>5. Topped(P) /\ P \in SUBSET Items
      BY <3>1, <3>4, <1>2, ToppedGrows
    <3>6. ASSUME NEW kept \in P, NEW lost \in (seen \cup {item}) \ P
          PROVE  kept.score <= lost.score
      <4>1. kept \in H \/ kept = item
        BY <3>1
      <4>2. lost = t \/ lost \in seen \ H
        BY <3>1
      <4>3. kept.score <= t.score /\ kept \in Items /\ lost \in Items
        BY <4>1, <4>2, <2>2, <2>3, <2>5, <1>1 DEF Items
      <4>4. t.score <= lost.score
        BY <4>2, <2>2, <1>1 DEF Items
      <4>5. QED
        BY <4>3, <4>4, <2>2 DEF Items
    <3>7. P \subseteq seen \cup {item}
      BY <3>1, <1>1
    <3>8. KeepsBest(P, capacity, seen \cup {item})
      BY <3>3, <3>6, <3>7 DEF KeepsBest
    <3>9. QED
      BY <3>3, <3>5, <3>8
  <2>6. CASE ~(item.score < t.score)
    <3>1. P = H
      BY <1>5, <2>4, <2>6 DEF Push
    <3>2. ASSUME NEW kept \in H, NEW lost \in (seen \cup {item}) \ H
          PROVE  kept.score <= lost.score
      <4>1. CASE lost = item
        BY <4>1, <2>2, <2>3, <2>6 DEF Items
      <4>2. CASE lost \in seen \ H
        BY <4>2, <1>1
      <4>3. QED
        BY <4>1, <4>2
    <3>3. KeepsBest(P, capacity, seen \cup {item})
      BY <3>1, <3>2, <2>1, <1>1 DEF KeepsBest
    <3>4. QED
      BY <3>1, <3>3
  <2>7. QED
    BY <2>5, <2>6
<1>6. QED
  BY <1>3, <1>4, <1>5

(* Ties.  With ascending ids the newcomer is the largest of all items with *)
(* its score, so that a heap that precedes what it turned away still does. *)
LEMMA PushKeepsOldest ==
  ASSUME NEW H \in SUBSET Items, NEW capacity \in Nat, NEW seen \in SUBSET Items,
         NEW item \in Items,
         IsFiniteSet(H), Topped(H), KeepsBest(H, capacity, seen),
         \A j \in seen : j.id < item.id,
         \A kept \in H, lost \in seen \ H : Precedes(kept, lost)
  PROVE  \A kept \in Push(H, capacity, item),
            lost \in (seen \cup {item}) \ Push(H, capacity, item) : Precedes(kept, lost)
<1> DEFINE P == Push(H, capacity, item)
<1>1. /\ H \subseteq seen
      /\ Cardinality(H) \in Nat
      /\ Cardinality(H) <= capacity
      /\ Cardinality(H) < capacity => H = seen
  BY FS_CardinalityType DEF KeepsBest
<1>2. CASE capacity = 0
  <2>1. P = H /\ H = {}
    BY <1>1, <1>2, FS_EmptySet DEF Push
  <2>2. QED
    BY <2>1
<1>3. CASE capacity # 0 /\ Cardinality(H) < capacity
  <2>1. P = H \cup {item} /\ H = seen
    BY <1>1, <1>3 DEF Push
  <2>2. QED
    BY <2>1
<1>4. CASE capacity # 0 /\ ~(Cardinality(H) < capacity)
  <2> DEFINE t == Top(H)
  <2>1. H # {}
    BY <1>1, <1>4, FS_EmptySet
  <2>2. t \in H /\ t \in Items /\ \A j \in H : j = t \/ Precedes(j, t)
    BY <2>1, TopIsTop DEF IsTop
  <2>3. P = IF item.score < t.score THEN (H \ {t}) \cup {item} ELSE H
    BY <1>4 DEF Push, PeekWorst
  <2> HIDE DEF P, t
  <2>4. CASE item.score < t.score
    <3> SUFFICES ASSUME NEW kept \in P, NEW lost \in (seen \cup {item}) \ P
                 PROVE  Precedes(kept, lost)
      BY DEF P
    <3>1. Precedes(item, t)
      BY <2>4 DEF Precedes
    <3>2. kept = item \/ kept \in H \ {t}
      BY <2>3, <2>4
    <3>3. Precedes(kept, t)
      BY <2>2, <3>1, <3>2
    <3>4. lost = t \/ lost \in seen \ H
      BY <2>3, <2>4
    <3>5. lost = t \/ Precedes(t, lost)
      BY <2>2, <3>4
    <3>6. kept \in Items /\ lost \in Items
      BY <1>1, <2>2, <3>2, <3>4
    <3>7. QED
      BY <2>2, <3>3, <3>5, <3>6, PrecedesOrder
  <2>5. CASE ~(item.score < t.score)
    <3> SUFFICES ASSUME NEW kept \in H, NEW lost \in (seen \cup {item}) \ H
                 PROVE  Precedes(kept, lost)
      BY <2>3, <2>5 DEF P
    <3>1. Precedes(t, item)
      <4>1. t.id < item.id
        BY <1>1, <2>2
      <4>2. QED
        BY <2>2, <2>5, <4>1 DEF Precedes, Items
    <3>2. Precedes(kept, item)
      BY <2>2, <3>1, PrecedesOrder
    <3>3. QED
      BY <3>2
  <2>6. QED
    BY <2>4, <2>5
<1>5. QED
  BY <1>2, <1>3, <1>4
=============================================================================
