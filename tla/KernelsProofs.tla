---------------------------- MODULE KernelsProofs ---------------------------
(***************************************************************************)
(* Proofs about Kernels for every host and for slices of every length.     *)
(* The number of lanes is 4 or 8, and the arithmetic of the loops is       *)
(* proved for each, with % and \div by a numeral.                          *)
(***************************************************************************)
EXTENDS Kernels, TLAPS

-----------------------------------------------------------------------------
(* Multiples: the largest one of n below m, the next one, and those of 4n. *)

LEMMA Floor ==
  ASSUME NEW m \in Nat, NEW n \in {4, 8, 16, 32}
  PROVE  /\ m - (m % n) \in Nat
         /\ m - (m % n) <= m
         /\ (m - (m % n)) % n = 0
<1>1. CASE n = 4
  BY <1>1
<1>2. CASE n = 8
  BY <1>2
<1>3. CASE n = 16
  BY <1>3
<1>4. CASE n = 32
  BY <1>4
<1> QED
  BY <1>1, <1>2, <1>3, <1>4

LEMMA Stride ==
  ASSUME NEW m \in Nat, NEW e \in Nat, NEW n \in {4, 8, 16, 32},
         m % n = 0, e % n = 0, m < e
  PROVE  m + n <= e /\ (m + n) % n = 0
<1>1. CASE n = 4
  BY <1>1
<1>2. CASE n = 8
  BY <1>2
<1>3. CASE n = 16
  BY <1>3
<1>4. CASE n = 32
  BY <1>4
<1> QED
  BY <1>1, <1>2, <1>3, <1>4

LEMMA Coarser ==
  ASSUME NEW m \in Nat, NEW n \in {4, 8}
  PROVE  /\ m % (4 * n) = 0 => m % n = 0
         /\ m - (m % (4 * n)) <= m - (m % n)
<1>1. CASE n = 4
  BY <1>1
<1>2. CASE n = 8
  BY <1>2
<1> QED
  BY <1>1, <1>2

-----------------------------------------------------------------------------
(* The inductive invariant.  InLane is where the loops have put the terms  *)
(* so far: element k in lane k % LANES, of the accumulator of its block.   *)
InLane(r, l) ==
  {k \in 0 .. i - 1 :
     /\ k % LANES = l
     /\ Kernel.unroll = 4 => r = (IF k < unroll_end THEN (k \div LANES) % 4 ELSE 0)}

TypeInv ==
  /\ host \in Host
  /\ fn \in Fns
  /\ a_len \in Nat /\ b_len \in Nat /\ i \in Nat
  /\ pc \in {"idle", "enter", "vector", "tail", "done", "panicked"}

Filled ==
  /\ DOMAIN acc = Register
  /\ \A r \in Register :
       /\ DOMAIN acc[r] = Lane
       /\ \A l \in Lane : \E K \in SUBSET (0 .. a_len - 1) : acc[r][l] = Once(TermOf(r), K)

Placed ==
  acc = [r \in Register |-> [l \in Lane |-> Once(TermOf(r), InLane(r, l))]]

Summed == sum = [s \in Sums |-> Once(Kernel.terms[s], 0 .. i - 1)]

KernelInv ==
  /\ TypeInv
  /\ pc \in {"idle", "enter"} => acc = << >> /\ sum = << >> /\ i = 0
  /\ pc = "panicked" => /\ acc = [r \in Register |-> [l \in Lane |-> EmptyBag]]
                        /\ sum = [s \in Sums |-> EmptyBag]
  /\ pc \in {"vector", "tail", "done"} => a_len = b_len /\ i <= a_len
  /\ pc = "vector" =>
       /\ LANES # 0
       /\ i <= lanes_end /\ i % LANES = 0
       /\ i <= unroll_end => Kernel.unroll = 1 \/ i % Block = 0
       /\ Placed
       /\ sum = [s \in Sums |-> EmptyBag]
  /\ pc \in {"tail", "done"} => Filled /\ Summed
  /\ pc = "done" => i = a_len

(* The terms of a kernel are made of elements of a and b, and a kernel of  *)
(* more than one term has one accumulator for each.                        *)
OfSlices(ts) ==
  /\ DOMAIN ts = 1 .. Len(ts)
  /\ \A s \in 1 .. Len(ts) : ts[s][2] \in {"a", "b"} /\ ts[s][3] \in {"a", "b"}

LEMMA TermLists ==
  /\ OfSlices(DotTerms) /\ Len(DotTerms) = 1
  /\ OfSlices(EuclideanTerms) /\ Len(EuclideanTerms) = 1
  /\ OfSlices(CosineTerms) /\ Len(CosineTerms) = 3
<1>1. OfSlices(DotTerms) /\ Len(DotTerms) = 1
  BY DEF OfSlices, DotTerms, Product
<1>2. OfSlices(EuclideanTerms) /\ Len(EuclideanTerms) = 1
  <2> DEFINE x == SquaredDiff
  <2>1. x[2] \in {"a", "b"} /\ x[3] \in {"a", "b"}
    BY DEF SquaredDiff
  <2> HIDE DEF x
  <2>2. EuclideanTerms = <<x>>
    BY DEF EuclideanTerms, x
  <2> QED
    BY <2>1, <2>2 DEF OfSlices
<1>3. OfSlices(CosineTerms) /\ Len(CosineTerms) = 3
  <2> DEFINE x == Product("a", "b")
             y == Product("a", "a")
             z == Product("b", "b")
  <2>1. \A t \in {x, y, z} : t[2] \in {"a", "b"} /\ t[3] \in {"a", "b"}
    BY DEF Product
  <2> HIDE DEF x, y, z
  <2>2. /\ Len(<<x, y, z>>) = 3 /\ DOMAIN <<x, y, z>> = 1 .. 3
        /\ \A s \in 1 .. 3 : <<x, y, z>>[s] \in {x, y, z}
    OBVIOUS
  <2>3. CosineTerms = <<x, y, z>>
    BY DEF CosineTerms, x, y, z
  <2> QED
    BY <2>1, <2>2, <2>3 DEF OfSlices
<1> QED
  BY <1>1, <1>2, <1>3

LEMMA KernelShape ==
  ASSUME TypeInv
  PROVE  /\ LANES \in {0, 4, 8}
         /\ Kernel.unroll = 1 \/ (Kernel.unroll = 4 /\ LANES \in {4, 8} /\ Len(Kernel.terms) = 1)
         /\ Kernel.terms = scalar(fn).terms
         /\ OfSlices(Kernel.terms) /\ Len(Kernel.terms) \in {1, 3}
<1>1. CASE fn = "dot_product"
  <2>1. Kernel \in {dot_avx2, dot_neon, scalar(fn)}
    BY <1>1 DEF Kernel, dispatch
  <2>2. scalar(fn) = [terms |-> DotTerms, lanes |-> 0, unroll |-> 1]
    BY <1>1 DEF scalar
  <2> QED
    BY <2>1, <2>2, TermLists DEF dot_avx2, dot_neon, LANES
<1>2. CASE fn = "euclidean"
  <2>1. Kernel \in {euclidean_avx2, euclidean_neon, scalar(fn)}
    BY <1>2 DEF Kernel, dispatch
  <2>2. scalar(fn) = [terms |-> EuclideanTerms, lanes |-> 0, unroll |-> 1]
    BY <1>2 DEF scalar
  <2> QED
    BY <2>1, <2>2, TermLists DEF euclidean_avx2, euclidean_neon, LANES
<1>3. CASE fn = "cosine"
  <2>1. Kernel \in {cosine_avx2, cosine_neon, scalar(fn)}
    BY <1>3 DEF Kernel, dispatch
  <2>2. scalar(fn) = [terms |-> CosineTerms, lanes |-> 0, unroll |-> 1]
    BY <1>3 DEF scalar
  <2> QED
    BY <2>1, <2>2, TermLists DEF cosine_avx2, cosine_neon, LANES
<1> QED
  BY <1>1, <1>2, <1>3 DEF TypeInv, Fns

LEMMA TermShape ==
  ASSUME TypeInv
  PROVE  /\ \A r \in Register : TermOf(r) \in {Kernel.terms[s] : s \in Sums}
         /\ Kernel.unroll = 4 => Register = 0 .. 3 /\ Sums = {1} /\ \A r : TermOf(r) = Kernel.terms[1]
         /\ Kernel.unroll = 1 => /\ \A s \in Sums : s - 1 \in Register /\ TermOf(s - 1) = Kernel.terms[s]
                                 /\ \A r \in Register : r + 1 \in Sums
         /\ 0 \in Register /\ 1 \in Sums
<1>1. 1 \in Sums /\ Sums \subseteq 1 .. 3
  <2>1. Len(Kernel.terms) = 1 \/ Len(Kernel.terms) = 3
    BY KernelShape
  <2>2. Sums = 1 .. 1 \/ Sums = 1 .. 3
    BY <2>1 DEF Sums
  <2> QED
    BY <2>2
<1>2. CASE Kernel.unroll = 4
  <2>1. Len(Kernel.terms) = 1
    BY <1>2, KernelShape
  <2>2. Sums = {1} /\ Register = 0 .. 3
    BY <1>2, <2>1 DEF Sums, Register
  <2>3. \A r : TermOf(r) = Kernel.terms[1]
    BY <1>2 DEF TermOf
  <2> QED
    BY <1>2, <2>2, <2>3
<1>3. CASE Kernel.unroll = 1
  <2>1. Register = {s - 1 : s \in Sums}
    BY <1>3 DEF Register
  <2>2. \A r : TermOf(r) = Kernel.terms[r + 1]
    BY <1>3 DEF TermOf
  <2>3. \A s \in Sums : s - 1 \in Register /\ TermOf(s - 1) = Kernel.terms[s]
    BY <1>1, <2>1, <2>2
  <2>4. \A r \in Register : r + 1 \in Sums
    BY <1>1, <2>1
  <2>5. 0 \in Register
    BY <1>1, <2>1
  <2>6. \A r \in Register : TermOf(r) \in {Kernel.terms[s] : s \in Sums}
    BY <2>2, <2>4
  <2> QED
    BY <1>1, <1>3, <2>3, <2>4, <2>5, <2>6
<1> QED
  BY <1>2, <1>3, KernelShape

LEMMA LoopEnds ==
  ASSUME TypeInv, LANES # 0
  PROVE  /\ unroll_end \in Nat /\ lanes_end \in Nat
         /\ unroll_end <= lanes_end /\ lanes_end <= a_len
         /\ lanes_end % LANES = 0 /\ unroll_end % LANES = 0
         /\ Kernel.unroll = 4 => Block = 4 * LANES /\ unroll_end % Block = 0
         /\ Kernel.unroll = 1 => unroll_end = 0
<1>1. LANES \in {4, 8} /\ a_len \in Nat
  BY KernelShape DEF TypeInv
<1>2. /\ lanes_end \in Nat /\ lanes_end <= a_len /\ lanes_end % LANES = 0
  BY <1>1, Floor DEF lanes_end
<1>3. CASE Kernel.unroll = 4
  <2>1. Block = 4 * LANES
    BY <1>1, <1>3 DEF Block
  <2>2. Block \in {16, 32}
    BY <1>1, <2>1
  <2>3. unroll_end \in Nat /\ unroll_end % Block = 0
    BY <1>1, <1>3, <2>2, Floor DEF unroll_end
  <2>4. unroll_end % LANES = 0 /\ unroll_end <= lanes_end
    BY <1>1, <1>3, <2>1, <2>3, Coarser DEF unroll_end, lanes_end
  <2> QED
    BY <1>2, <1>3, <2>1, <2>3, <2>4
<1>4. CASE Kernel.unroll = 1
  BY <1>1, <1>2, <1>4 DEF unroll_end
<1> QED
  BY <1>3, <1>4, KernelShape

LEMMA OnceUnion ==
  ASSUME NEW t, NEW K, NEW J, K \cap J = {}
  PROVE  Once(t, K) (+) Once(t, J) = Once(t, K \cup J)
<1> DEFINE A == {Term(t, k) : k \in K}
           B == {Term(t, k) : k \in J}
           C == {Term(t, k) : k \in K \cup J}
<1>1. C = A \cup B
  OBVIOUS
<1>2. A \cap B = {}
  BY DEF Term
<1>3. SetToBag(A) (+) SetToBag(B) = SetToBag(A \cup B)
  BY <1>2 DEF SetToBag, (+)
<1> QED
  BY <1>1, <1>3 DEF Once

LEMMA OnceMore ==
  ASSUME NEW t, NEW K, NEW k, k \notin K
  PROVE  Once(t, K) (+) SetToBag({Term(t, k)}) = Once(t, K \cup {k})
<1>1. SetToBag({Term(t, k)}) = Once(t, {k})
  BY DEF Once
<1> QED
  BY <1>1, OnceUnion

LEMMA OnceNone ==
  ASSUME NEW t
  PROVE  Once(t, {}) = EmptyBag
BY DEF Once, EmptyBag, SetToBag

(* What is read to make a bag of terms of elements below a_len is inside.  *)
LEMMA OnceInside ==
  ASSUME TypeInv, a_len = b_len,
         NEW s \in Sums, NEW K \in SUBSET (0 .. a_len - 1),
         NEW e \in Reads(Once(Kernel.terms[s], K))
  PROVE  Inside(e)
<1> DEFINE t == Kernel.terms[s]
<1>1. DOMAIN Once(t, K) = {Term(t, k) : k \in K}
  BY DEF Once, SetToBag
<1>2. PICK k \in K : e = Term(t, k)[2] \/ e = Term(t, k)[3]
  BY <1>1 DEF Reads
<1>3. e[2] = k
  BY <1>2 DEF Term
<1> QED
  BY <1>3 DEF Inside, TypeInv

-----------------------------------------------------------------------------
(* A kernel keeps its shape while it runs.                                 *)
LEMMA SameKernel ==
  ASSUME UNCHANGED <<host, fn, a_len>>
  PROVE  /\ Kernel' = Kernel /\ LANES' = LANES /\ Block' = Block /\ Lane' = Lane
         /\ Sums' = Sums /\ Register' = Register
         /\ unroll_end' = unroll_end /\ lanes_end' = lanes_end
<1>1. Kernel' = Kernel
  BY DEF Kernel, dispatch, scalar
<1>2. LANES' = LANES /\ Sums' = Sums /\ Register' = Register
  BY <1>1 DEF LANES, Sums, Register
<1> QED
  BY <1>1, <1>2 DEF Block, Lane, unroll_end, lanes_end

LEMMA UnrolledLoopPlaces ==
  ASSUME KernelInv, UnrolledLoop
  PROVE  /\ i' \in Nat /\ i' <= lanes_end /\ i' % LANES = 0 /\ i' % Block = 0
         /\ Placed'
<1>1. TypeInv /\ LANES # 0 /\ Placed
  BY DEF KernelInv, UnrolledLoop
<1>2. /\ LANES \in {4, 8} /\ Kernel.unroll = 4 /\ Block = 4 * LANES /\ Block \in {16, 32}
      /\ Register = 0 .. 3
  <2>1. Kernel.unroll = 4
    BY <1>1, LoopEnds, KernelShape DEF UnrolledLoop, TypeInv
  <2>2. LANES = 4 \/ LANES = 8
    BY <1>1, KernelShape
  <2>3. Block = 4 * LANES
    BY <1>1, <2>1, LoopEnds
  <2> QED
    BY <1>1, <2>1, <2>2, <2>3, TermShape
<1>3. /\ unroll_end \in Nat /\ unroll_end % Block = 0 /\ unroll_end <= lanes_end /\ lanes_end \in Nat
  BY <1>1, <1>2, LoopEnds
<1>4. i \in Nat /\ i % Block = 0 /\ i < unroll_end /\ i' = i + Block
  BY <1>2, <1>3 DEF KernelInv, TypeInv, UnrolledLoop
<1>5. i' \in Nat /\ i' <= unroll_end /\ i' % Block = 0
  <2>1. Block \in {4, 8, 16, 32}
    BY <1>2
  <2>2. i + Block <= unroll_end /\ (i + Block) % Block = 0
    BY <1>3, <1>4, <2>1, Stride
  <2> QED
    BY <1>2, <1>4, <2>2
<1>6. i' % LANES = 0
  BY <1>2, <1>5, Coarser
<1>7. UNCHANGED <<host, fn, a_len>>
  BY DEF UnrolledLoop
<1>8. ASSUME NEW r \in Register, NEW l \in Lane
      PROVE  acc'[r][l] = Once(TermOf(r), InLane(r, l)')
  <2> DEFINE k == i + r * LANES + l
  <2>1. l \in 0 .. LANES - 1 /\ r \in 0 .. 3
    BY <1>2 DEF Lane
  <2>2. k \in i .. i + 4 * LANES - 1
    BY <1>2, <1>4, <2>1
  <2>3. k \notin InLane(r, l)
    BY <1>4, <2>2 DEF InLane
  <2>4. acc'[r][l] = acc[r][l] (+) SetToBag({Term(TermOf(r), i + r * LANES + l)})
    BY DEF UnrolledLoop, fmadd
  <2>5. acc[r][l] = Once(TermOf(r), InLane(r, l))
    BY <1>1 DEF Placed
  <2>6. InLane(r, l)' = InLane(r, l) \cup {k}
    <3>1. InLane(r, l)' = {j \in 0 .. i' - 1 :
                             j % LANES = l /\ r = (IF j < unroll_end THEN (j \div LANES) % 4 ELSE 0)}
      BY <1>2, <1>7, SameKernel DEF InLane
    <3>2. InLane(r, l) = {j \in 0 .. i - 1 :
                             j % LANES = l /\ r = (IF j < unroll_end THEN (j \div LANES) % 4 ELSE 0)}
      BY <1>2 DEF InLane
    <3>3. \A j \in i .. i + 4 * LANES - 1 :
            /\ j < unroll_end
            /\ (j % LANES = l /\ (j \div LANES) % 4 = r) <=> j = k
      <4>1. \A j \in i .. i + 4 * LANES - 1 : j < unroll_end
        BY <1>2, <1>3, <1>4, <1>5
      <4>2. i % (4 * LANES) = 0
        BY <1>2, <1>4
      <4>3. \A j \in i .. i + 4 * LANES - 1 :
              j % LANES = l /\ (j \div LANES) % 4 = r <=> j = i + r * LANES + l
        <5> TAKE j \in i .. i + 4 * LANES - 1
        <5>1. CASE LANES = 4
          BY <1>4, <2>1, <4>2, <5>1
        <5>2. CASE LANES = 8
          BY <1>4, <2>1, <4>2, <5>2
        <5> QED
          BY <1>2, <5>1, <5>2
      <4> QED
        BY <4>1, <4>3
    <3>4. 0 .. i' - 1 = (0 .. i - 1) \cup (i .. i + 4 * LANES - 1)
      BY <1>2, <1>4
    <3> HIDE DEF k
    <3>5. \A j \in 0 .. i' - 1 : j \in InLane(r, l)' <=> j \in InLane(r, l) \/ j = k
      <4> TAKE j \in 0 .. i' - 1
      <4>1. CASE j \in 0 .. i - 1
        <5>1. j # k
          BY <1>2, <1>4, <2>2, <4>1
        <5> QED
          BY <3>1, <3>2, <4>1, <5>1
      <4>2. CASE j \in i .. i + 4 * LANES - 1
        <5>1. j \notin InLane(r, l)
          BY <1>2, <1>4, <3>2, <4>2
        <5> QED
          BY <3>1, <3>3, <4>2, <5>1
      <4> QED
        BY <3>4, <4>1, <4>2
    <3>6. k \in 0 .. i' - 1 /\ InLane(r, l) \subseteq 0 .. i' - 1 /\ InLane(r, l)' \subseteq 0 .. i' - 1
      BY <2>2, <3>1, <3>2, <3>4
    <3> QED
      BY <3>5, <3>6
  <2> QED
    BY <2>3, <2>4, <2>5, <2>6, OnceMore
<1>9. \A r : TermOf(r)' = TermOf(r)
  BY <1>7, SameKernel DEF TermOf
<1>10. acc' = [r \in Register |-> [l \in Lane |-> acc'[r][l]]]
  BY DEF UnrolledLoop, fmadd
<1>11. Placed'
  BY <1>7, <1>8, <1>9, <1>10, SameKernel DEF Placed
<1> QED
  BY <1>3, <1>5, <1>6, <1>11

LEMMA LanesLoopPlaces ==
  ASSUME KernelInv, LanesLoop
  PROVE  /\ i' \in Nat /\ i' <= lanes_end /\ i' % LANES = 0 /\ unroll_end < i'
         /\ Placed'
<1>1. TypeInv /\ LANES # 0 /\ Placed
  BY DEF KernelInv, LanesLoop
<1>2. /\ LANES \in {4, 8}
      /\ unroll_end \in Nat /\ lanes_end \in Nat /\ lanes_end % LANES = 0
      /\ i \in Nat /\ i % LANES = 0 /\ unroll_end <= i /\ i < lanes_end /\ i' = i + LANES
  BY <1>1, KernelShape, LoopEnds DEF KernelInv, LanesLoop, TypeInv
<1>3. i' <= lanes_end /\ i' % LANES = 0
  <2>1. CASE LANES = 4
    BY <1>2, <2>1
  <2>2. CASE LANES = 8
    BY <1>2, <2>2
  <2> QED
    BY <1>2, <2>1, <2>2
<1>4. UNCHANGED <<host, fn, a_len>>
  BY DEF LanesLoop
<1>5. Kernel.unroll = 1 \/ Kernel.unroll = 4
  BY <1>1, KernelShape
<1>6. ASSUME NEW r \in Register, NEW l \in Lane
      PROVE  acc'[r][l] = Once(TermOf(r), InLane(r, l)')
  <2> DEFINE k == i + l
  <2>1. l \in 0 .. LANES - 1
    BY DEF Lane
  <2>2. k \in i .. i + LANES - 1
    BY <1>2, <2>1
  <2>3. \A j \in i .. i + LANES - 1 : j % LANES = l <=> j = k
    <3> TAKE j \in i .. i + LANES - 1
    <3>1. CASE LANES = 4
      BY <1>2, <2>1, <3>1
    <3>2. CASE LANES = 8
      BY <1>2, <2>1, <3>2
    <3> QED
      BY <1>2, <3>1, <3>2
  <2>4. /\ acc[r][l] = Once(TermOf(r), InLane(r, l))
        /\ acc'[r][l] = IF r = 0 \/ Kernel.unroll = 1
                          THEN acc[r][l] (+) SetToBag({Term(TermOf(r), k)})
                          ELSE acc[r][l]
    BY <1>1 DEF Placed, LanesLoop, fmadd
  <2>5. InLane(r, l)' = {j \in 0 .. i' - 1 :
                           /\ j % LANES = l
                           /\ Kernel.unroll = 4 => r = (IF j < unroll_end THEN (j \div LANES) % 4 ELSE 0)}
    BY <1>4, SameKernel DEF InLane
  <2>6. 0 .. i' - 1 = (0 .. i - 1) \cup (i .. i + LANES - 1)
    BY <1>2
  <2>7. \A j \in i .. i + LANES - 1 : j \notin 0 .. i - 1 /\ ~ (j < unroll_end)
    BY <1>2
  <2> HIDE DEF k
  <2>8. CASE r = 0 \/ Kernel.unroll = 1
    <3>1. k \notin InLane(r, l)
      BY <2>2, <2>7 DEF InLane
    <3>2. \A j \in i .. i + LANES - 1 : j \in InLane(r, l)' <=> j = k
      BY <1>5, <2>3, <2>5, <2>6, <2>7, <2>8
    <3>3. \A j \in 0 .. i - 1 : j \in InLane(r, l)' <=> j \in InLane(r, l)
      BY <2>5, <2>6 DEF InLane
    <3>4. InLane(r, l)' \subseteq 0 .. i' - 1 /\ InLane(r, l) \subseteq 0 .. i - 1
      BY <2>5 DEF InLane
    <3>5. InLane(r, l)' = InLane(r, l) \cup {k}
      BY <2>2, <2>6, <2>7, <3>2, <3>3, <3>4
    <3> QED
      BY <2>4, <2>8, <3>1, <3>5, OnceMore
  <2>9. CASE ~ (r = 0 \/ Kernel.unroll = 1)
    <3>1. \A j \in i .. i + LANES - 1 : j \notin InLane(r, l)'
      BY <1>5, <2>5, <2>7, <2>9
    <3>2. \A j \in 0 .. i - 1 : j \in InLane(r, l)' <=> j \in InLane(r, l)
      BY <2>5, <2>6 DEF InLane
    <3>3. InLane(r, l)' \subseteq 0 .. i' - 1 /\ InLane(r, l) \subseteq 0 .. i - 1
      BY <2>5 DEF InLane
    <3>4. InLane(r, l)' = InLane(r, l)
      BY <2>6, <3>1, <3>2, <3>3
    <3> QED
      BY <2>4, <2>9, <3>4
  <2> QED
    BY <2>8, <2>9
<1>7. \A r : TermOf(r)' = TermOf(r)
  BY <1>4, SameKernel DEF TermOf
<1>8. acc' = [r \in Register |-> [l \in Lane |-> acc'[r][l]]]
  <2>1. \A r \in Register : acc[r] = [l \in Lane |-> acc[r][l]]
    BY <1>1 DEF Placed
  <2>2. acc' = [r \in Register |-> IF r = 0 \/ Kernel.unroll = 1 THEN fmadd(r, i) ELSE acc[r]]
    BY DEF LanesLoop
  <2>3. \A r \in Register : acc'[r] = [l \in Lane |-> acc'[r][l]]
    BY <2>1, <2>2 DEF fmadd
  <2> QED
    BY <2>2, <2>3
<1>9. Placed'
  BY <1>4, <1>6, <1>7, <1>8, SameKernel DEF Placed
<1> QED
  BY <1>2, <1>3, <1>9

-----------------------------------------------------------------------------
(* The reduction.                                                          *)
LaneOf(m, n, l) == {k \in 0 .. m - 1 : k % n = l}

LEMMA Hsum256Once ==
  ASSUME NEW t, NEW m \in Nat, NEW v, NEW n, n = 8,
         \A l \in 0 .. 7 : v[l] = Once(t, LaneOf(m, n, l))
  PROVE  hsum256(v) = Once(t, 0 .. m - 1)
<1> DEFINE Q(l) == LaneOf(m, n, l)
           sum128 == [l \in 0 .. 3 |-> v[l] (+) v[l + 4]]
           sum64  == hadd(sum128)
<1>1. \A k \in 0 .. m - 1 : k % n \in 0 .. 7
  OBVIOUS
<1>2. \A l, j : l # j => Q(l) \cap Q(j) = {}
  BY DEF LaneOf
<1>3. 0 .. m - 1 = ((Q(0) \cup Q(4)) \cup (Q(1) \cup Q(5))) \cup ((Q(2) \cup Q(6)) \cup (Q(3) \cup Q(7)))
  BY <1>1 DEF LaneOf
<1>4. \A l \in 0 .. 7 : v[l] = Once(t, Q(l))
  OBVIOUS
<1> HIDE DEF Q
<1>5. \A l \in 0 .. 3 : sum128[l] = Once(t, Q(l) \cup Q(l + 4))
  <2> TAKE l \in 0 .. 3
  <2>1. v[l] = Once(t, Q(l)) /\ v[l + 4] = Once(t, Q(l + 4))
    BY <1>4
  <2>2. Q(l) \cap Q(l + 4) = {}
    BY <1>2
  <2> QED
    BY <2>1, <2>2, OnceUnion
<1> HIDE DEF sum128
<1>6. sum128[0] (+) sum128[1] = Once(t, (Q(0) \cup Q(4)) \cup (Q(1) \cup Q(5)))
  <2>1. (Q(0) \cup Q(4)) \cap (Q(1) \cup Q(5)) = {}
    BY <1>2
  <2>2. sum128[0] = Once(t, Q(0) \cup Q(4)) /\ sum128[1] = Once(t, Q(1) \cup Q(5))
    BY <1>5
  <2> QED
    BY <2>1, <2>2, OnceUnion
<1>7. sum128[2] (+) sum128[3] = Once(t, (Q(2) \cup Q(6)) \cup (Q(3) \cup Q(7)))
  <2>1. (Q(2) \cup Q(6)) \cap (Q(3) \cup Q(7)) = {}
    BY <1>2
  <2>2. sum128[2] = Once(t, Q(2) \cup Q(6)) /\ sum128[3] = Once(t, Q(3) \cup Q(7))
    BY <1>5
  <2> QED
    BY <2>1, <2>2, OnceUnion
<1> DEFINE A == (Q(0) \cup Q(4)) \cup (Q(1) \cup Q(5))
           B == (Q(2) \cup Q(6)) \cup (Q(3) \cup Q(7))
<1>8. sum64[0] = sum128[0] (+) sum128[1] /\ sum64[1] = sum128[2] (+) sum128[3]
  BY DEF hadd
<1>9. hsum256(v) = sum64[0] (+) sum64[1]
  BY DEF hsum256, hadd, sum128
<1>10. ((Q(0) \cup Q(4)) \cup (Q(1) \cup Q(5))) \cap ((Q(2) \cup Q(6)) \cup (Q(3) \cup Q(7))) = {}
  BY <1>2
<1>11. sum64[0] = Once(t, A) /\ sum64[1] = Once(t, B)
  BY <1>6, <1>7, <1>8
<1>12. 0 .. m - 1 = A \cup B /\ A \cap B = {}
  BY <1>3, <1>10
<1> HIDE DEF A, B, sum64
<1> QED
  BY <1>9, <1>11, <1>12, OnceUnion

LEMMA VaddvOnce ==
  ASSUME NEW t, NEW m \in Nat, NEW v, NEW n, n = 4,
         \A l \in 0 .. 3 : v[l] = Once(t, LaneOf(m, n, l))
  PROVE  vaddvq_f32(v) = Once(t, 0 .. m - 1)
<1> DEFINE Q(l) == LaneOf(m, n, l)
<1>1. \A k \in 0 .. m - 1 : k % n \in 0 .. 3
  OBVIOUS
<1>2. \A l, j : l # j => Q(l) \cap Q(j) = {}
  BY DEF LaneOf
<1>3. 0 .. m - 1 = (Q(0) \cup Q(1)) \cup (Q(2) \cup Q(3))
  BY <1>1 DEF LaneOf
<1>4. v[0] = Once(t, Q(0)) /\ v[1] = Once(t, Q(1)) /\ v[2] = Once(t, Q(2)) /\ v[3] = Once(t, Q(3))
  OBVIOUS
<1> HIDE DEF Q
<1>5. v[0] (+) v[1] = Once(t, Q(0) \cup Q(1))
  BY <1>2, <1>4, OnceUnion
<1>6. v[2] (+) v[3] = Once(t, Q(2) \cup Q(3))
  BY <1>2, <1>4, OnceUnion
<1>7. (Q(0) \cup Q(1)) \cap (Q(2) \cup Q(3)) = {}
  BY <1>2
<1> QED
  <2>1. (v[0] (+) v[1]) (+) (v[2] (+) v[3]) = Once(t, (Q(0) \cup Q(1)) \cup (Q(2) \cup Q(3)))
    BY <1>5, <1>6, <1>7, OnceUnion
  <2> QED
    BY <1>3, <2>1 DEF vaddvq_f32

(* Lanes that together hold every element below i once sum to just that.   *)
LEMMA HorizontalSumOnce ==
  ASSUME NEW t, NEW v, i \in Nat, LANES \in {4, 8},
         \A l \in Lane : v[l] = Once(t, LaneOf(i, LANES, l))
  PROVE  HorizontalSum(v) = Once(t, 0 .. i - 1)
<1>1. CASE LANES = 8
  <2>1. \A l \in 0 .. 7 : v[l] = Once(t, LaneOf(i, LANES, l))
    BY <1>1 DEF Lane
  <2>2. hsum256(v) = Once(t, 0 .. i - 1)
    BY <1>1, <2>1, Hsum256Once
  <2> QED
    BY <1>1, <2>2 DEF HorizontalSum
<1>2. CASE LANES = 4
  <2>1. \A l \in 0 .. 3 : v[l] = Once(t, LaneOf(i, LANES, l))
    BY <1>2 DEF Lane
  <2>2. vaddvq_f32(v) = Once(t, 0 .. i - 1)
    BY <1>2, <2>1, VaddvOnce
  <2> QED
    BY <1>2, <2>2 DEF HorizontalSum
<1> QED
  BY <1>1, <1>2

LEMMA ReduceSums ==
  ASSUME KernelInv, Reduce
  PROVE  /\ sum' = [s \in Sums |-> Once(Kernel.terms[s], 0 .. i - 1)]
         /\ Filled
<1>1. TypeInv /\ LANES # 0 /\ Placed /\ i <= lanes_end
  BY DEF KernelInv, Reduce
<1>2. LANES \in {4, 8} /\ i \in Nat /\ a_len \in Nat /\ i <= a_len
  BY <1>1, KernelShape DEF KernelInv, Reduce, TypeInv
<1>3. ASSUME NEW s \in Sums
      PROVE  Reduced(s) = Once(Kernel.terms[s], 0 .. i - 1)
  <2> DEFINE t == Kernel.terms[s]
  <2>1. CASE Kernel.unroll = 1
    <3>1. s - 1 \in Register /\ TermOf(s - 1) = t
      BY <1>1, <2>1, TermShape
    <3>2. \A l \in Lane : InLane(s - 1, l) = LaneOf(i, LANES, l)
      BY <2>1 DEF InLane, LaneOf
    <3>3. \A l \in Lane : acc[s - 1][l] = Once(t, LaneOf(i, LANES, l))
      BY <1>1, <3>1, <3>2 DEF Placed
    <3>4. Reduced(s) = HorizontalSum(acc[s - 1])
      BY <2>1 DEF Reduced
    <3> QED
      BY <1>2, <3>3, <3>4, HorizontalSumOnce
  <2>2. CASE Kernel.unroll = 4
    <3> DEFINE v == add(add(acc[0], acc[1]), add(acc[2], acc[3]))
    <3>1. Register = 0 .. 3 /\ s = 1 /\ \A r : TermOf(r) = t
      BY <1>1, <2>2, TermShape
    <3>2. ASSUME NEW l \in Lane
          PROVE  v[l] = Once(t, LaneOf(i, LANES, l))
      <4> DEFINE Q(r) == InLane(r, l)
      <4>1. \A r \in 0 .. 3 : acc[r][l] = Once(t, Q(r)) /\ DOMAIN acc[r] = Lane
        BY <1>1, <3>1 DEF Placed
      <4>2. \A r, j : r # j => Q(r) \cap Q(j) = {}
        BY <2>2 DEF InLane
      <4>3. LaneOf(i, LANES, l) = (Q(0) \cup Q(1)) \cup (Q(2) \cup Q(3))
        <5>1. \A k \in 0 .. i - 1 : (k \div LANES) % 4 \in 0 .. 3
          <6>1. CASE LANES = 4
            BY <1>2, <6>1
          <6>2. CASE LANES = 8
            BY <1>2, <6>2
          <6> QED
            BY <1>2, <6>1, <6>2
        <5> QED
          BY <2>2, <5>1 DEF InLane, LaneOf
      <4>4. v[l] = (acc[0][l] (+) acc[1][l]) (+) (acc[2][l] (+) acc[3][l])
        BY <4>1 DEF add
      <4> HIDE DEF Q, v
      <4>5. acc[0][l] (+) acc[1][l] = Once(t, Q(0) \cup Q(1))
        BY <4>1, <4>2, OnceUnion
      <4>6. acc[2][l] (+) acc[3][l] = Once(t, Q(2) \cup Q(3))
        BY <4>1, <4>2, OnceUnion
      <4>7. (Q(0) \cup Q(1)) \cap (Q(2) \cup Q(3)) = {}
        BY <4>2
      <4>8. Once(t, Q(0) \cup Q(1)) (+) Once(t, Q(2) \cup Q(3)) = Once(t, (Q(0) \cup Q(1)) \cup (Q(2) \cup Q(3)))
        BY <4>7, OnceUnion
      <4> QED
        BY <4>3, <4>4, <4>5, <4>6, <4>8
    <3>3. Reduced(s) = HorizontalSum(v)
      BY <2>2 DEF Reduced
    <3> HIDE DEF v
    <3> QED
      BY <1>2, <3>2, <3>3, HorizontalSumOnce
  <2> QED
    BY <1>1, <2>1, <2>2, KernelShape
<1>4. Filled
  <2>1. \A r, l : InLane(r, l) \in SUBSET (0 .. a_len - 1)
    BY <1>2 DEF InLane
  <2>2. \A r \in Register : \A l \in Lane : acc[r][l] = Once(TermOf(r), InLane(r, l))
    BY <1>1 DEF Placed
  <2>3. DOMAIN acc = Register /\ \A r \in Register : DOMAIN acc[r] = Lane
    BY <1>1 DEF Placed
  <2> QED
    BY <2>1, <2>2, <2>3 DEF Filled
<1> QED
  BY <1>3, <1>4 DEF Reduce

-----------------------------------------------------------------------------
(* The invariant.                                                          *)
LEMMA KernelInit == Init => KernelInv
BY HostsAssumption DEF Init, KernelInv, TypeInv, Fns

LEMMA KernelCompute ==
  ASSUME KernelInv, NEW f \in Fns, NEW m \in Nat, NEW n \in Nat, Compute(f, m, n)
  PROVE  KernelInv'
BY DEF KernelInv, TypeInv, Compute

LEMMA KernelStep ==
  ASSUME KernelInv, Step
  PROVE  KernelInv'
<1>1. TypeInv
  BY DEF KernelInv
<1>2. UNCHANGED <<host, fn, a_len, b_len>>
  BY DEF Step, Enter, UnrolledLoop, LanesLoop, Reduce, ScalarLoop, Return
<1>3. \A r : TermOf(r)' = TermOf(r)
  BY <1>2, SameKernel DEF TermOf
<1>4. CASE Enter
  <2>1. i = 0 /\ i' = 0 /\ a_len \in Nat
    BY <1>4 DEF KernelInv, TypeInv, Enter
  <2>2. /\ acc' = [r \in Register |-> [l \in Lane |-> EmptyBag]]
        /\ sum' = [s \in Sums |-> EmptyBag]
    BY <1>4 DEF Enter, Cleared
  <2>3. TypeInv'
    BY <1>1, <1>4, <2>1 DEF TypeInv, Enter
  <2>4. ASSUME pc' = "vector"
        PROVE  /\ LANES # 0 /\ i' <= lanes_end /\ i' % LANES = 0
               /\ Kernel.unroll = 1 \/ i' % Block = 0
               /\ Placed'
    <3>1. LANES = 4 \/ LANES = 8
      BY <1>1, <1>4, <2>4, KernelShape DEF Enter
    <3>2. Kernel.unroll = 1 \/ Block = 16 \/ Block = 32
      BY <1>1, <3>1, KernelShape, LoopEnds
    <3>3. lanes_end \in Nat
      BY <1>1, <3>1, LoopEnds
    <3>4. \A r, l : InLane(r, l)' = {}
      BY <1>2, <2>1, SameKernel DEF InLane
    <3>5. \A r, l : Once(TermOf(r), InLane(r, l)') = EmptyBag
      BY <3>4, OnceNone
    <3>6. Placed'
      BY <1>2, <1>3, <2>2, <3>5, SameKernel DEF Placed
    <3> QED
      BY <2>1, <3>1, <3>2, <3>3, <3>6
  <2>5. ASSUME pc' = "tail"
        PROVE  Filled' /\ Summed'
    <3>1. 0 .. i' - 1 = {}
      BY <2>1
    <3>2. Summed'
      BY <1>2, <2>2, <3>1, OnceNone, SameKernel DEF Summed
    <3>3. Filled'
      BY <1>2, <1>3, <2>2, OnceNone, SameKernel DEF Filled
    <3> QED
      BY <3>2, <3>3
  <2> QED
    BY <1>2, <1>4, <2>1, <2>2, <2>3, <2>4, <2>5, SameKernel DEF KernelInv, Enter
<1>5. CASE UnrolledLoop
  <2>1. i' <= lanes_end /\ i' % LANES = 0 /\ i' % Block = 0 /\ Placed' /\ i' \in Nat
    BY <1>5, UnrolledLoopPlaces
  <2>2. i' <= a_len
    BY <1>1, <1>5, <2>1, LoopEnds DEF KernelInv, TypeInv, UnrolledLoop
  <2>3. TypeInv'
    BY <1>1, <1>5, <2>1 DEF TypeInv, UnrolledLoop
  <2> QED
    BY <1>2, <1>5, <2>1, <2>2, <2>3, SameKernel DEF KernelInv, UnrolledLoop
<1>6. CASE LanesLoop
  <2>1. i' <= lanes_end /\ i' % LANES = 0 /\ unroll_end < i' /\ Placed' /\ i' \in Nat
    BY <1>6, LanesLoopPlaces
  <2>2. unroll_end \in Nat /\ i' <= a_len
    BY <1>1, <1>6, <2>1, LoopEnds DEF KernelInv, TypeInv, LanesLoop
  <2>3. TypeInv'
    BY <1>1, <1>6, <2>1 DEF TypeInv, LanesLoop
  <2>4. ~ (i' <= unroll_end)
    BY <2>1, <2>2
  <2> QED
    BY <1>2, <1>6, <2>1, <2>2, <2>3, <2>4, SameKernel DEF KernelInv, LanesLoop
<1>7. CASE Reduce
  <2>1. sum' = [s \in Sums |-> Once(Kernel.terms[s], 0 .. i - 1)] /\ Filled
    BY <1>7, ReduceSums
  <2>2. Filled'
    BY <1>2, <1>3, <1>7, <2>1, SameKernel DEF Filled, Reduce
  <2>3. Summed'
    BY <1>2, <1>7, <2>1, SameKernel DEF Summed, Reduce
  <2> QED
    BY <1>1, <1>2, <1>7, <2>2, <2>3 DEF KernelInv, TypeInv, Reduce
<1>8. CASE ScalarLoop
  <2>1. Filled /\ Summed /\ i \in Nat /\ a_len \in Nat /\ i < a_len /\ i' = i + 1
    BY <1>8 DEF KernelInv, TypeInv, ScalarLoop
  <2>2. Filled'
    BY <1>2, <1>3, <1>8, <2>1, SameKernel DEF Filled, ScalarLoop
  <2>3. 0 .. i' - 1 = (0 .. i - 1) \cup {i} /\ i \notin 0 .. i - 1
    BY <2>1
  <2>4. \A s \in Sums : sum[s] (+) SetToBag({Term(Kernel.terms[s], i)}) = Once(Kernel.terms[s], 0 .. i' - 1)
    <3> TAKE s \in Sums
    <3>1. sum[s] = Once(Kernel.terms[s], 0 .. i - 1)
      BY <2>1 DEF Summed
    <3>2. Once(Kernel.terms[s], 0 .. i - 1) (+) SetToBag({Term(Kernel.terms[s], i)})
            = Once(Kernel.terms[s], (0 .. i - 1) \cup {i})
      BY <2>3, OnceMore
    <3> QED
      BY <2>3, <3>1, <3>2
  <2>5. Summed'
    BY <1>2, <1>8, <2>4, SameKernel DEF Summed, ScalarLoop
  <2> QED
    BY <1>1, <1>2, <1>8, <2>1, <2>2, <2>5 DEF KernelInv, TypeInv, ScalarLoop
<1>9. CASE Return
  <2>1. Filled /\ Summed /\ i \in Nat /\ a_len \in Nat /\ i = a_len
    BY <1>9 DEF KernelInv, TypeInv, Return
  <2>2. Filled' /\ Summed'
    BY <1>2, <1>3, <1>9, <2>1, SameKernel DEF Filled, Summed, Return
  <2> QED
    BY <1>1, <1>2, <1>9, <2>1, <2>2 DEF KernelInv, TypeInv, Return
<1> QED
  BY <1>4, <1>5, <1>6, <1>7, <1>8, <1>9 DEF Step

LEMMA KernelStutter ==
  ASSUME KernelInv, UNCHANGED vars
  PROVE  KernelInv'
<1>1. UNCHANGED <<host, fn, a_len, b_len, pc, i, acc, sum>>
  BY DEF vars, kernelVars
<1>2. \A r : TermOf(r)' = TermOf(r) /\ \A l : InLane(r, l)' = InLane(r, l)
  BY <1>1, SameKernel DEF TermOf, InLane
<1> QED
  BY <1>1, <1>2, SameKernel DEF KernelInv, TypeInv, Placed, Filled, Summed

LEMMA KernelInvImplies ==
  ASSUME KernelInv
  PROVE  InBounds /\ CountedOnce
<1>1. TypeInv
  BY DEF KernelInv
<1>2. Kernel.terms = scalar(fn).terms /\ DOMAIN Kernel.terms = Sums
  BY <1>1, KernelShape DEF OfSlices, Sums
<1>3. CountedOnce
  BY <1>2 DEF CountedOnce, KernelInv, Summed
<1>4. CASE pc \in {"idle", "enter"}
  BY <1>3, <1>4 DEF KernelInv, InBounds
<1>5. Reads(EmptyBag) = {}
  BY DEF Reads, EmptyBag, SetToBag
<1>6. CASE pc = "panicked"
  BY <1>3, <1>5, <1>6 DEF KernelInv, InBounds
<1>7. CASE pc \in {"vector", "tail", "done"}
  <2>1. a_len = b_len /\ i <= a_len /\ i \in Nat /\ a_len \in Nat
    BY <1>7 DEF KernelInv, TypeInv
  <2>2. Filled
    <3>1. CASE pc = "vector"
      <4>1. Placed
        BY <3>1 DEF KernelInv
      <4>2. \A r, l : InLane(r, l) \in SUBSET (0 .. a_len - 1)
        BY <2>1 DEF InLane
      <4>3. DOMAIN acc = Register /\ \A r \in Register : DOMAIN acc[r] = Lane
        BY <4>1 DEF Placed
      <4>4. \A r \in Register : \A l \in Lane : acc[r][l] = Once(TermOf(r), InLane(r, l))
        BY <4>1 DEF Placed
      <4> QED
        BY <4>2, <4>3, <4>4 DEF Filled
    <3>2. CASE pc \in {"tail", "done"}
      BY <3>2 DEF KernelInv
    <3> QED
      BY <1>7, <3>1, <3>2
  <2>3. \A r \in Register : \A l \in Lane : \A e \in Reads(acc[r][l]) : Inside(e)
    <3> TAKE r \in Register
    <3> TAKE l \in Lane
    <3>1. PICK K \in SUBSET (0 .. a_len - 1) : acc[r][l] = Once(TermOf(r), K)
      BY <2>2 DEF Filled
    <3>2. PICK s \in Sums : TermOf(r) = Kernel.terms[s]
      BY <1>1, TermShape
    <3> QED
      BY <1>1, <2>1, <3>1, <3>2, OnceInside
  <2>4. \A s \in DOMAIN sum : \A e \in Reads(sum[s]) : Inside(e)
    <3>1. CASE pc = "vector"
      BY <1>5, <3>1 DEF KernelInv
    <3>2. CASE pc \in {"tail", "done"}
      <4>1. Summed /\ 0 .. i - 1 \in SUBSET (0 .. a_len - 1)
        BY <2>1, <3>2 DEF KernelInv
      <4>2. DOMAIN sum = Sums /\ \A s \in Sums : sum[s] = Once(Kernel.terms[s], 0 .. i - 1)
        BY <4>1 DEF Summed
      <4> QED
        BY <1>1, <2>1, <4>1, <4>2, OnceInside
    <3> QED
      BY <1>7, <3>1, <3>2
  <2> QED
    BY <1>3, <2>2, <2>3, <2>4 DEF InBounds, Filled
<1> QED
  BY <1>1, <1>3, <1>4, <1>6, <1>7 DEF TypeInv

LEMMA KernelNext ==
  ASSUME KernelInv, [Next]_vars
  PROVE  KernelInv'
<1>1. CASE \E f \in Fns, m, n \in Lengths : Compute(f, m, n)
  BY <1>1, LengthsAssumption, KernelCompute
<1> QED
  BY <1>1, KernelStep, KernelStutter DEF Next

(* For every length and every host the kernels read inside their slices,   *)
(* whatever the two lengths they are called with (avx2.rs:54-81).          *)
THEOREM KernelsInBounds == Spec => []InBounds
<1>1. KernelInv => InBounds
  BY KernelInvImplies
<1> QED
  BY <1>1, KernelInit, KernelNext, PTL DEF Spec

(* For every length and every host a kernel that returns has counted every *)
(* term of the scalar reference once (avx2.rs:52-89, neon.rs:37-77).       *)
THEOREM KernelsCountOnce == Spec => []CountedOnce
<1>1. KernelInv => CountedOnce
  BY KernelInvImplies
<1> QED
  BY <1>1, KernelInit, KernelNext, PTL DEF Spec
=============================================================================
