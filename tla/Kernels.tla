------------------------------- MODULE Kernels ------------------------------
(***************************************************************************)
(* The distance kernels of nanovec: the dispatch on the host, the blocked  *)
(* loops of the AVX2 and NEON back ends and the plain loop of the scalar   *)
(* one, an iteration at a time.                                            *)
(*                                                                         *)
(* Numbers are left out.  An element is the slice it is read from and its  *)
(* position there, a term is an operation on two elements, and a register  *)
(* lane, or a sum, is the bag of the terms added into it.  What is left is *)
(* what the loops decide: which elements are read, and how often each      *)
(* term is counted.                                                        *)
(***************************************************************************)
EXTENDS Integers, Sequences, Bags

CONSTANTS Hosts,    \* the machines the program may run on
          Lengths   \* lengths of the slices a kernel may be given

Host == [arch : {"aarch64", "x86_64", "other"}, avx2 : BOOLEAN, fma : BOOLEAN]

ASSUME HostsAssumption   == Hosts \subseteq Host
ASSUME LengthsAssumption == Lengths \subseteq Nat

VARIABLES
  host,          \* the machine
  fn,            \* the entry point called
  a_len, b_len,  \* the lengths of its two slices
  pc,            \* where it is
  i,             \* its loop counter
  acc,           \* its vector accumulators: register -> lane -> bag of terms
  sum            \* its scalar sums: one bag of terms each

kernelVars == <<fn, a_len, b_len, pc, i, acc, sum>>
vars == <<host, kernelVars>>

Fns == {"dot_product", "euclidean", "cosine"}

-----------------------------------------------------------------------------
(* A kernel: what it sums, over how many lanes, and how many blocks the    *)
(* body of its main loop takes, each into an accumulator of its own.  The  *)
(* scalar kernels have no lanes.                                           *)
Product(x, y) == <<"product", x, y>>
SquaredDiff   == <<"squared difference", "a", "b">>

DotTerms       == <<Product("a", "b")>>
EuclideanTerms == <<SquaredDiff>>
CosineTerms    == <<Product("a", "b"), Product("a", "a"), Product("b", "b")>>

dot_avx2       == [terms |-> DotTerms,       lanes |-> 8, unroll |-> 4]
euclidean_avx2 == [terms |-> EuclideanTerms, lanes |-> 8, unroll |-> 4]
cosine_avx2    == [terms |-> CosineTerms,    lanes |-> 8, unroll |-> 1]

dot_neon       == [terms |-> DotTerms,       lanes |-> 4, unroll |-> 4]
euclidean_neon == [terms |-> EuclideanTerms, lanes |-> 4, unroll |-> 4]
cosine_neon    == [terms |-> CosineTerms,    lanes |-> 4, unroll |-> 1]

scalar(f) ==
  [terms  |-> CASE f = "dot_product" -> DotTerms
                [] f = "euclidean"   -> EuclideanTerms
                [] OTHER             -> CosineTerms,
   lanes  |-> 0,
   unroll |-> 1]

dispatch(f, h) ==
  CASE h.arch = "aarch64" ->
         CASE f = "dot_product" -> dot_neon
           [] f = "euclidean"   -> euclidean_neon
           [] OTHER             -> cosine_neon
    [] h.arch = "x86_64" /\ h.avx2 /\ h.fma ->
         CASE f = "dot_product" -> dot_avx2
           [] f = "euclidean"   -> euclidean_avx2
           [] OTHER             -> cosine_avx2
    [] OTHER -> scalar(f)

Kernel == dispatch(fn, host)
LANES  == Kernel.lanes
Block  == LANES * Kernel.unroll
Lane   == 0 .. LANES - 1

(* dot and euclidean share their one term among acc0 .. acc3; cosine has   *)
(* dot_acc, na_acc and nb_acc.                                             *)
Sums     == 1 .. Len(Kernel.terms)
Register == IF Kernel.unroll = 4 THEN 0 .. 3 ELSE {s - 1 : s \in Sums}

TermOf(r) == Kernel.terms[IF Kernel.unroll = 4 THEN 1 ELSE r + 1]

Term(t, k) == <<t[1], <<t[2], k>>, <<t[3], k>>>>

-----------------------------------------------------------------------------
(* One fused multiply-add of the block of elements that starts at k.       *)
fmadd(r, k) == [l \in Lane |-> acc[r][l] (+) SetToBag({Term(TermOf(r), k + l)})]

add(u, v) == [l \in DOMAIN u |-> u[l] (+) v[l]]

(* The horizontal sum of eight lanes: the two halves, then neighbours,     *)
(* then neighbours again.                                                  *)
hadd(u) == [l \in 0 .. 3 |-> IF l % 2 = 0 THEN u[0] (+) u[1] ELSE u[2] (+) u[3]]
hsum256(v) ==
  LET sum128 == [l \in 0 .. 3 |-> v[l] (+) v[l + 4]]
  IN  hadd(hadd(sum128))[0]

(* The one instruction that sums four lanes.                               *)
vaddvq_f32(v) == (v[0] (+) v[1]) (+) (v[2] (+) v[3])

HorizontalSum(v) == IF LANES = 8 THEN hsum256(v) ELSE vaddvq_f32(v)

-----------------------------------------------------------------------------
(* Mutation: the unrolled loop also takes the last, broken body.           *)
unroll_end_RoundedUp == IF Kernel.unroll = 4 THEN ((a_len + Block - 1) \div Block) * Block ELSE 0

(* Where the loops end; cosine has no unrolled loop.                       *)
unroll_end == IF Kernel.unroll = 4 THEN a_len - (a_len % Block) ELSE 0
lanes_end  == a_len - (a_len % LANES)

Init ==
  /\ host \in Hosts
  /\ fn = "dot_product" /\ a_len = 0 /\ b_len = 0
  /\ pc = "idle"
  /\ i = 0
  /\ acc = << >> /\ sum = << >>

(* A caller passes two slices.                                             *)
Compute(f, m, n) ==
  /\ pc \in {"idle", "done", "panicked"}
  /\ fn' = f /\ a_len' = m /\ b_len' = n
  /\ pc' = "enter"
  /\ i' = 0
  /\ acc' = << >> /\ sum' = << >>
  /\ UNCHANGED host

Cleared ==
  /\ acc' = [r \in Register |-> [l \in Lane |-> EmptyBag]]
  /\ sum' = [s \in Sums |-> EmptyBag]

(* Mutation: the lengths are left to the kernels' debug assertions, which  *)
(* a release build drops.                                                  *)
Enter_Unchecked ==
  /\ pc = "enter"
  /\ pc' = IF LANES = 0 THEN "tail" ELSE "vector"
  /\ Cleared
  /\ UNCHANGED <<host, fn, a_len, b_len, i>>

(* The public entry asserts that the lengths are equal, then dispatches.   *)
Enter ==
  /\ pc = "enter"
  /\ pc' = IF a_len # b_len THEN "panicked" ELSE IF LANES = 0 THEN "tail" ELSE "vector"
  /\ Cleared
  /\ UNCHANGED <<host, fn, a_len, b_len, i>>

(* One block into each of the four accumulators.                           *)
UnrolledLoop ==
  /\ pc = "vector"
  /\ i < unroll_end
  /\ acc' = [r \in Register |-> fmadd(r, i + r * LANES)]
  /\ i' = i + Block
  /\ UNCHANGED <<host, fn, a_len, b_len, pc, sum>>

(* A block left over: into acc0, or in cosine into all three.              *)
LanesLoop ==
  /\ pc = "vector"
  /\ unroll_end <= i /\ i < lanes_end
  /\ acc' = [r \in Register |-> IF r = 0 \/ Kernel.unroll = 1 THEN fmadd(r, i) ELSE acc[r]]
  /\ i' = i + LANES
  /\ UNCHANGED <<host, fn, a_len, b_len, pc, sum>>

(* Mutation: the fourth accumulator is left out.                           *)
Reduced_ThreeAccumulators(s) ==
  IF Kernel.unroll = 4 THEN HorizontalSum(add(add(acc[0], acc[1]), acc[2]))
                       ELSE HorizontalSum(acc[s - 1])

(* The scalar sum the accumulators are reduced to.                         *)
Reduced(s) ==
  IF Kernel.unroll = 4 THEN HorizontalSum(add(add(acc[0], acc[1]), add(acc[2], acc[3])))
                       ELSE HorizontalSum(acc[s - 1])

Reduce ==
  /\ pc = "vector"
  /\ unroll_end <= i /\ lanes_end <= i
  /\ sum' = [s \in Sums |-> Reduced(s)]
  /\ pc' = "tail"
  /\ UNCHANGED <<host, fn, a_len, b_len, i, acc>>

(* The elements that fill no block, or all of them in a scalar kernel.     *)
ScalarLoop ==
  /\ pc = "tail"
  /\ i < a_len
  /\ sum' = [s \in Sums |-> sum[s] (+) SetToBag({Term(Kernel.terms[s], i)})]
  /\ i' = i + 1
  /\ UNCHANGED <<host, fn, a_len, b_len, pc, acc>>

(* The result is a function of the sums alone: the sum, its root, or one   *)
(* minus a quotient.                                                       *)
Return ==
  /\ pc = "tail"
  /\ a_len <= i
  /\ pc' = "done"
  /\ UNCHANGED <<host, fn, a_len, b_len, i, acc, sum>>

Step == Enter \/ UnrolledLoop \/ LanesLoop \/ Reduce \/ ScalarLoop \/ Return

Next == (\E f \in Fns, m, n \in Lengths : Compute(f, m, n)) \/ Step

Spec == Init /\ [][Next]_vars

-----------------------------------------------------------------------------
(* Every element is read inside the slice it belongs to, whatever the      *)
(* lengths a caller passes: the pointer arithmetic of the unsafe loops     *)
(* rests on the one comparison made before the dispatch and on where the   *)
(* loops end (simd/mod.rs:26, avx2.rs:54-81).                              *)
Inside(e)  == e[2] < (IF e[1] = "a" THEN a_len ELSE b_len)
Reads(bag) == {t[2] : t \in DOMAIN bag} \cup {t[3] : t \in DOMAIN bag}

InBounds ==
  /\ \A r \in DOMAIN acc : \A l \in DOMAIN acc[r] : \A e \in Reads(acc[r][l]) : Inside(e)
  /\ \A s \in DOMAIN sum : \A e \in Reads(sum[s]) : Inside(e)

(* A finished kernel has counted every term of the scalar reference once,  *)
(* on every host and for every length: the bodies of 32 or 16 elements,    *)
(* the blocks of 8 or 4 and the remainder leave no gap and do not overlap, *)
(* and no accumulator is lost in the reduction (avx2.rs:52-89).            *)
Once(t, K) == SetToBag({Term(t, k) : k \in K})

CountedOnce ==
  pc = "done" => sum = [s \in DOMAIN scalar(fn).terms |-> Once(scalar(fn).terms[s], 0 .. a_len - 1)]
=============================================================================
