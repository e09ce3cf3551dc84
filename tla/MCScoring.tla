------------------------------ MODULE MCScoring -----------------------------
(* Every back end, on vectors that fill one lane of a block, exactly one   *)
(* AVX2 block, every loop of both SIMD back ends, and two AVX2 bodies.     *)
EXTENDS Scoring, TLC

CONSTANTS v1, v2, v3

MCVec == {v1, v2, v3}
Symmetry == Permutations(MCVec)

MCHosts == { [arch |-> "aarch64", avx2 |-> FALSE, fma |-> FALSE],
             [arch |-> "x86_64",  avx2 |-> TRUE,  fma |-> TRUE],
             [arch |-> "x86_64",  avx2 |-> TRUE,  fma |-> FALSE],
             [arch |-> "other",   avx2 |-> FALSE, fma |-> FALSE] }

MCDimensions == {1, 8, 43, 75}

(* A query or a vector of any of them, or one element longer than fits.    *)
MCLengths == MCDimensions \cup {44}
=============================================================================
