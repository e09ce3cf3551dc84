------------------------------- MODULE Scoring ------------------------------
(***************************************************************************)
(* The flat store and the kernels together: a search hands a kernel its    *)
(* query and the slice of one stored vector.  The store is borrowed while  *)
(* the kernel runs, so it changes between two calls only.                  *)
(***************************************************************************)
EXTENDS VectorStore, Kernels, FiniteSets

VARIABLE slice   \* the stored slice the kernel reads as b

scoringVars == <<storeVars, vars, slice>>

(* distance_fn, and the metrics' compute.                                  *)
Metric == {"Euclidean", "Cosine", "DotProduct"}

compute(metric) ==
  CASE metric = "Euclidean"  -> "euclidean"
    [] metric = "Cosine"     -> "cosine"
    [] metric = "DotProduct" -> "dot_product"

Borrowed == pc \notin {"idle", "done", "panicked"}

ScoringInit == New /\ Init /\ slice = << >>

(* The caller does not compare the length of the query with the dimension. *)
Score(metric, index, qlen) ==
  /\ index < count
  /\ Compute(compute(metric), qlen, dimension)
  /\ slice' = Get(index)
  /\ UNCHANGED storeVars

Update(A) == A /\ ~ Borrowed /\ UNCHANGED <<vars, slice>>

ScoringNext ==
  \/ \E v \in Vec, n \in Lengths : Update(Insert(v, n))
  \/ \E index \in 0 .. MaxVectors - 1 : Update(SwapRemove(index))
  \/ Update(Clear)
  \/ \E metric \in Metric, index \in 0 .. MaxVectors - 1, qlen \in Lengths : Score(metric, index, qlen)
  \/ Step /\ UNCHANGED <<storeVars, slice>>

ScoringSpec == ScoringInit /\ [][ScoringNext]_scoringVars

-----------------------------------------------------------------------------
TypeOK ==
  /\ vectors \in Seq(Vec \X Nat)
  /\ dimension \in Dimensions
  /\ count \in 0 .. MaxVectors
  /\ host \in Hosts /\ fn \in Fns
  /\ pc \in {"idle", "enter", "vector", "tail", "done", "panicked"}
  /\ i \in 0 .. a_len
  /\ slice \in Seq(Vec \X Nat)

(* A distance is of the query and one vector, whole: coordinate k of the   *)
(* query met coordinate k of that vector and no other, however often the   *)
(* array was refilled by swap_remove before, and a query of another length *)
(* is never scored (brute.rs:60-84, store/mod.rs:68-97).                   *)
ScoresOneVector ==
  pc = "done" =>
    /\ Cardinality(DOMAIN sum[1]) = dimension
    /\ \E v \in Vec : \A t \in DOMAIN sum[1] :
         /\ t[2][2] = t[3][2]
         /\ slice[t[3][2] + 1] = <<v, t[2][2]>>
=============================================================================
