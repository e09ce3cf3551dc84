---------------------------- MODULE KdTreeProofs ----------------------------
(***************************************************************************)
(* Proofs about KdTree for every dimension and every corpus: the tree that *)
(* is built holds each record once and splits it at every node, and a      *)
(* search loses nothing by what it prunes.                                 *)
(***************************************************************************)
EXTENDS KdTree, SearchLemmas

-----------------------------------------------------------------------------
(* The distance is no smaller than what one axis adds to it.               *)
LEMMA SquareNat ==
  ASSUME NEW x \in Int
  PROVE  Square(x) \in Nat
<1>1. CASE x >= 0
  BY <1>1 DEF Square
<1>2. CASE x < 0
  <2>1. (-x) * (-x) = x * x /\ -x > 0
    BY <1>2
  <2>2. QED
    BY <2>1 DEF Square
<1>3. QED
  BY <1>1, <1>2

(* A distance is a natural number, and no smaller than the squared         *)
(* difference along any one axis.                                          *)
LEMMA DistanceBounds ==
  ASSUME NEW p \in Point, NEW q \in Point
  PROVE  /\ Distance(p, q) \in Nat
         /\ \A a \in 1 .. dimension : Square(p[a] - q[a]) <= Distance(p, q)
<1> DEFINE S == 1 .. dimension
           fun == [a \in S |-> Square(p[a] - q[a])]
           iter[s \in SUBSET DOMAIN fun] ==
             IF s = {} THEN 0
             ELSE fun[CHOOSE x \in s : TRUE] + iter[s \ {CHOOSE x \in s : TRUE}]
<1>1. Distance(p, q) = iter[DOMAIN fun]
  BY DEF Distance, FoldFunction, FoldFunctionOnSet, MapThenFoldSet
<1>2. fun \in [S -> Nat] /\ DOMAIN fun = S
  <2>1. \A a \in S : p[a] - q[a] \in Int
    <3>1. \A a \in S : p[a] \in Coord /\ q[a] \in Coord
      BY DEF Point
    <3>2. \A x, y \in Coord : x - y \in Int
      BY CoordAssumption
    <3>3. QED
      BY <3>1, <3>2
  <2>2. \A a \in S : Square(p[a] - q[a]) \in Nat
    BY <2>1, SquareNat
  <2>3. QED
    BY <2>2
<1>3. IsFiniteSet(S)
  BY DimensionAssumption, FS_Interval
<1>4. \A a \in S : fun[a] = Square(p[a] - q[a])
  OBVIOUS
<1> HIDE DEF S, fun
<1>5. PICK g \in [SUBSET S -> Nat] : Adds(g, S, fun)
  BY <1>2, <1>3, SumExists
<1>6. g = [s \in SUBSET DOMAIN fun |->
             IF s = {} THEN 0
             ELSE fun[CHOOSE x \in s : TRUE] + g[s \ {CHOOSE x \in s : TRUE}]]
  BY <1>2, <1>5 DEF Adds, Some
<1>7. iter = [s \in SUBSET DOMAIN fun |->
                IF s = {} THEN 0
                ELSE fun[CHOOSE x \in s : TRUE] + iter[s \ {CHOOSE x \in s : TRUE}]]
  BY <1>6 DEF iter
<1> HIDE DEF iter
<1>8. Adds(iter, S, fun)
  BY <1>2, <1>7 DEF Adds, Some
<1>9. \A s \in SUBSET S : iter[s] \in Nat /\ \A x \in s : fun[x] <= iter[s]
  BY <1>2, <1>3, <1>8, SumOf
<1>10. QED
  BY <1>1, <1>2, <1>4, <1>9 DEF S

-----------------------------------------------------------------------------
(* Stacks: the first element gives way to two others, or goes.             *)
Replaced(t, s, a, b) ==
  /\ Len(t) = Len(s) + 1
  /\ t[1] = a /\ t[2] = b
  /\ \A i \in 3 .. Len(t) : t[i] = s[i - 1]

(* Two frames in place of the first of a stack.                            *)
LEMMA PushTwo ==
  ASSUME NEW S, NEW s \in Seq(S), s # << >>, NEW a \in S, NEW b \in S
  PROVE  /\ <<a, b>> \o Tail(s) \in Seq(S)
         /\ Replaced(<<a, b>> \o Tail(s), s, a, b)
<1>1. Tail(s) \in Seq(S) /\ Len(Tail(s)) = Len(s) - 1 /\ Len(s) \in Nat \ {0}
      /\ \A i \in 1 .. Len(s) - 1 : Tail(s)[i] = s[i + 1]
  OBVIOUS
<1>2. <<a, b>> \in Seq(S) /\ Len(<<a, b>>) = 2 /\ <<a, b>>[1] = a /\ <<a, b>>[2] = b
  OBVIOUS
<1>3. PICK u \in Seq(S) : u = <<a, b>>
  BY <1>2
<1>4. PICK v \in Seq(S) : v = Tail(s)
  BY <1>1
<1>5. u \o v \in Seq(S) /\ Len(u \o v) = Len(s) + 1
      /\ (u \o v)[1] = a /\ (u \o v)[2] = b
      /\ \A i \in 3 .. Len(u \o v) : (u \o v)[i] = v[i - 2]
  BY <1>1, <1>2, <1>3, <1>4
<1>6. \A i \in 3 .. Len(s) + 1 : v[i - 2] = s[i - 1]
  <2> TAKE i \in 3 .. Len(s) + 1
  <2>1. i - 2 \in 1 .. Len(s) - 1 /\ (i - 2) + 1 = i - 1
    BY <1>1
  <2>2. QED
    BY <1>1, <1>4, <2>1
<1>7. QED
  BY <1>3, <1>4, <1>5, <1>6 DEF Replaced

(* What is left of a stack, and what was on top.                           *)
LEMMA Popped ==
  ASSUME NEW S, NEW s \in Seq(S), s # << >>
  PROVE  /\ Tail(s) \in Seq(S) /\ Len(Tail(s)) = Len(s) - 1 /\ Len(s) \in Nat \ {0}
         /\ Head(s) = s[1] /\ s[1] \in S
         /\ \A i \in 1 .. Len(s) - 1 : Tail(s)[i] = s[i + 1]
OBVIOUS

-----------------------------------------------------------------------------
(* The tree while it is built.  lo[n] and hi[n] are the records that stand *)
(* or will stand below node n on either side: what is under its children   *)
(* and in the subtrees pending there.                                      *)
Below(lo, hi, n) == {nodes[n].record} \cup lo[n] \cup hi[n]

Rooms(lo, hi) ==
  /\ lo \in [DOMAIN nodes -> SUBSET DOMAIN points]
  /\ hi \in [DOMAIN nodes -> SUBSET DOMAIN points]
  /\ \A n \in DOMAIN nodes :
       /\ nodes[n].record \notin lo[n] \cup hi[n]
       /\ lo[n] \cap hi[n] = {}
       /\ \A r \in lo[n] : points[r][nodes[n].axis] <= points[nodes[n].record][nodes[n].axis]
       /\ \A r \in hi[n] : points[nodes[n].record][nodes[n].axis] <= points[r][nodes[n].axis]
       /\ nodes[n].left # NONE => Below(lo, hi, nodes[n].left) \subseteq lo[n]
       /\ nodes[n].right # NONE => Below(lo, hi, nodes[n].right) \subseteq hi[n]
  /\ \A i \in DOMAIN pending :
       /\ pending[i].side = "left" => pending[i].items \subseteq lo[pending[i].parent]
       /\ pending[i].side = "right" => pending[i].items \subseteq hi[pending[i].parent]

(* Children come after their parents, and all but the root are children.   *)
Upward ==
  \A n \in DOMAIN nodes :
    /\ nodes[n].left # NONE => nodes[n].left \in DOMAIN nodes /\ n < nodes[n].left
    /\ nodes[n].right # NONE => nodes[n].right \in DOMAIN nodes /\ n < nodes[n].right

Rooted ==
  \A n \in DOMAIN nodes :
    n # 1 => \E m \in DOMAIN nodes : m < n /\ (nodes[m].left = n \/ nodes[m].right = n)

(* A pending subtree waits for a place of its own, which is still empty.   *)
Placed ==
  /\ \A i \in DOMAIN pending :
       \/ pending[i].side = "root" /\ pending[i].parent = NONE /\ nodes = << >> /\ Len(pending) = 1
       \/ pending[i].side = "left" /\ pending[i].parent \in DOMAIN nodes
            /\ nodes[pending[i].parent].left = NONE
       \/ pending[i].side = "right" /\ pending[i].parent \in DOMAIN nodes
            /\ nodes[pending[i].parent].right = NONE
  /\ \A i, j \in DOMAIN pending :
       i # j => pending[i].parent # pending[j].parent \/ pending[i].side # pending[j].side

(* Each record is in one node or in one pending subtree.                   *)
Records == {nodes[n].record : n \in DOMAIN nodes}

OnceEach ==
  /\ \A m, n \in DOMAIN nodes : m # n => nodes[m].record # nodes[n].record
  /\ \A i \in DOMAIN pending : pending[i].items \cap Records = {}
  /\ \A i, j \in DOMAIN pending : i # j => pending[i].items \cap pending[j].items = {}
  /\ DOMAIN points \subseteq Records \cup UNION {pending[i].items : i \in DOMAIN pending}

TreeOK ==
  /\ \E lo, hi \in [DOMAIN nodes -> SUBSET DOMAIN points] : Rooms(lo, hi)
  /\ Upward /\ Rooted /\ Placed /\ OnceEach

-----------------------------------------------------------------------------
(* The records under a node, one level at a time: the recursion of Under   *)
(* has a solution because children come after their parents.               *)
Grows(below) ==
  \A n \in Child :
    below[n] = IF n = NONE \/ n > Len(nodes) THEN {}
               ELSE {nodes[n].record} \cup below[nodes[n].left] \cup below[nodes[n].right]

(* What the type invariant says of the points and the nodes.               *)
LEMMA NodeTypes ==
  ASSUME TypeOK
  PROVE  /\ Len(points) \in Nat /\ DOMAIN points = 1 .. Len(points)
         /\ Len(nodes) \in Nat /\ DOMAIN nodes = 1 .. Len(nodes)
         /\ \A n \in DOMAIN nodes :
              /\ nodes[n] \in [record : DOMAIN points, axis : 1 .. dimension, left : Child,
                   right : Child]
              /\ nodes[n].record \in DOMAIN points /\ nodes[n].axis \in 1 .. dimension
              /\ nodes[n].left \in Child /\ nodes[n].right \in Child
<1> DEFINE R == [record : DOMAIN points, axis : 1 .. dimension, left : Child, right : Child]
<1>1. points \in Seq(Point) /\ nodes \in Seq(R)
  BY DEF TypeOK
<1>2. \A x \in R : /\ x.record \in DOMAIN points /\ x.axis \in 1 .. dimension
                   /\ x.left \in Child /\ x.right \in Child
  OBVIOUS
<1> HIDE DEF R
<1>3. Len(nodes) \in Nat /\ DOMAIN nodes = 1 .. Len(nodes)
        /\ \A n \in DOMAIN nodes : nodes[n] \in R
  BY <1>1
<1>4. Len(points) \in Nat /\ DOMAIN points = 1 .. Len(points)
  BY <1>1
<1>5. QED
  BY <1>2, <1>3, <1>4 DEF R

(* There are no more nodes than records, and as many when none is missing. *)
LEMMA NotMore ==
  ASSUME TypeOK, OnceEach
  PROVE  /\ Len(nodes) <= Len(points)
         /\ Records = DOMAIN points <=> Len(nodes) = Len(points)
<1> DEFINE f == [n \in DOMAIN nodes |-> nodes[n].record]
<1>1. f \in Injection(DOMAIN nodes, DOMAIN points)
  <2>1. f \in [DOMAIN nodes -> DOMAIN points]
    BY NodeTypes
  <2>2. \A m, n \in DOMAIN nodes : f[m] = f[n] => m = n
    BY DEF OnceEach
  <2>3. QED
    BY <2>1, <2>2 DEF Injection, IsInjective
<1>2. /\ IsFiniteSet(DOMAIN nodes) /\ Cardinality(DOMAIN nodes) = Len(nodes)
      /\ IsFiniteSet(DOMAIN points) /\ Cardinality(DOMAIN points) = Len(points)
  <2>1. \A n \in Nat : IsFiniteSet(1 .. n) /\ Cardinality(1 .. n) = n
    <3> TAKE n \in Nat
    <3>1. 1 \in Int /\ n \in Int
      OBVIOUS
    <3>2. IsFiniteSet(1 .. n) /\ Cardinality(1 .. n) = IF 1 > n THEN 0 ELSE n - 1 + 1
      BY <3>1, FS_Interval
    <3>3. QED
      BY <3>2
  <2>2. QED
    BY <2>1, NodeTypes
<1>3. Cardinality(DOMAIN nodes) <= Cardinality(DOMAIN points)
      /\ (Cardinality(DOMAIN nodes) = Cardinality(DOMAIN points)
           <=> f \in Surjection(DOMAIN nodes, DOMAIN points))
  BY <1>1, <1>2, FS_Injection
<1>4. Records = DOMAIN points <=> f \in Surjection(DOMAIN nodes, DOMAIN points)
  BY <1>1 DEF Records, Surjection, Injection
<1>5. QED
  BY <1>2, <1>3, <1>4

(* Under is the solution CHOOSE picks, and there is one to pick.           *)
LEMMA UnderGrows ==
  ASSUME TypeOK, Upward
  PROVE  Grows(Under)
<1> DEFINE V == SUBSET DOMAIN points
           top == Len(points)
           rank == [n \in Child |-> IF n = NONE THEN 0 ELSE top + 1 - n]
           base == [n \in Child |-> {}]
           F == [f \in [Child -> V] |->
                   [n \in Child |->
                      IF n = NONE \/ n > Len(nodes) THEN {}
                      ELSE {nodes[n].record} \cup f[nodes[n].left] \cup f[nodes[n].right]]]
<1>1. /\ top \in Nat /\ Len(nodes) \in Nat /\ DOMAIN nodes = 1 .. Len(nodes)
      /\ \A n \in DOMAIN nodes : nodes[n].record \in DOMAIN points
                                 /\ nodes[n].left \in Child /\ nodes[n].right \in Child
  BY NodeTypes
<1>2. Child = 0 .. top
  BY DEF Child
<1>3. Rounds(F, Child, V)
  <2> SUFFICES ASSUME NEW f \in [Child -> V] PROVE F[f] \in [Child -> V]
    BY DEF Rounds
  <2>1. ASSUME NEW n \in Child, ~(n = NONE \/ n > Len(nodes))
        PROVE  {nodes[n].record} \cup f[nodes[n].left] \cup f[nodes[n].right] \in V
    <3>1. n \in DOMAIN nodes
      BY <1>1, <1>2, <2>1 DEF NONE
    <3>2. QED
      BY <1>1, <3>1
  <2>2. QED
    BY <2>1
<1>4. rank \in [Child -> 0 .. top] /\ base \in [Child -> V]
  BY <1>1, <1>2 DEF NONE
<1>5. Layered(F, Child, V, rank)
  <2> SUFFICES ASSUME NEW f \in [Child -> V], NEW h \in [Child -> V], NEW n \in Child,
                      \A m \in Child : rank[m] < rank[n] => f[m] = h[m]
               PROVE  F[f][n] = F[h][n]
    BY DEF Layered
  <2>1. ASSUME ~(n = NONE \/ n > Len(nodes))
        PROVE  f[nodes[n].left] = h[nodes[n].left] /\ f[nodes[n].right] = h[nodes[n].right]
    <3>1. n \in DOMAIN nodes
      BY <1>1, <1>2, <2>1 DEF NONE
    <3>2. \A m \in Child : m = NONE \/ n < m => rank[m] < rank[n]
      BY <1>1, <1>2, <3>1 DEF NONE
    <3>3. (nodes[n].left = NONE \/ n < nodes[n].left) /\ nodes[n].left \in Child
          /\ (nodes[n].right = NONE \/ n < nodes[n].right) /\ nodes[n].right \in Child
      BY <1>1, <3>1 DEF Upward
    <3> HIDE DEF rank
    <3>4. QED
      BY <3>2, <3>3
  <2>2. QED
    BY <2>1
<1> HIDE DEF V, top, rank, base, F
<1>6. PICK g \in [Child -> V] : F[g] = g
  <2>1. Settles(F, Child, V)
    BY <1>1, <1>3, <1>4, <1>5, FixedPoint
  <2>2. QED
    BY <2>1 DEF Settles
<1>7. g = [n \in Child |->
             IF n = NONE \/ n > Len(nodes) THEN {}
             ELSE {nodes[n].record} \cup g[nodes[n].left] \cup g[nodes[n].right]]
  BY <1>6 DEF F
<1>8. Under = [n \in Child |->
                 IF n = NONE \/ n > Len(nodes) THEN {}
                 ELSE {nodes[n].record} \cup Under[nodes[n].left] \cup Under[nodes[n].right]]
  BY <1>7 DEF Under
<1>9. QED
  BY <1>8 DEF Grows

(* Under changes with the tree only.                                       *)
LEMMA SameUnder ==
  ASSUME UNCHANGED <<points, nodes>>
  PROVE  Under' = Under /\ Child' = Child
BY DEF Under, Child

(* So it is for a node of the tree, and nothing is under no node.          *)
LEMMA UnderNode ==
  ASSUME TypeOK, Upward, OnceEach
  PROVE  /\ Under[NONE] = {}
         /\ \A n \in DOMAIN nodes :
              Under[n] = {nodes[n].record} \cup Under[nodes[n].left] \cup Under[nodes[n].right]
<1>1. Grows(Under)
  BY UnderGrows
<1>2. Len(nodes) \in Nat /\ DOMAIN nodes = 1 .. Len(nodes) /\ Len(points) \in Nat
  BY NodeTypes
<1>3. Len(nodes) <= Len(points)
  BY NotMore
<1>4. Child = 0 .. Len(points)
  BY DEF Child
<1>5. Under[NONE] = {}
  <2>1. NONE \in Child
    BY <1>2, <1>4 DEF NONE
  <2>2. QED
    BY <1>1, <2>1 DEF Grows
<1>6. \A n \in DOMAIN nodes : n \in Child /\ ~(n = NONE \/ n > Len(nodes))
  BY <1>2, <1>3, <1>4 DEF NONE
<1>7. QED
  BY <1>1, <1>5, <1>6 DEF Grows

(* What is under a node is what stands there, from the leaves upwards.     *)
LEMMA UnderInside ==
  ASSUME TypeOK, Upward, OnceEach, NEW lo, NEW hi, Rooms(lo, hi)
  PROVE  \A n \in DOMAIN nodes :
           /\ Under[n] \subseteq Below(lo, hi, n)
           /\ Under[nodes[n].left] \subseteq lo[n]
           /\ Under[nodes[n].right] \subseteq hi[n]
<1> DEFINE N == Len(nodes)
           Fits(n) == /\ Under[n] \subseteq Below(lo, hi, n)
                      /\ Under[nodes[n].left] \subseteq lo[n]
                      /\ Under[nodes[n].right] \subseteq hi[n]
           S == {j \in 0 .. N : \A n \in DOMAIN nodes : N - j < n => Fits(n)}
<1>1. N \in Nat /\ DOMAIN nodes = 1 .. N
  BY NodeTypes
<1>2. 0 \in S
  BY <1>1
<1>3. ASSUME NEW j \in 0 .. N - 1, j \in S PROVE j + 1 \in S
  <2>1. SUFFICES ASSUME NEW n \in DOMAIN nodes, N - (j + 1) < n PROVE Fits(n)
    BY <1>1
  <2>2. \A m \in DOMAIN nodes : n < m => Fits(m)
    <3> SUFFICES ASSUME NEW m \in DOMAIN nodes, n < m PROVE Fits(m)
      OBVIOUS
    <3>1. N - j < m
      BY <1>1, <2>1
    <3>2. QED
      BY <1>3, <3>1
  <2>3. Under[nodes[n].left] \subseteq lo[n]
    <3>1. CASE nodes[n].left = NONE
      BY <3>1, UnderNode
    <3>2. CASE nodes[n].left # NONE
      <4>1. nodes[n].left \in DOMAIN nodes /\ n < nodes[n].left
        BY <3>2 DEF Upward
      <4>2. Below(lo, hi, nodes[n].left) \subseteq lo[n]
        BY <3>2 DEF Rooms
      <4>3. QED
        BY <2>2, <4>1, <4>2
    <3>3. QED
      BY <3>1, <3>2
  <2>4. Under[nodes[n].right] \subseteq hi[n]
    <3>1. CASE nodes[n].right = NONE
      BY <3>1, UnderNode
    <3>2. CASE nodes[n].right # NONE
      <4>1. nodes[n].right \in DOMAIN nodes /\ n < nodes[n].right
        BY <3>2 DEF Upward
      <4>2. Below(lo, hi, nodes[n].right) \subseteq hi[n]
        BY <3>2 DEF Rooms
      <4>3. QED
        BY <2>2, <4>1, <4>2
    <3>3. QED
      BY <3>1, <3>2
  <2>5. Under[n] = {nodes[n].record} \cup Under[nodes[n].left] \cup Under[nodes[n].right]
    BY UnderNode
  <2>6. QED
    BY <2>3, <2>4, <2>5 DEF Below
<1> HIDE DEF S
<1>4. \A j \in 0 .. N : j \in S
  <2>1. \A j \in 0 .. N - 1 : j \in S => j + 1 \in S
    BY <1>3
  <2>2. QED
    BY <1>1, <1>2, <2>1, Climb
<1>5. N \in S /\ \A n \in DOMAIN nodes : N - N < n
  BY <1>1, <1>4
<1>6. QED
  BY <1>5 DEF S

(* And every record in the tree is under the root, downwards.              *)
LEMMA UnderRoot ==
  ASSUME TypeOK, Upward, OnceEach, Rooted
  PROVE  Records \subseteq Under[1]
<1> DEFINE N == Len(nodes)
           S == {j \in 0 .. N : \A n \in DOMAIN nodes : n <= j => Under[n] \subseteq Under[1]}
<1>1. N \in Nat /\ DOMAIN nodes = 1 .. N
  BY NodeTypes
<1>2. 0 \in S
  BY <1>1
<1>3. ASSUME NEW j \in 0 .. N - 1, j \in S PROVE j + 1 \in S
  <2>1. SUFFICES ASSUME NEW n \in DOMAIN nodes, n <= j + 1, n # 1 PROVE Under[n] \subseteq Under[1]
    BY <1>1
  <2>2. PICK m \in DOMAIN nodes : m < n /\ (nodes[m].left = n \/ nodes[m].right = n)
    BY <2>1 DEF Rooted
  <2>3. m <= j
    BY <1>1, <2>1, <2>2
  <2>4. Under[m] \subseteq Under[1]
    BY <1>3, <2>3
  <2>5. Under[n] \subseteq Under[m]
    BY <2>2, UnderNode
  <2>6. QED
    BY <2>4, <2>5
<1> HIDE DEF S
<1>4. \A j \in 0 .. N : j \in S
  <2>1. \A j \in 0 .. N - 1 : j \in S => j + 1 \in S
    BY <1>3
  <2>2. QED
    BY <1>1, <1>2, <2>1, Climb
<1>5. \A n \in DOMAIN nodes : Under[n] \subseteq Under[1]
  <2>1. N \in S /\ \A n \in DOMAIN nodes : n <= N
    BY <1>1, <1>4
  <2>2. QED
    BY <2>1 DEF S
<1>6. QED
  BY <1>5, UnderNode DEF Records

(* So the finished tree splits the records at every node.                  *)
LEMMA TreeOKSplits ==
  ASSUME TypeOK, TreeOK
  PROVE  TreeSplits
<1> SUFFICES ASSUME pending = << >> PROVE TreeSplits
  BY DEF TreeSplits
<1>1. Upward /\ Rooted /\ Placed /\ OnceEach
  BY DEF TreeOK
<1>2. Records = DOMAIN points
  <2>1. DOMAIN points \subseteq Records
    BY <1>1 DEF OnceEach
  <2>2. QED
    BY <2>1, NodeTypes DEF Records
<1>3. Len(nodes) = Len(points)
  BY <1>1, <1>2, NotMore
<1>4. PICK lo, hi \in [DOMAIN nodes -> SUBSET DOMAIN points] : Rooms(lo, hi)
  BY DEF TreeOK
<1>5. \A n \in DOMAIN nodes : Under[nodes[n].left] \subseteq lo[n]
        /\ Under[nodes[n].right] \subseteq hi[n]
  BY <1>1, <1>4, UnderInside
<1>6. ASSUME NEW n \in DOMAIN nodes
      PROVE  /\ \A r \in Under[nodes[n].left] :
                  points[r][nodes[n].axis] <= points[nodes[n].record][nodes[n].axis]
             /\ \A r \in Under[nodes[n].right] :
                  points[nodes[n].record][nodes[n].axis] <= points[r][nodes[n].axis]
  BY <1>4, <1>5 DEF Rooms
<1>7. QED
  BY <1>2, <1>3, <1>6 DEF TreeSplits, Records

-----------------------------------------------------------------------------
(* One step of the construction: the node me joins the tree, in its place  *)
(* under its parent, and the two halves of its records become pending.     *)
Joins(t, me, axis, median, left, right) ==
  /\ t = pending[1] /\ me = Len(nodes) + 1 /\ axis \in 1 .. dimension
  /\ median \in t.items /\ left \subseteq t.items /\ right \subseteq t.items
  /\ t.items = {median} \cup left \cup right
  /\ median \notin left \cup right /\ left \cap right = {}
  /\ \A r \in left : points[r][axis] <= points[median][axis]
  /\ \A r \in right : points[median][axis] <= points[r][axis]

GrownNodes(t, me, axis, median, new) ==
  /\ DOMAIN new = DOMAIN nodes \cup {me}
  /\ Len(new) = me
  /\ new[me] = [record |-> median, axis |-> axis, left |-> NONE, right |-> NONE]
  /\ \A n \in DOMAIN nodes :
       /\ new[n].record = nodes[n].record
       /\ new[n].axis = nodes[n].axis
       /\ new[n].left = IF n = t.parent /\ t.side = "left" THEN me ELSE nodes[n].left
       /\ new[n].right = IF n = t.parent /\ t.side = "right" THEN me ELSE nodes[n].right

SplitTask(t, me, left, right, new) ==
  /\ Replaced(new, pending, [items |-> left, depth |-> t.depth + 1, parent |-> me,
       side |-> "left"],
              [items |-> right, depth |-> t.depth + 1, parent |-> me, side |-> "right"])

Node == [record : DOMAIN points, axis : 1 .. dimension, left : Child, right : Child]
Subtree == [items : SUBSET DOMAIN points, depth : Nat, parent : Child,
            side : {"root", "left", "right"}]

(* What the type invariant says of the subtrees still to build.            *)
LEMMA TaskTypes ==
  ASSUME TypeOK, pending # << >>
  PROVE  /\ pending \in Seq(Subtree) /\ Len(pending) \in Nat \ {0} /\ 1 \in DOMAIN pending
         /\ DOMAIN pending = 1 .. Len(pending)
         /\ Head(pending) = pending[1]
         /\ \A i \in DOMAIN pending : pending[i] \in Subtree
<1>1. pending \in Seq(Subtree)
  BY DEF TypeOK, Subtree
<1>2. QED
  BY <1>1

(* A patched node differs in the child on one side.                        *)
LEMMA PatchedNode ==
  ASSUME NEW x \in Node, NEW side \in {"left", "right"}, NEW child \in Child
  PROVE  /\ [x EXCEPT ![side] = child] \in Node
         /\ [x EXCEPT ![side] = child].record = x.record
         /\ [x EXCEPT ![side] = child].axis = x.axis
         /\ [x EXCEPT ![side] = child].left = IF side = "left" THEN child ELSE x.left
         /\ [x EXCEPT ![side] = child].right = IF side = "right" THEN child ELSE x.right
<1>1. CASE side = "left"
  BY <1>1 DEF Node
<1>2. CASE side = "right"
  BY <1>2 DEF Node
<1>3. QED
  BY <1>1, <1>2

(* What building a subtree does to the nodes and to the pending            *)
(* subtrees, in terms of the subtree, the new node and its two halves.     *)
LEMMA BuildShape ==
  ASSUME TypeOK, Placed, OnceEach, BuildSubtree
  PROVE  \E t \in Subtree, me \in Nat : \E axis, median, left, right :
           /\ Joins(t, me, axis, median, left, right)
           /\ GrownNodes(t, me, axis, median, nodes')
           /\ SplitTask(t, me, left, right, pending')
           /\ nodes' \in Seq(Node) /\ pending' \in Seq(Subtree)
<1>1. PICK t \in Subtree : t = Head(pending) /\ t = pending[1] /\ pending \in Seq(Subtree)
                           /\ pending # << >> /\ 1 \in DOMAIN pending
  BY TaskTypes DEF BuildSubtree
<1>2. PICK me \in Nat : me = Len(nodes) + 1
  BY NodeTypes
<1>3. PICK axis : axis = (t.depth % dimension) + 1
  OBVIOUS
<1>4. axis \in 1 .. dimension
  <2>1. t.depth \in Nat
    BY DEF Subtree
  <2>2. t.depth % dimension \in 0 .. dimension - 1
    BY <2>1, DimensionAssumption
  <2>3. QED
    BY <1>3, <2>2, DimensionAssumption
<1> DEFINE L(S) == [items |-> S, depth |-> t.depth + 1, parent |-> me, side |-> "left"]
           R(S) == [items |-> S, depth |-> t.depth + 1, parent |-> me, side |-> "right"]
           new(m) == [record |-> m, axis |-> axis, left |-> NONE, right |-> NONE]
<1>16. PICK median \in t.items : \E left \in Halves(t.items, axis, median) :
        /\ nodes' = Append(Patched(t.parent, t.side, me), new(median))
        /\ pending' = <<L(left), R(t.items \ (left \cup {median}))>> \o Tail(pending)
  BY <1>1, <1>2, <1>3 DEF BuildSubtree
<1>5. PICK left \in Halves(t.items, axis, median) :
        /\ nodes' = Append(Patched(t.parent, t.side, me), new(median))
        /\ pending' = <<L(left), R(t.items \ (left \cup {median}))>> \o Tail(pending)
  BY <1>16
<1>6. PICK right : right = t.items \ (left \cup {median})
  OBVIOUS
<1>7. t.items \subseteq DOMAIN points /\ t.side \in {"root", "left", "right"} /\ t.depth \in Nat
      /\ t.parent \in Child
  BY DEF Subtree
<1>8. Joins(t, me, axis, median, left, right)
  <2>1. /\ left \subseteq t.items \ {median}
        /\ \A r \in left : points[r][axis] <= points[median][axis]
        /\ \A r \in t.items \ left : points[median][axis] <= points[r][axis]
    BY DEF Halves
  <2>2. QED
    BY <1>1, <1>2, <1>4, <1>6, <2>1 DEF Joins
<1>9. me \in Child
  <2>1. median \notin Records
    BY <1>1, <1>5 DEF OnceEach
  <2>2. Len(nodes) # Len(points)
    <3>1. Records \subseteq DOMAIN points /\ Records # DOMAIN points
      BY <1>5, <1>7, <2>1, NodeTypes DEF Records
    <3>2. QED
      BY <3>1, NotMore
  <2>3. Len(nodes) \in Nat /\ Len(points) \in Nat
    BY NodeTypes
  <2>4. Len(nodes) <= Len(points)
    BY NotMore
  <2>5. QED
    BY <1>2, <2>2, <2>3, <2>4 DEF Child
<1>10. new(median) \in Node
  BY <1>4, <1>5, <1>7 DEF Node, NONE, Child
<1> HIDE DEF new
<1>11. PICK old : old = Patched(t.parent, t.side, me)
  OBVIOUS
<1>12. /\ old \in Seq(Node) /\ Len(old) = Len(nodes) /\ DOMAIN old = DOMAIN nodes
       /\ \A n \in DOMAIN nodes :
            /\ old[n].record = nodes[n].record
            /\ old[n].axis = nodes[n].axis
            /\ old[n].left = IF n = t.parent /\ t.side = "left" THEN me ELSE nodes[n].left
            /\ old[n].right = IF n = t.parent /\ t.side = "right" THEN me ELSE nodes[n].right
  <2>1. \A n \in DOMAIN nodes : n = t.parent => t.side \in {"left", "right"}
    <3>1. t.side = "root" => nodes = << >>
      BY <1>1 DEF Placed
    <3>2. QED
      BY <1>7, <3>1
  <2>2. \A n \in DOMAIN nodes :
          old[n] = IF n = t.parent THEN [nodes[n] EXCEPT ![t.side] = me] ELSE nodes[n]
    BY <1>11 DEF Patched
  <2>3. DOMAIN old = 1 .. Len(nodes) /\ Len(nodes) \in Nat
          /\ \A n \in DOMAIN nodes : nodes[n] \in Node
    BY <1>11, NodeTypes DEF Patched, Node
  <2>4. ASSUME NEW n \in DOMAIN nodes
        PROVE  /\ old[n] \in Node
               /\ old[n].record = nodes[n].record
               /\ old[n].axis = nodes[n].axis
               /\ old[n].left = IF n = t.parent /\ t.side = "left" THEN me ELSE nodes[n].left
               /\ old[n].right = IF n = t.parent /\ t.side = "right" THEN me ELSE nodes[n].right
    <3>1. CASE n # t.parent
      BY <2>2, <2>3, <3>1
    <3>2. CASE n = t.parent
      <4>1. old[n] = [nodes[n] EXCEPT ![t.side] = me] /\ t.side \in {"left", "right"}
              /\ nodes[n] \in Node
        BY <2>1, <2>2, <2>3, <3>2
      <4>2. PICK x \in Node, side \in {"left", "right"} : x = nodes[n] /\ side = t.side
        BY <4>1
      <4>3. /\ [x EXCEPT ![side] = me] \in Node
            /\ [x EXCEPT ![side] = me].record = x.record
            /\ [x EXCEPT ![side] = me].axis = x.axis
            /\ [x EXCEPT ![side] = me].left = IF side = "left" THEN me ELSE x.left
            /\ [x EXCEPT ![side] = me].right = IF side = "right" THEN me ELSE x.right
        BY <1>9, PatchedNode
      <4>4. QED
        BY <3>2, <4>1, <4>2, <4>3
    <3>3. QED
      BY <3>1, <3>2
  <2>5. old = [n \in 1 .. Len(nodes) |-> old[n]]
    BY <1>11, <2>3 DEF Patched
  <2>6. old \in Seq(Node) /\ Len(old) = Len(nodes)
    BY <2>3, <2>4, <2>5
  <2>7. QED
    BY <2>3, <2>4, <2>6
<1>13. nodes' \in Seq(Node) /\ GrownNodes(t, me, axis, median, nodes')
  <2>1. nodes' = Append(old, new(median)) /\ Len(nodes) \in Nat
    BY <1>5, <1>11, NodeTypes
  <2>2. /\ nodes' \in Seq(Node) /\ Len(nodes') = me /\ nodes'[me] = new(median)
        /\ DOMAIN nodes' = DOMAIN nodes \cup {me}
        /\ \A n \in DOMAIN nodes : nodes'[n] = old[n]
    BY <1>2, <1>10, <1>12, <2>1, NodeTypes
  <2>3. QED
    BY <1>12, <2>2 DEF GrownNodes, new
<1>14. pending' \in Seq(Subtree) /\ SplitTask(t, me, left, right, pending')
  <2>1. L(left) \in Subtree /\ R(right) \in Subtree
    <3>1. left \in SUBSET DOMAIN points /\ right \in SUBSET DOMAIN points /\ t.depth + 1 \in Nat
      BY <1>7, <1>8 DEF Joins
    <3>2. QED
      BY <1>9, <3>1 DEF Subtree
  <2>2. PICK x \in Subtree, y \in Subtree : x = L(left) /\ y = R(right)
    BY <2>1
  <2>3. pending' = <<x, y>> \o Tail(pending)
    BY <1>5, <1>6, <2>2
  <2>4. pending' \in Seq(Subtree) /\ Replaced(pending', pending, x, y)
    BY <1>1, <2>3, PushTwo
  <2>5. QED
    BY <2>2, <2>4 DEF SplitTask
<1>15. QED
  BY <1>8, <1>13, <1>14

(* The places of a stack after two frames have taken the place of the      *)
(* first: the two, and those that were below it.                           *)
LEMMA Places ==
  ASSUME NEW t, NEW s, NEW a, NEW b, Replaced(t, s, a, b), Len(s) \in Nat \ {0},
         DOMAIN t = 1 .. Len(t), DOMAIN s = 1 .. Len(s)
  PROVE  /\ 1 \in DOMAIN t /\ 2 \in DOMAIN t
         /\ \A i \in DOMAIN t :
              i = 1 \/ i = 2 \/ (i \in 3 .. Len(t) /\ i - 1 \in DOMAIN s /\ i - 1 # 1
                /\ t[i] = s[i - 1])
         /\ \A j \in DOMAIN s : j # 1 => j + 1 \in DOMAIN t /\ j + 1 # 1 /\ j + 1 # 2
              /\ t[j + 1] = s[j]
BY DEF Replaced

(* A task of the new stack is one of the two halves, or an old one that is *)
(* not the first.                                                          *)
LEMMA NewTasks ==
  ASSUME TypeOK, NEW t, NEW me, NEW left, NEW right, pending # << >>,
         SplitTask(t, me, left, right, pending'), pending' \in Seq(Subtree')
  PROVE  /\ 1 \in DOMAIN pending' /\ 2 \in DOMAIN pending' /\ 1 \in DOMAIN pending
         /\ pending'[1].items = left /\ pending'[1].parent = me /\ pending'[1].side = "left"
         /\ pending'[2].items = right /\ pending'[2].parent = me /\ pending'[2].side = "right"
         /\ \A i \in DOMAIN pending' :
              i = 1 \/ i = 2 \/ (i - 1 \in DOMAIN pending /\ i - 1 # 1
                /\ pending'[i] = pending[i - 1])
         /\ \A i, j \in DOMAIN pending' : i # j => i - 1 # j - 1
         /\ \A j \in DOMAIN pending : j # 1 => j + 1 \in DOMAIN pending'
              /\ pending'[j + 1] = pending[j]
<1> DEFINE a == [items |-> left, depth |-> t.depth + 1, parent |-> me, side |-> "left"]
           b == [items |-> right, depth |-> t.depth + 1, parent |-> me, side |-> "right"]
<1>1. a.items = left /\ a.parent = me /\ a.side = "left"
      /\ b.items = right /\ b.parent = me /\ b.side = "right"
  OBVIOUS
<1>2. Replaced(pending', pending, a, b)
  BY DEF SplitTask
<1> HIDE DEF a, b
<1>3. DOMAIN pending' = 1 .. Len(pending') /\ Len(pending') \in Nat
      /\ DOMAIN pending = 1 .. Len(pending) /\ Len(pending) \in Nat \ {0}
  BY TaskTypes
<1>4. /\ 1 \in DOMAIN pending' /\ 2 \in DOMAIN pending' /\ pending'[1] = a /\ pending'[2] = b
      /\ \A i \in DOMAIN pending' :
           i = 1 \/ i = 2 \/ (i - 1 \in DOMAIN pending /\ i - 1 # 1
             /\ pending'[i] = pending[i - 1])
      /\ \A j \in DOMAIN pending : j # 1 => j + 1 \in DOMAIN pending'
           /\ pending'[j + 1] = pending[j]
  <2>1. PICK s : s = pending
    OBVIOUS
  <2>2. PICK u : u = pending'
    OBVIOUS
  <2>3. Replaced(u, s, a, b) /\ DOMAIN u = 1 .. Len(u) /\ DOMAIN s = 1 .. Len(s)
          /\ Len(s) \in Nat \ {0}
    BY <1>2, <1>3, <2>1, <2>2
  <2>4. /\ 1 \in DOMAIN u /\ 2 \in DOMAIN u
        /\ \A i \in DOMAIN u :
             i = 1 \/ i = 2 \/ (i \in 3 .. Len(u) /\ i - 1 \in DOMAIN s /\ i - 1 # 1
               /\ u[i] = s[i - 1])
        /\ \A j \in DOMAIN s : j # 1 => j + 1 \in DOMAIN u /\ j + 1 # 1 /\ j + 1 # 2
             /\ u[j + 1] = s[j]
    BY <2>3, Places
  <2>5. u[1] = a /\ u[2] = b
    BY <2>3 DEF Replaced
  <2>6. QED
    BY <2>1, <2>2, <2>4, <2>5
<1>5. \A i, j \in DOMAIN pending' : i # j => i - 1 # j - 1
  BY <1>3
<1>6. QED
  BY <1>1, <1>3, <1>4, <1>5

(* The parts of the tree's invariant after the step, one by one.  First the *)
(* rooms: those of the new node are the two halves.                        *)
LEMMA BuildRooms ==
  ASSUME TypeOK, TreeOK, NEW t, NEW me, NEW axis, NEW median, NEW left, NEW right,
         pending # << >>, points' = points, t \in Subtree,
         Joins(t, me, axis, median, left, right), GrownNodes(t, me, axis, median, nodes'),
         SplitTask(t, me, left, right, pending'), pending' \in Seq(Subtree')
  PROVE  (\E lo, hi \in [DOMAIN nodes -> SUBSET DOMAIN points] : Rooms(lo, hi))'
<1>1. PICK lo \in [DOMAIN nodes -> SUBSET DOMAIN points],
        hi \in [DOMAIN nodes -> SUBSET DOMAIN points] :
        Rooms(lo, hi)
  BY DEF TreeOK
<1> DEFINE D == DOMAIN nodes \cup {me}
<1>17. PICK nl : nl = [n \in D |-> IF n = me THEN left ELSE lo[n]]
  OBVIOUS
<1>18. PICK nh : nh = [n \in D |-> IF n = me THEN right ELSE hi[n]]
  OBVIOUS
<1>2. DOMAIN nodes' = D /\ me \notin DOMAIN nodes /\ me # NONE
  BY NodeTypes DEF GrownNodes, Joins, NONE
<1>3. left \in SUBSET DOMAIN points /\ right \in SUBSET DOMAIN points
        /\ t.items \subseteq DOMAIN points
  BY DEF Joins, Subtree
<1>4. nl \in [DOMAIN nodes' -> SUBSET DOMAIN points']
        /\ nh \in [DOMAIN nodes' -> SUBSET DOMAIN points']
  BY <1>1, <1>2, <1>3, <1>17, <1>18
<1>5. nl[me] = left /\ nh[me] = right /\ \A n \in DOMAIN nodes : nl[n] = lo[n] /\ nh[n] = hi[n]
  BY <1>2, <1>17, <1>18
<1>6. /\ nodes'[me].record = median /\ nodes'[me].axis = axis
      /\ nodes'[me].left = NONE /\ nodes'[me].right = NONE
  BY DEF GrownNodes
<1>7. \A n \in DOMAIN nodes :
        /\ nodes'[n].record = nodes[n].record /\ nodes'[n].axis = nodes[n].axis
        /\ nodes'[n].left = IF n = t.parent /\ t.side = "left" THEN me ELSE nodes[n].left
        /\ nodes'[n].right = IF n = t.parent /\ t.side = "right" THEN me ELSE nodes[n].right
  BY DEF GrownNodes
<1>8. /\ {nodes'[me].record} \cup nl[me] \cup nh[me] = t.items
      /\ \A n \in DOMAIN nodes : {nodes'[n].record} \cup nl[n] \cup nh[n] = Below(lo, hi, n)
  BY <1>5, <1>6, <1>7 DEF Below, Joins
<1>9. t.side = "left" => t.items \subseteq lo[t.parent]
  BY <1>1, TaskTypes DEF Rooms, Joins
<1>10. t.side = "right" => t.items \subseteq hi[t.parent]
  BY <1>1, TaskTypes DEF Rooms, Joins
<1>11. ASSUME NEW n \in DOMAIN nodes'
       PROVE  /\ nodes'[n].record \notin nl[n] \cup nh[n]
              /\ nl[n] \cap nh[n] = {}
              /\ \A r \in nl[n] : points[r][nodes'[n].axis] <= points[nodes'[n].record][nodes'[n].axis]
              /\ \A r \in nh[n] : points[nodes'[n].record][nodes'[n].axis] <= points[r][nodes'[n].axis]
  <2>1. CASE n = me
    BY <1>5, <1>6, <2>1 DEF Joins
  <2>2. CASE n \in DOMAIN nodes
    BY <1>1, <1>5, <1>7, <2>2 DEF Rooms
  <2>3. QED
    BY <1>2, <2>1, <2>2
<1>12. ASSUME NEW n \in DOMAIN nodes', NEW c, c = nodes'[n].left, c # NONE
       PROVE  {nodes'[c].record} \cup nl[c] \cup nh[c] \subseteq nl[n]
  <2>1. n \in DOMAIN nodes
    BY <1>2, <1>6, <1>12
  <2>2. CASE n = t.parent /\ t.side = "left"
    BY <1>5, <1>7, <1>8, <1>9, <1>12, <2>1, <2>2
  <2>3. CASE ~(n = t.parent /\ t.side = "left")
    <3>1. c = nodes[n].left
      BY <1>7, <1>12, <2>1, <2>3
    <3>2. c \in DOMAIN nodes /\ Below(lo, hi, c) \subseteq lo[n]
      BY <1>1, <1>12, <2>1, <3>1 DEF Rooms, TreeOK, Upward
    <3>3. QED
      BY <1>5, <1>8, <2>1, <3>2
  <2>4. QED
    BY <2>2, <2>3
<1>13. ASSUME NEW n \in DOMAIN nodes', NEW c, c = nodes'[n].right, c # NONE
       PROVE  {nodes'[c].record} \cup nl[c] \cup nh[c] \subseteq nh[n]
  <2>1. n \in DOMAIN nodes
    BY <1>2, <1>6, <1>13
  <2>2. CASE n = t.parent /\ t.side = "right"
    BY <1>5, <1>7, <1>8, <1>10, <1>13, <2>1, <2>2
  <2>3. CASE ~(n = t.parent /\ t.side = "right")
    <3>1. c = nodes[n].right
      BY <1>7, <1>13, <2>1, <2>3
    <3>2. c \in DOMAIN nodes /\ Below(lo, hi, c) \subseteq hi[n]
      BY <1>1, <1>13, <2>1, <3>1 DEF Rooms, TreeOK, Upward
    <3>3. QED
      BY <1>5, <1>8, <2>1, <3>2
  <2>4. QED
    BY <2>2, <2>3
<1>14. ASSUME NEW i \in DOMAIN pending'
       PROVE  /\ pending'[i].side = "left" => pending'[i].items \subseteq nl[pending'[i].parent]
              /\ pending'[i].side = "right" => pending'[i].items \subseteq nh[pending'[i].parent]
  <2>1. CASE i = 1
    BY <1>5, <2>1, NewTasks
  <2>2. CASE i = 2
    BY <1>5, <2>2, NewTasks
  <2>3. CASE i # 1 /\ i # 2
    <3>1. PICK j \in DOMAIN pending : pending'[i] = pending[j]
      BY <2>3, NewTasks
    <3>2. pending[j].side \in {"left", "right"} => pending[j].parent \in DOMAIN nodes
      BY DEF TreeOK, Placed
    <3>3. QED
      BY <1>1, <1>5, <3>1, <3>2 DEF Rooms
  <2>4. QED
    BY <2>1, <2>2, <2>3
<1>15. Rooms(nl, nh)'
  <2>1. \A n \in DOMAIN nodes' :
          /\ nodes'[n].left # NONE => Below(nl, nh, nodes[n].left)' \subseteq nl[n]
          /\ nodes'[n].right # NONE => Below(nl, nh, nodes[n].right)' \subseteq nh[n]
    <3> TAKE n \in DOMAIN nodes'
    <3>1. PICK c : c = nodes'[n].left
      OBVIOUS
    <3>2. PICK d : d = nodes'[n].right
      OBVIOUS
    <3>3. c # NONE => {nodes'[c].record} \cup nl[c] \cup nh[c] \subseteq nl[n]
      BY <1>12, <3>1
    <3>4. d # NONE => {nodes'[d].record} \cup nl[d] \cup nh[d] \subseteq nh[n]
      BY <1>13, <3>2
    <3>5. QED
      BY <3>1, <3>2, <3>3, <3>4 DEF Below
  <2>2. QED
    BY <1>4, <1>11, <1>14, <2>1 DEF Rooms
<1>16. QED
  BY <1>4, <1>15

(* Next the order of the nodes.                                            *)
LEMMA BuildOrder ==
  ASSUME TypeOK, TreeOK, NEW t, NEW me \in Nat, NEW axis, NEW median, NEW left, NEW right,
         pending # << >>,
         Joins(t, me, axis, median, left, right), GrownNodes(t, me, axis, median, nodes')
  PROVE  Upward' /\ Rooted'
<1>1. DOMAIN nodes' = DOMAIN nodes \cup {me}
        /\ \A n \in DOMAIN nodes : n \in Nat /\ n < me /\ n # NONE
  BY NodeTypes DEF GrownNodes, Joins, NONE
<1>2. nodes'[me].left = NONE /\ nodes'[me].right = NONE
  BY DEF GrownNodes
<1>3. \A n \in DOMAIN nodes :
        /\ nodes'[n].left = IF n = t.parent /\ t.side = "left" THEN me ELSE nodes[n].left
        /\ nodes'[n].right = IF n = t.parent /\ t.side = "right" THEN me ELSE nodes[n].right
  BY DEF GrownNodes
<1>4. \/ t.side = "root" /\ nodes = << >>
      \/ t.side = "left" /\ t.parent \in DOMAIN nodes /\ nodes[t.parent].left = NONE
      \/ t.side = "right" /\ t.parent \in DOMAIN nodes /\ nodes[t.parent].right = NONE
  BY TaskTypes DEF TreeOK, Placed, Joins
<1>5. Upward'
  BY <1>1, <1>2, <1>3 DEF TreeOK, Upward
<1>6. ASSUME NEW n \in DOMAIN nodes', n # 1
      PROVE  \E m \in DOMAIN nodes' : m < n /\ (nodes'[m].left = n \/ nodes'[m].right = n)
  <2>1. CASE n = me
    <3>1. t.side # "root"
      BY <1>4, <1>6, <2>1 DEF Joins
    <3>2. t.parent \in DOMAIN nodes /\ (t.side = "left" \/ t.side = "right")
      BY <1>4, <3>1
    <3>3. nodes'[t.parent].left = me \/ nodes'[t.parent].right = me
      BY <1>3, <3>2
    <3>4. QED
      BY <1>1, <2>1, <3>2, <3>3
  <2>2. CASE n \in DOMAIN nodes
    <3>1. PICK m \in DOMAIN nodes : m < n /\ (nodes[m].left = n \/ nodes[m].right = n)
      BY <1>6, <2>2 DEF TreeOK, Rooted
    <3>2. nodes'[m].left = n \/ nodes'[m].right = n
      BY <1>1, <1>3, <1>4, <2>2, <3>1
    <3>3. QED
      BY <1>1, <3>1, <3>2
  <2>3. QED
    BY <1>1, <2>1, <2>2
<1>7. QED
  BY <1>5, <1>6 DEF Rooted

(* The places of the pending subtrees.                                     *)
LEMMA BuildPlaced ==
  ASSUME TypeOK, TreeOK, NEW t, NEW me \in Nat, NEW axis, NEW median, NEW left, NEW right,
         pending # << >>,
         Joins(t, me, axis, median, left, right), GrownNodes(t, me, axis, median, nodes'),
         SplitTask(t, me, left, right, pending'), pending' \in Seq(Subtree')
  PROVE  Placed'
<1>1. DOMAIN nodes' = DOMAIN nodes \cup {me} /\ \A n \in DOMAIN nodes : n # me
  BY NodeTypes DEF GrownNodes, Joins
<1>2. nodes'[me].left = NONE /\ nodes'[me].right = NONE
  BY DEF GrownNodes
<1>3. \A n \in DOMAIN nodes :
        /\ nodes'[n].left = IF n = t.parent /\ t.side = "left" THEN me ELSE nodes[n].left
        /\ nodes'[n].right = IF n = t.parent /\ t.side = "right" THEN me ELSE nodes[n].right
  BY DEF GrownNodes
<1>4. t = pending[1] /\ 1 \in DOMAIN pending /\ DOMAIN pending = 1 .. Len(pending)
        /\ Len(pending) \in Nat
  BY TaskTypes DEF Joins
<1>5. ASSUME NEW j \in DOMAIN pending, j # 1
      PROVE  /\ \/ pending[j].side = "left" /\ pending[j].parent \in DOMAIN nodes
                   /\ nodes'[pending[j].parent].left = NONE
                \/ pending[j].side = "right" /\ pending[j].parent \in DOMAIN nodes
                   /\ nodes'[pending[j].parent].right = NONE
  <2>1. Len(pending) # 1
    BY <1>4, <1>5
  <2>2. \/ pending[j].side = "left" /\ pending[j].parent \in DOMAIN nodes
           /\ nodes[pending[j].parent].left = NONE
        \/ pending[j].side = "right" /\ pending[j].parent \in DOMAIN nodes
           /\ nodes[pending[j].parent].right = NONE
    BY <2>1 DEF TreeOK, Placed
  <2>3. pending[j].parent # t.parent \/ pending[j].side # t.side
    BY <1>4, <1>5 DEF TreeOK, Placed
  <2>4. QED
    BY <1>3, <2>2, <2>3
<1>6. ASSUME NEW i \in DOMAIN pending'
      PROVE  \/ pending'[i].side = "left" /\ pending'[i].parent \in DOMAIN nodes'
                /\ nodes'[pending'[i].parent].left = NONE
             \/ pending'[i].side = "right" /\ pending'[i].parent \in DOMAIN nodes'
                /\ nodes'[pending'[i].parent].right = NONE
  <2>1. CASE i = 1
    BY <1>1, <1>2, <2>1, NewTasks
  <2>2. CASE i = 2
    BY <1>1, <1>2, <2>2, NewTasks
  <2>3. CASE i # 1 /\ i # 2
    <3>1. PICK j \in DOMAIN pending : pending'[i] = pending[j] /\ j # 1
      BY <2>3, NewTasks
    <3>2. QED
      BY <1>1, <1>5, <3>1
  <2>4. QED
    BY <2>1, <2>2, <2>3
<1>7. ASSUME NEW i \in DOMAIN pending', NEW j \in DOMAIN pending', i # j
      PROVE  pending'[i].parent # pending'[j].parent \/ pending'[i].side # pending'[j].side
  <2>1. \A m \in DOMAIN pending : m # 1 => pending[m].parent # me
    BY <1>1, <1>5
  <2>2. CASE i \in {1, 2} /\ j \in {1, 2}
    BY <1>7, <2>2, NewTasks
  <2>3. CASE i \in {1, 2} /\ j \notin {1, 2}
    <3>1. PICK m \in DOMAIN pending : pending'[j] = pending[m] /\ m # 1
      BY <2>3, NewTasks
    <3>2. i = 1 \/ i = 2
      BY <2>3
    <3>3. QED
      BY <2>1, <3>1, <3>2, NewTasks
  <2>4. CASE i \notin {1, 2} /\ j \in {1, 2}
    <3>1. PICK m \in DOMAIN pending : pending'[i] = pending[m] /\ m # 1
      BY <2>4, NewTasks
    <3>2. j = 1 \/ j = 2
      BY <2>4
    <3>3. QED
      BY <2>1, <3>1, <3>2, NewTasks
  <2>5. CASE i \notin {1, 2} /\ j \notin {1, 2}
    <3>1. /\ i - 1 \in DOMAIN pending /\ pending'[i] = pending[i - 1]
          /\ j - 1 \in DOMAIN pending /\ pending'[j] = pending[j - 1]
          /\ i - 1 # j - 1
      BY <1>7, <2>5, NewTasks
    <3>2. QED
      BY <3>1 DEF TreeOK, Placed
  <2>6. QED
    BY <2>2, <2>3, <2>4, <2>5
<1>8. QED
  BY <1>6, <1>7 DEF Placed

(* And no record is doubled or dropped.                                    *)
LEMMA BuildOnce ==
  ASSUME TypeOK, TreeOK, NEW t, NEW me \in Nat, NEW axis, NEW median, NEW left, NEW right,
         pending # << >>, points' = points,
         Joins(t, me, axis, median, left, right), GrownNodes(t, me, axis, median, nodes'),
         SplitTask(t, me, left, right, pending'), pending' \in Seq(Subtree')
  PROVE  OnceEach'
<1>1. DOMAIN nodes' = DOMAIN nodes \cup {me} /\ \A n \in DOMAIN nodes : n # me
  BY NodeTypes DEF GrownNodes, Joins
<1>2. nodes'[me].record = median /\ \A n \in DOMAIN nodes : nodes'[n].record = nodes[n].record
  BY DEF GrownNodes
<1>3. Records' = Records \cup {median}
  BY <1>1, <1>2 DEF Records
<1>4. /\ t = pending[1] /\ t.items = {median} \cup left \cup right
      /\ median \notin left \cup right /\ left \cap right = {}
  BY DEF Joins
<1>5. /\ \A m, n \in DOMAIN nodes : m # n => nodes[m].record # nodes[n].record
      /\ \A i \in DOMAIN pending : pending[i].items \cap Records = {}
      /\ \A i, j \in DOMAIN pending : i # j => pending[i].items \cap pending[j].items = {}
      /\ DOMAIN points \subseteq Records \cup UNION {pending[i].items : i \in DOMAIN pending}
  BY DEF TreeOK, OnceEach
<1>6. t.items \cap Records = {}
        /\ \A j \in DOMAIN pending : j # 1 => pending[j].items \cap t.items = {}
  BY <1>4, <1>5, NewTasks
<1>7. \A m, n \in DOMAIN nodes' : m # n => nodes'[m].record # nodes'[n].record
  <2>1. \A n \in DOMAIN nodes : nodes[n].record # median
    BY <1>4, <1>6 DEF Records
  <2>2. QED
    BY <1>1, <1>2, <1>5, <2>1
<1>8. \A i \in DOMAIN pending' : pending'[i].items \cap Records' = {}
  <2> TAKE i \in DOMAIN pending'
  <2>1. CASE i = 1 \/ i = 2
    <3>1. pending'[i].items \subseteq left \cup right
      BY <2>1, NewTasks
    <3>2. QED
      BY <1>3, <1>4, <1>6, <3>1
  <2>2. CASE i # 1 /\ i # 2
    <3>1. PICK j \in DOMAIN pending : pending'[i] = pending[j] /\ j # 1
      BY <2>2, NewTasks
    <3>2. QED
      BY <1>3, <1>4, <1>5, <1>6, <3>1
  <2>3. QED
    BY <2>1, <2>2
<1>9. ASSUME NEW i \in DOMAIN pending', NEW j \in DOMAIN pending', i # j
      PROVE  pending'[i].items \cap pending'[j].items = {}
  <2>1. \A m \in DOMAIN pending : m # 1 => pending[m].items \cap (left \cup right) = {}
    BY <1>4, <1>6
  <2>2. CASE i \in {1, 2} /\ j \in {1, 2}
    BY <1>4, <1>9, <2>2, NewTasks
  <2>3. CASE i \in {1, 2} /\ j \notin {1, 2}
    <3>1. PICK m \in DOMAIN pending : pending'[j] = pending[m] /\ m # 1
      BY <2>3, NewTasks
    <3>2. i = 1 \/ i = 2
      BY <2>3
    <3>3. QED
      BY <2>1, <3>1, <3>2, NewTasks
  <2>4. CASE i \notin {1, 2} /\ j \in {1, 2}
    <3>1. PICK m \in DOMAIN pending : pending'[i] = pending[m] /\ m # 1
      BY <2>4, NewTasks
    <3>2. j = 1 \/ j = 2
      BY <2>4
    <3>3. QED
      BY <2>1, <3>1, <3>2, NewTasks
  <2>5. CASE i \notin {1, 2} /\ j \notin {1, 2}
    <3>1. /\ i - 1 \in DOMAIN pending /\ pending'[i] = pending[i - 1]
          /\ j - 1 \in DOMAIN pending /\ pending'[j] = pending[j - 1]
          /\ i - 1 # j - 1
      BY <1>9, <2>5, NewTasks
    <3>2. QED
      BY <1>5, <3>1
  <2>6. QED
    BY <2>2, <2>3, <2>4, <2>5
<1>10. DOMAIN points \subseteq Records' \cup UNION {pending'[i].items : i \in DOMAIN pending'}
  <2> SUFFICES ASSUME NEW r \in DOMAIN points, r \notin Records'
               PROVE  \E i \in DOMAIN pending' : r \in pending'[i].items
    OBVIOUS
  <2>1. PICK j \in DOMAIN pending : r \in pending[j].items
    BY <1>3, <1>5
  <2>2. CASE j = 1
    BY <1>3, <1>4, <2>1, <2>2, NewTasks
  <2>3. CASE j # 1
    BY <2>1, <2>3, NewTasks
  <2>4. QED
    BY <2>2, <2>3
<1>11. QED
  BY <1>7, <1>8, <1>9, <1>10 DEF OnceEach

-----------------------------------------------------------------------------
(* The construction keeps the types and the invariant of the tree.         *)
LEMMA InitTree ==
  ASSUME Init
  PROVE  TypeOK /\ TreeOK
<1>1. /\ points \in Seq(Point) /\ nodes = << >> /\ DOMAIN nodes = {}
      /\ pending = <<[items |-> DOMAIN points, depth |-> 0, parent |-> NONE, side |-> "root"]>>
      /\ query = NoQuery /\ k = 0 /\ matching = {} /\ stack = << >> /\ heap = {}
  BY CorporaAssumption DEF Init
<1>2. PICK t : t = [items |-> DOMAIN points, depth |-> 0, parent |-> NONE, side |-> "root"]
  OBVIOUS
<1>3. t \in Subtree /\ t.items = DOMAIN points /\ t.parent = NONE /\ t.side = "root"
  BY <1>1, <1>2 DEF Subtree, Child, NONE
<1>4. pending \in Seq(Subtree) /\ DOMAIN pending = {1} /\ pending[1] = t /\ Len(pending) = 1
  BY <1>1, <1>2, <1>3
<1>5. TypeOK
  BY <1>1, <1>4 DEF TypeOK, Subtree
<1>6. \E lo, hi \in [DOMAIN nodes -> SUBSET DOMAIN points] : Rooms(lo, hi)
  <2>1. PICK f : f = [n \in DOMAIN nodes |-> {}]
    OBVIOUS
  <2>2. f \in [DOMAIN nodes -> SUBSET DOMAIN points]
    BY <2>1
  <2>3. Rooms(f, f)
    BY <1>1, <1>3, <1>4, <2>2 DEF Rooms
  <2>4. QED
    BY <2>2, <2>3
<1>7. Upward /\ Rooted
  BY <1>1 DEF Upward, Rooted
<1>8. Placed
  BY <1>1, <1>3, <1>4 DEF Placed
<1>9. OnceEach
  BY <1>1, <1>3, <1>4 DEF OnceEach, Records
<1>10. QED
  BY <1>5, <1>6, <1>7, <1>8, <1>9 DEF TreeOK

(* An empty subtree has no node to place: the rooms and the places of      *)
(* the others are what they were.                                          *)
LEMMA SkipStep ==
  ASSUME TypeOK, TreeOK, SkipEmpty
  PROVE  TypeOK' /\ TreeOK'
<1>1. /\ pending # << >> /\ pending[1].items = {} /\ pending' = Tail(pending)
      /\ UNCHANGED <<points, nodes, query, k, matching, stack, heap>>
  BY TaskTypes DEF SkipEmpty
<1>2. /\ pending \in Seq(Subtree) /\ DOMAIN pending = 1 .. Len(pending)
           /\ Len(pending) \in Nat \ {0}
  BY <1>1, TaskTypes
<1>3. /\ pending' \in Seq(Subtree) /\ DOMAIN pending' = 1 .. Len(pending')
      /\ Len(pending') = Len(pending) - 1
      /\ \A i \in DOMAIN pending' : i + 1 \in DOMAIN pending /\ i + 1 # 1
           /\ pending'[i] = pending[i + 1]
      /\ \A j \in DOMAIN pending : j # 1 => j - 1 \in DOMAIN pending'
           /\ pending'[j - 1] = pending[j]
      /\ \A i, j \in DOMAIN pending' : i # j => i + 1 # j + 1
  <2>1. pending' \in Seq(Subtree) /\ Len(pending') = Len(pending) - 1
        /\ \A i \in 1 .. Len(pending) - 1 : pending'[i] = pending[i + 1]
    BY <1>1, <1>2, Popped
  <2>2. DOMAIN pending' = 1 .. Len(pending) - 1
    BY <2>1
  <2>3. \A j \in DOMAIN pending : j # 1 => j - 1 \in 1 .. Len(pending) - 1 /\ (j - 1) + 1 = j
    BY <1>2
  <2>4. \A i \in 1 .. Len(pending) - 1 : i + 1 \in DOMAIN pending /\ i + 1 # 1
    BY <1>2
  <2>5. \A i, j \in 1 .. Len(pending) - 1 : i # j => i + 1 # j + 1
    OBVIOUS
  <2>6. QED
    BY <2>1, <2>2, <2>3, <2>4, <2>5
<1>4. TypeOK'
  BY <1>1, <1>3 DEF TypeOK, Subtree, Child
<1>5. (\E lo, hi \in [DOMAIN nodes -> SUBSET DOMAIN points] : Rooms(lo, hi))'
  <2>1. PICK lo \in [DOMAIN nodes -> SUBSET DOMAIN points],
          hi \in [DOMAIN nodes -> SUBSET DOMAIN points] :
          Rooms(lo, hi)
    BY DEF TreeOK
  <2>2. Rooms(lo, hi)'
    BY <1>1, <1>3, <2>1 DEF Rooms, Below
  <2>3. QED
    BY <1>1, <2>1, <2>2
<1>6. Upward' /\ Rooted'
  BY <1>1 DEF TreeOK, Upward, Rooted
<1>7. Placed'
  <2>1. \A j \in DOMAIN pending : j # 1 => Len(pending) # 1
    BY <1>2
  <2>2. QED
    BY <1>1, <1>3, <2>1 DEF TreeOK, Placed
<1>8. OnceEach'
  <2>1. Records' = Records
    BY <1>1 DEF Records
  <2>2. DOMAIN points' \subseteq Records' \cup UNION {pending'[i].items : i \in DOMAIN pending'}
    <3> SUFFICES ASSUME NEW r \in DOMAIN points, r \notin Records
                 PROVE  \E i \in DOMAIN pending' : r \in pending'[i].items
      BY <1>1, <2>1
    <3>1. PICK j \in DOMAIN pending : r \in pending[j].items
      BY DEF TreeOK, OnceEach
    <3>2. j # 1
      BY <1>1, <3>1
    <3>3. QED
      BY <1>3, <3>1, <3>2
  <2>3. QED
    BY <1>1, <1>3, <2>1, <2>2 DEF TreeOK, OnceEach
<1>9. QED
  BY <1>4, <1>5, <1>6, <1>7, <1>8 DEF TreeOK

(* A subtree with records gets its node, and its halves become the rooms   *)
(* on either side of it.                                                   *)
LEMMA BuildStep ==
  ASSUME TypeOK, TreeOK, BuildSubtree
  PROVE  TypeOK' /\ TreeOK'
<1>1. pending # << >> /\ UNCHANGED <<points, query, k, matching, stack, heap>>
  BY DEF BuildSubtree
<1>2. Placed /\ OnceEach
  BY DEF TreeOK
<1>3. PICK t \in Subtree, me \in Nat : \E axis, median, left, right :
           /\ Joins(t, me, axis, median, left, right)
           /\ GrownNodes(t, me, axis, median, nodes')
           /\ SplitTask(t, me, left, right, pending')
           /\ nodes' \in Seq(Node) /\ pending' \in Seq(Subtree)
  BY <1>2, BuildShape
<1>4. PICK axis, median, left, right :
           /\ Joins(t, me, axis, median, left, right)
           /\ GrownNodes(t, me, axis, median, nodes')
           /\ SplitTask(t, me, left, right, pending')
           /\ nodes' \in Seq(Node) /\ pending' \in Seq(Subtree)
  BY <1>3
<1>5. Node' = Node /\ Subtree' = Subtree /\ Child' = Child
  BY <1>1 DEF Node, Subtree, Child
<1>6. pending' \in Seq(Subtree')
  BY <1>4, <1>5
<1>7. TypeOK'
  BY <1>1, <1>4, <1>5 DEF TypeOK, Node, Subtree
<1>8. (\E lo, hi \in [DOMAIN nodes -> SUBSET DOMAIN points] : Rooms(lo, hi))'
  BY <1>1, <1>4, <1>6, BuildRooms
<1>9. Upward' /\ Rooted'
  BY <1>1, <1>4, BuildOrder
<1>10. Placed'
  BY <1>1, <1>4, <1>6, BuildPlaced
<1>11. OnceEach'
  BY <1>1, <1>4, <1>6, BuildOnce
<1>12. QED
  BY <1>7, <1>8, <1>9, <1>10, <1>11 DEF TreeOK

(* A search leaves the tree alone.                                         *)
LEMMA SameTree ==
  ASSUME TreeOK, UNCHANGED <<points, nodes, pending>>
  PROVE  TreeOK'
BY DEF TreeOK, Rooms, Below, Upward, Rooted, Placed, OnceEach, Records

-----------------------------------------------------------------------------
(* The search.  Of the items seen the heap has the best; the subtrees on   *)
(* the stack have no record in common; and what is under the node of a     *)
(* frame is at least as far away as the frame's bound says.                *)
Seen == {Item(r) : r \in matching \ Waiting}

FramesOK ==
  /\ \A i \in DOMAIN stack : stack[i].node \in DOMAIN nodes \cup {NONE}
  /\ \A i \in DOMAIN stack :
       stack[i].bound # Always => \A r \in Under[stack[i].node] : stack[i].bound <= Item(r).score
  /\ \A i, j \in DOMAIN stack : i # j => Under[stack[i].node] \cap Under[stack[j].node] = {}

SearchOK ==
  /\ query = NoQuery => stack = << >> /\ heap = {}
  /\ query # NoQuery =>
       /\ pending = << >>
       /\ FramesOK
       /\ IsFiniteSet(heap) /\ Topped(heap) /\ KeepsBest(heap, k, Seen)

IInv == TypeOK /\ TreeOK /\ SearchOK

(* A record on the far side of a plane is no nearer than the plane.        *)
LEMMA SquareGrows ==
  ASSUME NEW x \in Nat, NEW y \in Nat, x <= y
  PROVE  x * x <= y * y
<1>1. PICK z \in Nat : y = x + z
  <2>1. y - x \in Nat /\ y = x + (y - x)
    OBVIOUS
  <2>2. QED
    BY <2>1
<1>2. y * y = x * x + (x * z + z * x) + z * z
  BY <1>1
<1>3. x * z \in Nat /\ z * x \in Nat /\ z * z \in Nat /\ x * x \in Nat
  BY <1>1
<1>4. QED
  BY <1>2, <1>3

(* With the query on one side of a plane and a point on the other the      *)
(* point is, along that axis, at least as far from the query as the        *)
(* plane.                                                                  *)
LEMMA BeyondPlane ==
  ASSUME NEW p \in Int, NEW q \in Int, NEW x \in Int,
         (q - p < 0 /\ p <= x) \/ (~(q - p < 0) /\ x <= p)
  PROVE  Square(q - p) <= Square(x - q)
<1>1. CASE q - p < 0 /\ p <= x
  <2>1. PICK a \in Nat : a = p - q
    BY <1>1
  <2>2. PICK b \in Nat : b = x - q
    BY <1>1
  <2>3. a <= b
    BY <1>1, <2>1, <2>2
  <2>4. a * a <= b * b
    BY <2>3, SquareGrows
  <2>5. q - p = -a /\ x - q = b
    BY <2>1, <2>2
  <2>6. (-a) * (-a) = a * a
    BY <2>1
  <2>7. QED
    BY <2>4, <2>5, <2>6 DEF Square
<1>2. CASE ~(q - p < 0) /\ x <= p
  <2>1. PICK a \in Nat : a = q - p
    BY <1>2
  <2>2. PICK b \in Nat : b = q - x
    BY <1>2
  <2>3. a <= b
    BY <1>2, <2>1, <2>2
  <2>4. a * a <= b * b
    BY <2>3, SquareGrows
  <2>5. q - p = a /\ x - q = -b
    BY <2>1, <2>2
  <2>6. (-b) * (-b) = b * b
    BY <2>2
  <2>7. QED
    BY <2>4, <2>5, <2>6 DEF Square
<1>3. QED
  BY <1>1, <1>2

(* The item of a record.                                                   *)
LEMMA ItemTypes ==
  ASSUME TypeOK, query # NoQuery
  PROVE  /\ query \in Point
         /\ \A r \in DOMAIN points :
              /\ points[r] \in Point
              /\ Item(r) \in [id : DOMAIN points, score : Nat] /\ Item(r) \in Items
              /\ Item(r).id = r /\ Item(r).score = Distance(points[r], query)
<1>1. query \in Point /\ points \in Seq(Point)
  BY DEF TypeOK
<1>2. \A r \in DOMAIN points : points[r] \in Point /\ r \in Nat
  BY <1>1
<1>3. ASSUME NEW r \in DOMAIN points PROVE Distance(points[r], query) \in Nat
  BY <1>1, <1>2, DistanceBounds
<1>4. QED
  BY <1>1, <1>2, <1>3 DEF Item, Items

(* No query is the empty one.                                              *)
LEMMA NotNoQuery ==
  ASSUME NEW q \in Point
  PROVE  q # NoQuery
<1>1. DOMAIN q = 1 .. dimension /\ 1 \in 1 .. dimension
  BY DimensionAssumption DEF Point
<1>2. DOMAIN NoQuery = {}
  BY DEF NoQuery
<1>3. QED
  BY <1>1, <1>2

(* The subtrees on the stack are of records, and those of the first frame  *)
(* wait, together with those of the others.                                *)
LEMMA WaitingFirst ==
  ASSUME TypeOK, stack # << >>
  PROVE  /\ 1 \in DOMAIN stack /\ Head(stack) = stack[1] /\ stack[1].bound \in Int
         /\ DOMAIN stack = 1 .. Len(stack) /\ Len(stack) \in Nat \ {0}
         /\ stack \in Seq([node : Child, bound : Int])
         /\ Waiting = Under[stack[1].node]
                        \cup UNION {Under[stack[i].node] : i \in DOMAIN stack \ {1}}
<1> DEFINE R == [node : Child, bound : Int]
<1>1. stack \in Seq(R)
  BY DEF TypeOK
<1>5. stack[1] \in R => stack[1].bound \in Int
  OBVIOUS
<1> HIDE DEF R
<1>2. 1 \in DOMAIN stack /\ Head(stack) = stack[1] /\ stack[1] \in R
      /\ DOMAIN stack = 1 .. Len(stack) /\ Len(stack) \in Nat \ {0}
  BY <1>1, Popped
<1>3. Waiting = Under[stack[1].node] \cup UNION {Under[stack[i].node] : i \in DOMAIN stack \ {1}}
  BY <1>2 DEF Waiting
<1>4. QED
  BY <1>1, <1>2, <1>3, <1>5 DEF R

(* A search starts with an empty heap and the root, or with an empty       *)
(* heap that may hold nothing.                                             *)
LEMMA SearchStep ==
  ASSUME IInv, NEW q \in Point, NEW limit \in Limits, NEW allowed \in SUBSET DOMAIN points,
         Search(q, limit, allowed)
  PROVE  IInv'
<1>1. /\ pending = << >> /\ query = NoQuery /\ query' = q /\ k' = limit /\ matching' = allowed
      /\ stack' = IF limit = 0 \/ nodes = << >> THEN << >> ELSE <<Frame(1, Always)>>
      /\ points' = points /\ nodes' = nodes /\ pending' = pending /\ heap' = heap
  BY DEF Search
<1>2. Under' = Under /\ Child' = Child
  BY <1>1, SameUnder
<1>3. TypeOK /\ TreeOK /\ SearchOK /\ Upward /\ Rooted /\ OnceEach
  BY DEF IInv, TreeOK
<1>4. heap' = {} /\ query' # NoQuery
  BY <1>1, <1>3, NotNoQuery DEF SearchOK
<1>5. limit \in Nat
  BY LimitsAssumption
<1>6. /\ stack' = << >> \/ (stack' = <<Frame(1, Always)>> /\ nodes # << >>)
      /\ stack' = << >> => limit = 0 \/ nodes = << >>
  BY <1>1
<1>7. nodes # << >> => 1 \in DOMAIN nodes /\ 1 \in Child
  <2>1. DOMAIN nodes = 1 .. Len(nodes) /\ Len(nodes) \in Nat /\ Len(points) \in Nat
        /\ Len(nodes) <= Len(points)
    BY <1>3, NodeTypes, NotMore
  <2>2. nodes # << >> => Len(nodes) # 0
    BY <1>3 DEF TypeOK
  <2>3. QED
    BY <2>1, <2>2 DEF Child
<1>8. stack' \in Seq([node : Child, bound : Int])
  <2>1. Frame(1, Always) \in [node : Nat, bound : Int]
    BY DEF Frame, Always
  <2>2. CASE stack' = << >>
    BY <2>2
  <2>3. CASE stack' = <<Frame(1, Always)>> /\ nodes # << >>
    <3>1. Frame(1, Always) \in [node : Child, bound : Int]
      BY <1>7, <2>3 DEF Frame, Always
    <3>2. QED
      BY <2>3, <3>1
  <2>4. QED
    BY <1>6, <2>2, <2>3
<1>9. TypeOK'
  BY <1>1, <1>2, <1>3, <1>4, <1>8 DEF TypeOK
<1>10. TreeOK'
  BY <1>1, <1>3, SameTree
<1>11. FramesOK'
  <2>1. CASE stack' = << >>
    BY <2>1 DEF FramesOK
  <2>2. CASE stack' = <<Frame(1, Always)>> /\ nodes # << >>
    <3>1. DOMAIN stack' = {1} /\ stack'[1].node = 1 /\ stack'[1].bound = Always
      BY <2>2 DEF Frame
    <3>2. QED
      BY <1>1, <1>7, <2>2, <3>1 DEF FramesOK
  <2>3. QED
    BY <1>6, <2>1, <2>2
<1>12. Seen' = {} \/ k' = 0
  <2>1. CASE limit = 0
    BY <1>1, <2>1
  <2>2. CASE limit # 0 /\ nodes = << >>
    <3>1. DOMAIN nodes = {}
      BY <2>2
    <3>2. Records = {}
      BY <3>1 DEF Records
    <3>3. DOMAIN pending = {}
      BY <1>1
    <3>4. DOMAIN points = {}
      BY <1>3, <3>2, <3>3 DEF OnceEach
    <3>5. QED
      BY <1>1, <3>4 DEF Seen
  <2>3. CASE stack' = <<Frame(1, Always)>>
    <3>1. DOMAIN stack' = {1} /\ stack'[1].node = 1
      BY <2>3 DEF Frame
    <3>2. Waiting' = Under[1]
      BY <1>2, <3>1 DEF Waiting
    <3>3. DOMAIN points \subseteq Under[1]
      BY <1>1, <1>3, UnderRoot DEF OnceEach
    <3>4. matching' \ Waiting' = {}
      BY <1>1, <3>2, <3>3
    <3>5. QED
      BY <3>4 DEF Seen
  <2>4. QED
    BY <1>1, <2>1, <2>2, <2>3
<1>13. Cardinality({}) = 0 /\ IsFiniteSet({})
  BY FS_EmptySet
<1>14. KeepsBest(heap', k', Seen')
  BY <1>1, <1>4, <1>5, <1>12, <1>13 DEF KeepsBest
<1>15. Topped(heap')
  BY <1>4 DEF Topped
<1>16. SearchOK'
  BY <1>1, <1>4, <1>11, <1>13, <1>14, <1>15 DEF SearchOK
<1>17. QED
  BY <1>9, <1>10, <1>16 DEF IInv

(* A visit: the record of the node is offered and no longer waits, the two *)
(* sides of the plane take the place of the node.                          *)
Visited(n, near, far, delta, kept, left) ==
  /\ n = stack[1].node
  /\ delta = query[nodes[n].axis] - points[nodes[n].record][nodes[n].axis]
  /\ near = (IF delta < 0 THEN nodes[n].left ELSE nodes[n].right)
  /\ far = (IF delta < 0 THEN nodes[n].right ELSE nodes[n].left)
  /\ kept = IF nodes[n].record \in matching
              THEN Push(heap, k, Item(nodes[n].record)) ELSE heap
  /\ left = <<Frame(near, Always), Frame(far, Square(delta))>> \o Tail(stack)

(* Every visit is one, at a node of the tree and with a whole difference.  *)
LEMMA VisitTypes ==
  ASSUME IInv, Visit
  PROVE  /\ stack # << >> /\ query # NoQuery /\ pending = << >>
         /\ UNCHANGED <<points, nodes, pending, query, k, matching>>
         /\ \E n \in DOMAIN nodes, near \in Child, far \in Child, delta \in Int :
              Visited(n, near, far, delta, heap', stack')
<1>1. TypeOK /\ TreeOK /\ SearchOK
  BY DEF IInv
<1>2. stack # << >> /\ UNCHANGED <<points, nodes, pending, query, k, matching>>
  BY DEF Visit
<1>3. query # NoQuery /\ pending = << >> /\ FramesOK
  BY <1>1, <1>2 DEF SearchOK
<1>4. 1 \in DOMAIN stack /\ Head(stack) = stack[1]
  BY <1>1, <1>2, WaitingFirst
<1>5. PICK n \in DOMAIN nodes : n = stack[1].node
  BY <1>3, <1>4 DEF FramesOK, Visit
<1>6. /\ nodes[n].record \in DOMAIN points /\ nodes[n].axis \in 1 .. dimension
      /\ nodes[n].left \in Child /\ nodes[n].right \in Child
  BY <1>1, NodeTypes
<1>7. query[nodes[n].axis] \in Int /\ points[nodes[n].record][nodes[n].axis] \in Int
  <2>1. query \in Point /\ points[nodes[n].record] \in Point
    BY <1>1, <1>3, <1>6, ItemTypes
  <2>2. \A p \in Point, a \in 1 .. dimension : p[a] \in Coord
    BY DEF Point
  <2>3. QED
    BY <1>6, <2>1, <2>2, CoordAssumption
<1>8. PICK delta \in Int : delta = query[nodes[n].axis] - points[nodes[n].record][nodes[n].axis]
  BY <1>7
<1>9. PICK near \in Child : near = (IF delta < 0 THEN nodes[n].left ELSE nodes[n].right)
  BY <1>6
<1>10. PICK far \in Child : far = (IF delta < 0 THEN nodes[n].right ELSE nodes[n].left)
  BY <1>6
<1>11. /\ heap' = IF nodes[n].record \in matching THEN Push(heap, k, Item(nodes[n].record)) ELSE heap
       /\ stack' = <<Frame(near, Always), Frame(far, Square(delta))>> \o Tail(stack)
  BY <1>4, <1>5, <1>8, <1>9, <1>10 DEF Visit
<1>12. Visited(n, near, far, delta, heap', stack')
  BY <1>5, <1>8, <1>9, <1>10, <1>11 DEF Visited
<1>13. QED
  BY <1>2, <1>3, <1>12

(* The two sides of a node have nothing in common, with each other or with *)
(* the node, and the far one lies beyond the plane.                        *)
Sided(n, near, far, delta) ==
  /\ delta = query[nodes[n].axis] - points[nodes[n].record][nodes[n].axis]
  /\ near = (IF delta < 0 THEN nodes[n].left ELSE nodes[n].right)
  /\ far = (IF delta < 0 THEN nodes[n].right ELSE nodes[n].left)

Parted(n, near, far, delta) ==
  /\ Under[n] = {nodes[n].record} \cup Under[near] \cup Under[far]
  /\ nodes[n].record \notin Under[near] \cup Under[far]
  /\ Under[near] \cap Under[far] = {}
  /\ near \in DOMAIN nodes \cup {NONE} /\ far \in DOMAIN nodes \cup {NONE}
  /\ Square(delta) \in Nat
  /\ \A r \in Under[far] : Square(delta) <= Item(r).score

(* The subtrees are parted by the plane in the rooms of the node, and      *)
(* the far one is the one whose room the query is not in.                  *)
LEMMA Sides ==
  ASSUME TypeOK, TreeOK, query # NoQuery, NEW n \in DOMAIN nodes, NEW near, NEW far, NEW delta,
         Sided(n, near, far, delta)
  PROVE  Parted(n, near, far, delta)
<1>0. /\ delta = query[nodes[n].axis] - points[nodes[n].record][nodes[n].axis]
      /\ near = (IF delta < 0 THEN nodes[n].left ELSE nodes[n].right)
      /\ far = (IF delta < 0 THEN nodes[n].right ELSE nodes[n].left)
  BY DEF Sided
<1>1. Upward /\ OnceEach
  BY DEF TreeOK
<1>2. PICK lo \in [DOMAIN nodes -> SUBSET DOMAIN points],
        hi \in [DOMAIN nodes -> SUBSET DOMAIN points] :
        Rooms(lo, hi)
  BY DEF TreeOK
<1>3. Under[nodes[n].left] \subseteq lo[n] /\ Under[nodes[n].right] \subseteq hi[n]
  BY <1>1, <1>2, UnderInside
<1>4. nodes[n].record \notin lo[n] \cup hi[n] /\ lo[n] \cap hi[n] = {}
  BY <1>2 DEF Rooms
<1>5. Under[n] = {nodes[n].record} \cup Under[nodes[n].left] \cup Under[nodes[n].right]
  BY <1>1, UnderNode
<1>6. nodes[n].left \in DOMAIN nodes \cup {NONE} /\ nodes[n].right \in DOMAIN nodes \cup {NONE}
  BY <1>1 DEF Upward
<1>7. /\ Under[n] = {nodes[n].record} \cup Under[near] \cup Under[far]
      /\ nodes[n].record \notin Under[near] \cup Under[far]
      /\ Under[near] \cap Under[far] = {}
      /\ near \in DOMAIN nodes \cup {NONE} /\ far \in DOMAIN nodes \cup {NONE}
  <2>1. CASE delta < 0
    BY <1>0, <1>3, <1>4, <1>5, <1>6, <2>1
  <2>2. CASE ~(delta < 0)
    BY <1>0, <1>3, <1>4, <1>5, <1>6, <2>2
  <2>3. QED
    BY <2>1, <2>2
<1>8. PICK a \in 1 .. dimension : a = nodes[n].axis
  BY NodeTypes
<1>9. PICK m \in DOMAIN points : m = nodes[n].record
  BY NodeTypes
<1>10. query \in Point /\ \A r \in DOMAIN points : points[r] \in Point
  BY ItemTypes
<1>11. \A p \in Point : p[a] \in Int
  <2>1. \A p \in Point : p[a] \in Coord
    BY DEF Point
  <2>2. QED
    BY <2>1, CoordAssumption
<1>12. delta = query[a] - points[m][a] /\ query[a] \in Int /\ points[m][a] \in Int
  BY <1>0, <1>8, <1>9, <1>10, <1>11
<1>13. Square(delta) \in Nat
  BY <1>12, SquareNat
<1>14. ASSUME NEW r \in Under[far] PROVE Square(delta) <= Item(r).score
  <2>1. r \in DOMAIN points /\ (r \in lo[n] \/ r \in hi[n])
    BY <1>0, <1>2, <1>3, <1>14
  <2>2. PICK x \in Int : x = points[r][a]
    BY <1>10, <1>11, <2>1
  <2>3. \/ delta < 0 /\ points[m][a] <= x
        \/ ~(delta < 0) /\ x <= points[m][a]
    <3>1. CASE delta < 0
      <4>1. r \in hi[n]
        BY <1>0, <1>3, <1>14, <3>1
      <4>2. QED
        BY <1>2, <1>8, <1>9, <2>2, <3>1, <4>1 DEF Rooms
    <3>2. CASE ~(delta < 0)
      <4>1. r \in lo[n]
        BY <1>0, <1>3, <1>14, <3>2
      <4>2. QED
        BY <1>2, <1>8, <1>9, <2>2, <3>2, <4>1 DEF Rooms
    <3>3. QED
      BY <3>1, <3>2
  <2>4. Square(delta) <= Square(x - query[a])
    <3>1. PICK p \in Int, q \in Int : p = points[m][a] /\ q = query[a] /\ delta = q - p
      BY <1>12
    <3>2. (q - p < 0 /\ p <= x) \/ (~(q - p < 0) /\ x <= p)
      BY <2>3, <3>1
    <3>3. Square(q - p) <= Square(x - q)
      BY <3>2, BeyondPlane
    <3>4. QED
      BY <3>1, <3>3
  <2>5. Square(x - query[a]) <= Distance(points[r], query) /\ Distance(points[r], query) \in Nat
    BY <1>10, <2>1, <2>2, DistanceBounds
  <2>6. Square(x - query[a]) \in Nat
    BY <1>12, SquareNat
  <2>7. Item(r).score = Distance(points[r], query)
    BY <2>1, ItemTypes
  <2>8. QED
    BY <1>13, <2>4, <2>5, <2>6, <2>7
<1>15. QED
  BY <1>7, <1>13, <1>14 DEF Parted

(* What a push leaves is what was there and what was offered.              *)
LEMMA PushWithin ==
  ASSUME NEW H, NEW capacity, NEW item
  PROVE  Push(H, capacity, item) \subseteq H \cup {item}
BY DEF Push

(* What is seen grows by the node's record, if it matches, and the heap   *)
(* with it.                                                                *)
LEMMA VisitStep ==
  ASSUME IInv, Visit
  PROVE  IInv'
<1>1. TypeOK /\ TreeOK /\ SearchOK
  BY DEF IInv
<1>2. /\ stack # << >> /\ query # NoQuery /\ pending = << >>
      /\ points' = points /\ nodes' = nodes /\ pending' = pending /\ query' = query
      /\ k' = k /\ matching' = matching
  BY VisitTypes
<1>3. PICK n \in DOMAIN nodes, near \in Child, far \in Child, delta \in Int :
              /\ n = stack[1].node
              /\ delta = query[nodes[n].axis] - points[nodes[n].record][nodes[n].axis]
              /\ near = (IF delta < 0 THEN nodes[n].left ELSE nodes[n].right)
              /\ far = (IF delta < 0 THEN nodes[n].right ELSE nodes[n].left)
              /\ heap' = IF nodes[n].record \in matching
                           THEN Push(heap, k, Item(nodes[n].record)) ELSE heap
              /\ stack' = <<Frame(near, Always), Frame(far, Square(delta))>> \o Tail(stack)
  BY VisitTypes DEF Visited
<1>4. PICK m \in DOMAIN points : m = nodes[n].record
  BY <1>1, NodeTypes
<1>5. /\ Under[n] = {m} \cup Under[near] \cup Under[far]
      /\ m \notin Under[near] \cup Under[far]
      /\ Under[near] \cap Under[far] = {}
      /\ near \in DOMAIN nodes \cup {NONE} /\ far \in DOMAIN nodes \cup {NONE}
      /\ Square(delta) \in Nat
      /\ \A r \in Under[far] : Square(delta) <= Item(r).score
  <2>1. Sided(n, near, far, delta)
    BY <1>3 DEF Sided
  <2>2. Parted(n, near, far, delta)
    BY <1>1, <1>2, <2>1, Sides
  <2>3. QED
    BY <1>4, <2>2 DEF Parted
<1>6. Under' = Under /\ Child' = Child
  BY <1>2, SameUnder
<1>7. FramesOK /\ IsFiniteSet(heap) /\ Topped(heap) /\ KeepsBest(heap, k, Seen)
  BY <1>1, <1>2 DEF SearchOK
<1>8. \A r : Item(r)' = Item(r)
  BY <1>2 DEF Item
<1>9. PICK a, b : a = Frame(near, Always) /\ b = Frame(far, Square(delta))
  OBVIOUS
<1>10. a.node = near /\ a.bound = Always /\ b.node = far /\ b.bound = Square(delta)
  BY <1>9 DEF Frame
<1>11. a \in [node : Child, bound : Int] /\ b \in [node : Child, bound : Int]
  BY <1>5, <1>9 DEF Frame, Always
<1>12. /\ 1 \in DOMAIN stack /\ stack[1].node = n
       /\ DOMAIN stack = 1 .. Len(stack) /\ Len(stack) \in Nat \ {0}
       /\ stack \in Seq([node : Child, bound : Int])
       /\ Waiting = Under[n] \cup UNION {Under[stack[i].node] : i \in DOMAIN stack \ {1}}
  BY <1>1, <1>2, <1>3, WaitingFirst
<1>13. stack' \in Seq([node : Child, bound : Int]) /\ Replaced(stack', stack, a, b)
  <2>1. PICK s, R : s = stack /\ R = [node : Child, bound : Int]
    OBVIOUS
  <2>2. s \in Seq(R) /\ s # << >> /\ a \in R /\ b \in R
    BY <1>2, <1>11, <1>12, <2>1
  <2>3. <<a, b>> \o Tail(s) \in Seq(R) /\ Replaced(<<a, b>> \o Tail(s), s, a, b)
    BY <2>2, PushTwo
  <2>4. QED
    BY <1>3, <1>9, <2>1, <2>3
<1>14. /\ DOMAIN stack' = 1 .. Len(stack') /\ Len(stack') \in Nat
       /\ 1 \in DOMAIN stack' /\ 2 \in DOMAIN stack' /\ stack'[1] = a /\ stack'[2] = b
       /\ \A i \in DOMAIN stack' :
            i = 1 \/ i = 2 \/ (i - 1 \in DOMAIN stack /\ i - 1 # 1 /\ stack'[i] = stack[i - 1])
       /\ \A j \in DOMAIN stack : j # 1 => j + 1 \in DOMAIN stack' /\ stack'[j + 1] = stack[j]
  <2>1. PICK s, u : s = stack /\ u = stack'
    OBVIOUS
  <2>2. DOMAIN u = 1 .. Len(u) /\ Len(u) \in Nat
    BY <1>13, <2>1
  <2>3. Replaced(u, s, a, b) /\ DOMAIN s = 1 .. Len(s) /\ Len(s) \in Nat \ {0}
    BY <1>12, <1>13, <2>1
  <2>4. /\ 1 \in DOMAIN u /\ 2 \in DOMAIN u
        /\ \A i \in DOMAIN u :
             i = 1 \/ i = 2 \/ (i \in 3 .. Len(u) /\ i - 1 \in DOMAIN s /\ i - 1 # 1
               /\ u[i] = s[i - 1])
        /\ \A j \in DOMAIN s : j # 1 => j + 1 \in DOMAIN u /\ j + 1 # 1 /\ j + 1 # 2
             /\ u[j + 1] = s[j]
    BY <2>2, <2>3, Places
  <2>5. u[1] = a /\ u[2] = b
    BY <2>3 DEF Replaced
  <2>6. QED
    BY <2>1, <2>2, <2>4, <2>5
<1>15. PICK others : others = UNION {Under[stack[i].node] : i \in DOMAIN stack \ {1}}
  OBVIOUS
<1>16. Under[n] \cap others = {}
  <2>1. \A i \in DOMAIN stack \ {1} : Under[n] \cap Under[stack[i].node] = {}
    BY <1>7, <1>12 DEF FramesOK
  <2>2. QED
    BY <1>15, <2>1
<1>17. Waiting' = Under[near] \cup Under[far] \cup others
  <2>1. \A x : x \in Waiting' <=> \E i \in DOMAIN stack' : x \in Under[stack'[i].node]
    BY <1>6 DEF Waiting
  <2>2. \A x : x \in others <=> \E i \in DOMAIN stack \ {1} : x \in Under[stack[i].node]
    BY <1>15
  <2>3. ASSUME NEW x \in Waiting' PROVE x \in Under[near] \cup Under[far] \cup others
    <3>1. PICK i \in DOMAIN stack' : x \in Under[stack'[i].node]
      BY <2>1, <2>3
    <3>2. CASE i = 1 \/ i = 2
      BY <1>10, <1>14, <3>1, <3>2
    <3>3. CASE i # 1 /\ i # 2
      BY <1>14, <2>2, <3>1, <3>3
    <3>4. QED
      BY <3>2, <3>3
  <2>4. ASSUME NEW x \in Under[near] \cup Under[far] PROVE x \in Waiting'
    BY <1>10, <1>14, <2>1, <2>4
  <2>5. ASSUME NEW x \in others PROVE x \in Waiting'
    <3>1. PICK j \in DOMAIN stack \ {1} : x \in Under[stack[j].node]
      BY <2>2, <2>5
    <3>2. QED
      BY <1>14, <2>1, <3>1
  <2>6. QED
    BY <2>3, <2>4, <2>5
<1>18. Waiting = {m} \cup Waiting' /\ m \notin Waiting'
  BY <1>5, <1>12, <1>15, <1>16, <1>17
<1>19. matching \subseteq DOMAIN points
         /\ heap \subseteq [id : DOMAIN points, score : Nat] /\ k \in Nat
  BY <1>1, LimitsAssumption DEF TypeOK
<1>20. \A r \in DOMAIN points : /\ Item(r) \in [id : DOMAIN points, score : Nat]
                              /\ Item(r) \in Items /\ Item(r).id = r
  BY <1>1, <1>2, ItemTypes
<1>21. Seen' = IF m \in matching THEN Seen \cup {Item(m)} ELSE Seen
  <2>1. Seen' = {Item(r) : r \in matching \ Waiting'}
    BY <1>2, <1>8 DEF Seen
  <2>2. CASE m \in matching
    <3>1. matching \ Waiting' = (matching \ Waiting) \cup {m}
      BY <1>18, <2>2
    <3>2. QED
      BY <2>1, <2>2, <3>1 DEF Seen
  <2>3. CASE m \notin matching
    <3>1. matching \ Waiting' = matching \ Waiting
      BY <1>18, <2>3
    <3>2. QED
      BY <2>1, <2>3, <3>1 DEF Seen
  <2>4. QED
    BY <2>2, <2>3
<1>22. /\ IsFiniteSet(heap') /\ Topped(heap') /\ KeepsBest(heap', k, Seen')
       /\ heap' \subseteq [id : DOMAIN points, score : Nat]
  <2>1. CASE m \notin matching
    BY <1>3, <1>4, <1>7, <1>19, <1>21, <2>1
  <2>2. CASE m \in matching
    <3>1. PICK item : item = Item(m)
      OBVIOUS
    <3>2. PICK seen : seen = Seen
      OBVIOUS
    <3>3. item \in Items /\ item.id = m /\ item \in [id : DOMAIN points, score : Nat]
      BY <1>20, <3>1
    <3>4. seen \in SUBSET Items /\ \A j \in seen : j.id # item.id
      BY <1>18, <1>19, <1>20, <3>2, <3>3 DEF Seen
    <3>5. heap \in SUBSET Items
      BY <1>7, <3>2, <3>4 DEF KeepsBest
    <3>6. heap' = Push(heap, k, item)
      BY <1>3, <1>4, <2>2, <3>1
    <3>7. KeepsBest(heap, k, seen)
      BY <1>7, <3>2
    <3>8. /\ IsFiniteSet(Push(heap, k, item)) /\ Topped(Push(heap, k, item))
          /\ KeepsBest(Push(heap, k, item), k, seen \cup {item})
      BY <1>7, <1>19, <3>3, <3>4, <3>5, <3>7, PushKeepsBest
    <3>9. heap' \subseteq heap \cup {item}
      BY <3>6, PushWithin
    <3>10. Seen' = seen \cup {item}
      BY <1>21, <2>2, <3>1, <3>2
    <3>11. QED
      BY <1>19, <3>3, <3>6, <3>8, <3>9, <3>10
  <2>3. QED
    BY <2>1, <2>2
<1>23. FramesOK'
  <2>1. \A j \in DOMAIN stack : j # 1 => Under[stack[j].node] \subseteq others
    BY <1>15
  <2>2. ASSUME NEW i \in DOMAIN stack'
        PROVE  /\ stack'[i].node \in DOMAIN nodes \cup {NONE}
               /\ stack'[i].bound # Always =>
                    \A r \in Under[stack'[i].node] : stack'[i].bound <= Item(r).score
    <3>1. CASE i = 1
      BY <1>5, <1>10, <1>14, <3>1
    <3>2. CASE i = 2
      BY <1>5, <1>10, <1>14, <3>2
    <3>3. CASE i # 1 /\ i # 2
      BY <1>7, <1>14, <3>3 DEF FramesOK
    <3>4. QED
      BY <3>1, <3>2, <3>3
  <2>3. ASSUME NEW i \in DOMAIN stack', NEW j \in DOMAIN stack', i # j
        PROVE  Under[stack'[i].node] \cap Under[stack'[j].node] = {}
    <3>1. \A l \in DOMAIN stack' :
            \/ l = 1 /\ stack'[l].node = near
            \/ l = 2 /\ stack'[l].node = far
            \/ l # 1 /\ l # 2 /\ Under[stack'[l].node] \subseteq others
      BY <1>10, <1>14, <2>1
    <3>2. (Under[near] \cup Under[far]) \cap others = {}
      BY <1>5, <1>16
    <3>3. CASE i \in {1, 2} \/ j \in {1, 2}
      BY <1>5, <2>3, <3>1, <3>2, <3>3
    <3>4. CASE i \notin {1, 2} /\ j \notin {1, 2}
      <4>1. PICK l, p : l = i - 1 /\ p = j - 1
        OBVIOUS
      <4>2. /\ l \in DOMAIN stack /\ stack'[i] = stack[l]
            /\ p \in DOMAIN stack /\ stack'[j] = stack[p]
        BY <1>14, <3>4, <4>1
      <4>3. l # p
        BY <1>14, <2>3, <4>1
      <4>4. QED
        BY <1>7, <4>2, <4>3 DEF FramesOK
    <3>5. QED
      BY <3>3, <3>4
  <2>4. QED
    BY <1>2, <1>6, <1>8, <2>2, <2>3 DEF FramesOK
<1>24. TypeOK'
  BY <1>1, <1>2, <1>6, <1>13, <1>22 DEF TypeOK
<1>25. TreeOK'
  BY <1>1, <1>2, SameTree
<1>26. SearchOK'
  BY <1>2, <1>22, <1>23 DEF SearchOK
<1>27. QED
  BY <1>24, <1>25, <1>26 DEF IInv

(* A frame is given up when nothing is under its node, or when a full heap *)
(* has nothing worse than the plane that all of it lies beyond.            *)
LEMMA PruneStep ==
  ASSUME IInv, Prune
  PROVE  IInv'
<1>1. TypeOK /\ TreeOK /\ SearchOK
  BY DEF IInv
<1>2. /\ stack # << >> /\ stack' = Tail(stack)
      /\ points' = points /\ nodes' = nodes /\ pending' = pending /\ query' = query
      /\ k' = k /\ matching' = matching /\ heap' = heap
  BY DEF Prune
<1>3. query # NoQuery /\ pending = << >> /\ FramesOK
      /\ IsFiniteSet(heap) /\ Topped(heap) /\ KeepsBest(heap, k, Seen)
  BY <1>1, <1>2 DEF SearchOK
<1>4. /\ 1 \in DOMAIN stack /\ Head(stack) = stack[1] /\ stack[1].bound \in Int
      /\ DOMAIN stack = 1 .. Len(stack) /\ Len(stack) \in Nat \ {0}
      /\ stack \in Seq([node : Child, bound : Int])
      /\ Waiting = Under[stack[1].node] \cup UNION {Under[stack[i].node] : i \in DOMAIN stack \ {1}}
  BY <1>1, <1>2, WaitingFirst
<1>5. Under' = Under /\ Child' = Child
  BY <1>2, SameUnder
<1>6. \A r : Item(r)' = Item(r)
  BY <1>2 DEF Item
<1>7. /\ stack' \in Seq([node : Child, bound : Int])
      /\ \A i \in DOMAIN stack' : i + 1 \in DOMAIN stack /\ i + 1 # 1 /\ stack'[i] = stack[i + 1]
      /\ \A j \in DOMAIN stack : j # 1 => j - 1 \in DOMAIN stack' /\ stack'[j - 1] = stack[j]
      /\ \A i, j \in DOMAIN stack' : i # j => i + 1 # j + 1
  <2>1. PICK s, R : s = stack /\ R = [node : Child, bound : Int]
    OBVIOUS
  <2>2. s \in Seq(R) /\ s # << >>
    BY <1>2, <1>4, <2>1
  <2>3. Tail(s) \in Seq(R) /\ Len(Tail(s)) = Len(s) - 1
        /\ \A i \in 1 .. Len(s) - 1 : Tail(s)[i] = s[i + 1]
    BY <2>2, Popped
  <2>4. stack' \in Seq(R) /\ Len(stack') = Len(stack) - 1
        /\ \A i \in 1 .. Len(stack) - 1 : stack'[i] = stack[i + 1]
    BY <1>2, <2>1, <2>3
  <2>5. DOMAIN stack' = 1 .. Len(stack) - 1
    BY <2>4
  <2>6. \A j \in DOMAIN stack : j # 1 => j - 1 \in 1 .. Len(stack) - 1 /\ (j - 1) + 1 = j
    BY <1>4
  <2>7. \A i \in 1 .. Len(stack) - 1 : i + 1 \in DOMAIN stack /\ i + 1 # 1
    BY <1>4
  <2>8. \A i, j \in 1 .. Len(stack) - 1 : i # j => i + 1 # j + 1
    OBVIOUS
  <2>9. QED
    BY <2>1, <2>4, <2>5, <2>6, <2>7, <2>8
<1>8. Waiting' = UNION {Under[stack[i].node] : i \in DOMAIN stack \ {1}}
  <2>1. \A x : x \in Waiting' <=> \E i \in DOMAIN stack' : x \in Under[stack'[i].node]
    BY <1>5 DEF Waiting
  <2>2. \A x : (\E i \in DOMAIN stack' : x \in Under[stack'[i].node])
               <=> \E j \in DOMAIN stack \ {1} : x \in Under[stack[j].node]
    BY <1>7
  <2>3. QED
    BY <2>1, <2>2
<1>9. matching \subseteq DOMAIN points /\ k \in Nat
  BY <1>1, LimitsAssumption DEF TypeOK
<1>10. /\ \A r \in DOMAIN points : Item(r) \in Items
       /\ Seen \subseteq Seen'
            /\ \A i \in Seen' \ Seen : \E r \in Under[stack[1].node] : i = Item(r)
       /\ Seen' \subseteq Items
  <2>1. Seen' = {Item(r) : r \in matching \ Waiting'}
    BY <1>2, <1>6 DEF Seen
  <2>2. \A r \in DOMAIN points : Item(r) \in Items
    BY <1>1, <1>3, ItemTypes
  <2>3. QED
    BY <1>4, <1>8, <1>9, <2>1, <2>2 DEF Seen
<1>11. KeepsBest(heap, k, Seen')
  <2>1. CASE stack[1].node = NONE
    <3>1. Under[NONE] = {}
      BY <1>1, UnderNode DEF TreeOK
    <3>2. Seen' = Seen
      BY <1>10, <2>1, <3>1
    <3>3. QED
      BY <1>3, <3>2
  <2>2. CASE ~MustVisit(stack[1])
    <3>1. PICK bound \in Int : bound = stack[1].bound
      BY <1>4
    <3>2. bound # Always /\ ~(Cardinality(heap) < k) /\ ~(bound < PeekWorst(heap))
      BY <2>2, <3>1 DEF MustVisit
    <3>3. \A r \in Under[stack[1].node] : bound <= Item(r).score
      BY <1>3, <1>4, <3>1, <3>2 DEF FramesOK
    <3>4. \A i \in Seen' \ Seen : bound <= i.score /\ i.score \in Int
      BY <1>10, <3>3 DEF Items
    <3>5. heap \subseteq Seen /\ heap \subseteq Items
      BY <1>3, <1>10 DEF KeepsBest
    <3>6. \A i \in heap : i.score <= bound /\ i.score \in Int
      <4> SUFFICES ASSUME NEW i \in heap PROVE i.score <= bound /\ i.score \in Int
        OBVIOUS
      <4>1. PICK t : t = Top(heap)
        OBVIOUS
      <4>2. IsTop(t, heap)
        BY <1>3, <4>1, TopIsTop
      <4>3. t \in heap /\ t \in Items /\ i \in Items /\ (i = t \/ Precedes(i, t))
        BY <3>5, <4>2 DEF IsTop
      <4>4. i.score <= t.score /\ t.score \in Int /\ i.score \in Int
        BY <4>3 DEF Precedes, Items
      <4>5. t.score <= bound
        BY <3>2, <4>1, <4>4 DEF PeekWorst
      <4>6. QED
        BY <4>4, <4>5
    <3>7. ASSUME NEW kept \in heap, NEW lost \in Seen' \ heap
          PROVE  kept.score <= lost.score
      <4>1. CASE lost \in Seen
        BY <1>3, <3>7, <4>1 DEF KeepsBest
      <4>2. CASE lost \notin Seen
        BY <3>4, <3>6, <3>7, <4>2
      <4>3. QED
        BY <4>1, <4>2
    <3>8. QED
      BY <1>3, <1>10, <3>2, <3>5, <3>7 DEF KeepsBest
  <2>3. QED
    BY <1>2, <1>4, <2>1, <2>2 DEF Prune
<1>12. FramesOK'
  <2>1. ASSUME NEW i \in DOMAIN stack'
        PROVE  /\ stack'[i].node \in DOMAIN nodes \cup {NONE}
               /\ stack'[i].bound # Always =>
                    \A r \in Under[stack'[i].node] : stack'[i].bound <= Item(r).score
    <3>1. PICK l \in DOMAIN stack : stack'[i] = stack[l]
      BY <1>7
    <3>2. QED
      BY <1>3, <3>1 DEF FramesOK
  <2>2. ASSUME NEW i \in DOMAIN stack', NEW j \in DOMAIN stack', i # j
        PROVE  Under[stack'[i].node] \cap Under[stack'[j].node] = {}
    <3>1. PICK l \in DOMAIN stack, p \in DOMAIN stack :
            stack'[i] = stack[l] /\ stack'[j] = stack[p] /\ l # p
      BY <1>7, <2>2
    <3>2. QED
      BY <1>3, <3>1 DEF FramesOK
  <2>3. QED
    BY <1>2, <1>5, <1>6, <2>1, <2>2 DEF FramesOK
<1>13. TypeOK'
  BY <1>1, <1>2, <1>5, <1>7 DEF TypeOK
<1>14. TreeOK'
  BY <1>1, <1>2, SameTree
<1>15. SearchOK'
  BY <1>2, <1>3, <1>11, <1>12 DEF SearchOK
<1>16. QED
  BY <1>13, <1>14, <1>15 DEF IInv

-----------------------------------------------------------------------------
(* The invariant.                                                          *)
LEMMA InitInvariant == Init => IInv
<1> SUFFICES ASSUME Init PROVE IInv
  OBVIOUS
<1>1. query = NoQuery /\ stack = << >> /\ heap = {}
  BY DEF Init
<1>2. QED
  BY <1>1, InitTree DEF IInv, SearchOK

(* While the tree is built no search is on.                                *)
LEMMA BuildKeepsSearch ==
  ASSUME IInv, pending # << >>, UNCHANGED <<query, k, matching, stack, heap>>
  PROVE  SearchOK'
<1>1. query = NoQuery /\ stack = << >> /\ heap = {}
  BY DEF IInv, SearchOK
<1>2. QED
  BY <1>1 DEF SearchOK

(* Every step preserves the inductive invariant.                           *)
LEMMA NextInvariant == IInv /\ [Next]_vars => IInv'
<1> SUFFICES ASSUME IInv, [Next]_vars PROVE IInv'
  OBVIOUS
<1>1. TypeOK /\ TreeOK /\ SearchOK
  BY DEF IInv
<1>2. CASE SkipEmpty
  <2>1. pending # << >> /\ UNCHANGED <<query, k, matching, stack, heap>>
    BY <1>2 DEF SkipEmpty
  <2>2. QED
    BY <1>1, <1>2, <2>1, SkipStep, BuildKeepsSearch DEF IInv
<1>3. CASE BuildSubtree
  <2>1. pending # << >> /\ UNCHANGED <<query, k, matching, stack, heap>>
    BY <1>3 DEF BuildSubtree
  <2>2. QED
    BY <1>1, <1>3, <2>1, BuildStep, BuildKeepsSearch DEF IInv
<1>4. CASE \E q \in Point, limit \in Limits, allowed \in SUBSET DOMAIN points :
             Search(q, limit, allowed)
  BY <1>4, SearchStep
<1>5. CASE Visit
  BY <1>5, VisitStep
<1>6. CASE Prune
  BY <1>6, PruneStep
<1>7. CASE UNCHANGED vars
  <2>1. UNCHANGED <<points, nodes, pending, query, k, matching, stack, heap>>
    BY <1>7 DEF vars
  <2>2. Under' = Under /\ Child' = Child
    BY <2>1, SameUnder
  <2>3. \A r : Item(r)' = Item(r)
    BY <2>1 DEF Item
  <2>4. Waiting' = Waiting
    BY <2>1, <2>2 DEF Waiting
  <2>5. Seen' = Seen
    BY <2>1, <2>3, <2>4 DEF Seen
  <2>6. TypeOK'
    BY <1>1, <2>1, <2>2 DEF TypeOK
  <2>7. TreeOK'
    BY <1>1, <2>1, SameTree
  <2>8. SearchOK'
    BY <1>1, <2>1, <2>2, <2>3, <2>5 DEF SearchOK, FramesOK
  <2>9. QED
    BY <2>6, <2>7, <2>8 DEF IInv
<1>8. QED
  BY <1>2, <1>3, <1>4, <1>5, <1>6, <1>7 DEF Next

(* The inductive invariant holds in every reachable state.                 *)
LEMMA Invariant == Spec => []IInv
BY InitInvariant, NextInvariant, PTL DEF Spec

(* In every build, of a corpus of any size and dimension, and every search *)
(* the nodes, the pending subtrees and the heap are what they should be:   *)
(* no child index leads out of the tree (kdtree.rs).                       *)
THEOREM KdTypeCorrect == Spec => []TypeOK
<1>1. IInv => TypeOK
  BY DEF IInv
<1>2. QED
  BY <1>1, Invariant, PTL

(* A finished tree holds each record once, and each node's plane separates *)
(* the records of its two subtrees, wherever select_nth_unstable_by puts   *)
(* those that share the median's coordinate (kdtree.rs).                   *)
THEOREM TreeAlwaysSplits == Spec => []TreeSplits
<1>1. IInv => TreeSplits
  BY TreeOKSplits DEF IInv
<1>2. QED
  BY <1>1, Invariant, PTL

(* Whatever a search has pruned could not have been in the answer: at each *)
(* moment the heap is the best of the matches outside the subtrees that    *)
(* still wait, and holds no record that the filter refuses; so in the end  *)
(* it is the best of all matches (kdtree.rs).                              *)
THEOREM PruningLosesNothing == Spec => []NothingLost
<1>1. IInv => NothingLost
  BY DEF IInv, SearchOK, Seen, NothingLost
<1>2. QED
  BY <1>1, Invariant, PTL
=============================================================================
