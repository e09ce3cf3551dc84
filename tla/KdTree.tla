------------------------------- MODULE KdTree -------------------------------
(***************************************************************************)
(* The static KD-tree: its construction subtree by subtree and its         *)
(* nearest-neighbour search node by node, with the recursion of both held  *)
(* in a stack.                                                             *)
(*                                                                         *)
(* A record is a position in points, which is its id and its offset.       *)
(* Distances are compared, never shown, so a score is the square of the    *)
(* code's Euclidean distance and a pruning bound the square of its |delta|.*)
(***************************************************************************)
EXTENDS BoundedMaxHeap, Sequences, SequencesExt

CONSTANTS dimension,   \* length of every vector
          Coord,       \* coordinates of points and queries
          Corpora,     \* sequences of points
          Limits       \* values of k

Point == [1 .. dimension -> Coord]
NONE  == 0             \* no child; nodes are numbered from 1

ASSUME DimensionAssumption == dimension \in Nat \ {0}
ASSUME CoordAssumption     == Coord \subseteq Int
ASSUME CorporaAssumption   == Corpora \subseteq Seq(Point)
ASSUME LimitsAssumption    == Limits \subseteq Nat

VARIABLES
  points,     \* the vectors, by record
  nodes,      \* KdTree.nodes
  pending,    \* subtrees still to build
  query, k, matching,   \* the call: the query, how many, the records that pass its filter
  stack,      \* subtrees still to search
  heap

vars == <<points, nodes, pending, query, k, matching, stack, heap>>

NoQuery == << >>
Square(x) == x * x

Init == /\ points \in Corpora
        /\ nodes = << >>
        /\ pending = <<[items |-> DOMAIN points, depth |-> 0, parent |-> NONE, side |-> "root"]>>
        /\ query = NoQuery
        /\ k = 0
        /\ matching = {}
        /\ stack = << >>
        /\ heap = {}

-----------------------------------------------------------------------------
(* Mutation: the halves are cut without regard to the axis.                *)
Halves_Unordered(items, axis, median) ==
  {left \in SUBSET (items \ {median}) : Cardinality(left) = Cardinality(items) \div 2}

(* build_subtree: the median along the axis becomes a node, the records    *)
(* below it go left and those above right; which of several records with   *)
(* the median's coordinate stands where is up to select_nth_unstable_by.   *)
Halves(items, axis, median) ==
  {left \in SUBSET (items \ {median}) :
     /\ Cardinality(left) = Cardinality(items) \div 2
     /\ \A l \in left : points[l][axis] <= points[median][axis]
     /\ \A r \in items \ left : points[median][axis] <= points[r][axis]}

SkipEmpty ==
  /\ pending # << >>
  /\ Head(pending).items = {}
  /\ pending' = Tail(pending)
  /\ UNCHANGED <<points, nodes, query, k, matching, stack, heap>>

(* Mutation: the node's index is read after it has been appended.          *)
Patched_AfterPush(parent, side, child) ==
  [n \in DOMAIN nodes |->
     IF n = parent THEN [nodes[n] EXCEPT ![side] = child + 1] ELSE nodes[n]]

(* The parent learns the index of its child.                               *)
Patched(parent, side, child) ==
  [n \in DOMAIN nodes |->
     IF n = parent THEN [nodes[n] EXCEPT ![side] = child] ELSE nodes[n]]

BuildSubtree ==
  /\ pending # << >>
  /\ LET task == Head(pending)
         axis == (task.depth % dimension) + 1
         me   == Len(nodes) + 1
         Task(items, side) == [items |-> items, depth |-> task.depth + 1,
                               parent |-> me, side |-> side]
     IN  \E median \in task.items : \E left \in Halves(task.items, axis, median) :
           /\ nodes' = Append(Patched(task.parent, task.side, me),
                              [record |-> median, axis |-> axis, left |-> NONE, right |-> NONE])
           /\ pending' = <<Task(left, "left"), Task(task.items \ (left \cup {median}), "right")>>
                           \o Tail(pending)
  /\ UNCHANGED <<points, query, k, matching, stack, heap>>

-----------------------------------------------------------------------------
Distance(p, q) == FoldFunction(+, 0, [a \in 1 .. dimension |-> Square(p[a] - q[a])])
Item(r) == [id |-> r, score |-> Distance(points[r], query)]

(* A frame on the stack is a node and what must hold for it to be searched:*)
(* nothing, or that the plane at distance bound can still improve the heap.*)
Always == -1
Frame(node, bound) == [node |-> node, bound |-> bound]

(* search begins at the root, unless k is 0 or the tree is empty (a query  *)
(* of another dimension, which has no answer either, is left out).         *)
Search(q, limit, allowed) ==
  /\ pending = << >>
  /\ query = NoQuery
  /\ query' = q
  /\ k' = limit
  /\ matching' = allowed
  /\ stack' = IF limit = 0 \/ nodes = << >> THEN << >> ELSE <<Frame(1, Always)>>
  /\ UNCHANGED <<points, nodes, pending, heap>>

(* Mutation: the plane is compared to the worst score before the heap is   *)
(* full.                                                                   *)
MustVisit_Eager(frame) ==
  IF frame.bound = Always \/ heap = {} THEN TRUE ELSE frame.bound < PeekWorst(heap)

(* must_visit_far.                                                         *)
MustVisit(frame) ==
  IF frame.bound = Always \/ Cardinality(heap) < k THEN TRUE ELSE frame.bound < PeekWorst(heap)

(* search_recursive on a node: its point is offered to the heap if it      *)
(* passes the filter, then comes the side of the plane the query is on,    *)
(* then the other side if it still may matter.                             *)
Visit ==
  /\ stack # << >>
  /\ Head(stack).node # NONE
  /\ MustVisit(Head(stack))
  /\ LET node  == nodes[Head(stack).node]
         delta == query[node.axis] - points[node.record][node.axis]
         near  == IF delta < 0 THEN node.left ELSE node.right
         far   == IF delta < 0 THEN node.right ELSE node.left
     IN  /\ heap' = IF node.record \in matching THEN Push(heap, k, Item(node.record)) ELSE heap
         /\ stack' = <<Frame(near, Always), Frame(far, Square(delta))>> \o Tail(stack)
  /\ UNCHANGED <<points, nodes, pending, query, k, matching>>

(* An empty subtree, or one on the far side that cannot improve the heap.  *)
Prune ==
  /\ stack # << >>
  /\ Head(stack).node = NONE \/ ~MustVisit(Head(stack))
  /\ stack' = Tail(stack)
  /\ UNCHANGED <<points, nodes, pending, query, k, matching, heap>>

Next == \/ SkipEmpty \/ BuildSubtree
        \/ \E q \in Point, limit \in Limits, allowed \in SUBSET DOMAIN points :
             Search(q, limit, allowed)
        \/ Visit \/ Prune

Spec == Init /\ [][Next]_vars

-----------------------------------------------------------------------------
(* Every variable has its type.                                            *)
Child == 0 .. Len(points)
TypeOK ==
  /\ points \in Seq(Point)
  /\ nodes \in Seq([record : DOMAIN points, axis : 1 .. dimension, left : Child, right : Child])
  /\ pending \in Seq([items : SUBSET DOMAIN points, depth : Nat, parent : Child,
                      side : {"root", "left", "right"}])
  /\ query \in Point \cup {NoQuery}
  /\ k \in Limits \cup {0}
  /\ matching \subseteq DOMAIN points
  /\ stack \in Seq([node : Child, bound : Int])
  /\ heap \subseteq [id : DOMAIN points, score : Nat]

(* The records in the subtree of each node.                                *)
Under ==
  LET below[n \in Child] ==
        IF n = NONE \/ n > Len(nodes) THEN {}
        ELSE {nodes[n].record} \cup below[nodes[n].left] \cup below[nodes[n].right]
  IN  below

(* Once built, the tree holds every record exactly once, and each node's   *)
(* plane separates its two subtrees: what the pruning relies on.           *)
TreeSplits ==
  pending = << >> =>
    /\ Len(nodes) = Len(points)
    /\ {nodes[n].record : n \in DOMAIN nodes} = DOMAIN points
    /\ \A n \in DOMAIN nodes :
         LET at(r) == points[r][nodes[n].axis]
         IN  /\ \A r \in Under[nodes[n].left]  : at(r) <= at(nodes[n].record)
             /\ \A r \in Under[nodes[n].right] : at(nodes[n].record) <= at(r)

(* At each moment of a search the heap is the best of the matching records *)
(* but for those in subtrees still on the stack: no other record was kept, *)
(* and whatever was pruned, with the heap as it stood then, could not have *)
(* been in the answer (kdtree.rs).                                         *)
Waiting == UNION {Under[stack[i].node] : i \in DOMAIN stack}

NothingLost ==
  query # NoQuery =>
    KeepsBest(heap, k, {Item(r) : r \in matching \ Waiting})

(* "KdTree must match BruteForce on all queries": the finished search      *)
(* holds the very records that brute force would, scanning in order.       *)
BruteHeap ==
  FoldLeft(LAMBDA h, r : IF r \in matching THEN Push(h, k, Item(r)) ELSE h,
           {}, [r \in DOMAIN points |-> r])

KdMatchesBrute == (query # NoQuery /\ stack = << >>) => heap = BruteHeap
=============================================================================
