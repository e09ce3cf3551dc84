-------------------------------- MODULE Hnsw --------------------------------
(***************************************************************************)
(* The hierarchical navigable small world graph: its construction over a   *)
(* vector store, a node at a time, and its search, both made of beam       *)
(* searches of one layer that expand one candidate at a time.              *)
(*                                                                         *)
(* A node is a position in points, which is its offset and here also the   *)
(* id of its record (what happens when the two differ is in Collection).   *)
(* The binary heaps are ordered by distance, then id, so they are sets.    *)
(* Whatever the random generator, a level is any of 0 .. MaxLevel (for     *)
(* m = 1, where m_l is infinite, the code always takes the largest).       *)
(***************************************************************************)
EXTENDS BoundedMaxHeap, Sequences, SequencesExt

CONSTANTS Point,            \* vectors and queries
          Dist,             \* the distance of each two of them
          Corpora,          \* sequences of points
          m, ef_construction, ef_search,
          MaxLevel,         \* the largest level a node is given
          Queries,          \* the points searched for
          Filters,          \* of each filter, the records that pass it
          Limits            \* values of k

Level == 0 .. MaxLevel
NONE  == 0                  \* no entry point; nodes are numbered from 1

ASSUME DistAssumption ==
  /\ Dist \in [Point \X Point -> Nat]
  /\ \A p, q \in Point : Dist[<<p, q>>] = Dist[<<q, p>>]
ASSUME CorporaAssumption == Corpora \subseteq Seq(Point)
ASSUME ParamsAssumption  == (* what rebuild_index accepts *)
  m \in Nat \ {0} /\ ef_construction \in Nat /\ ef_construction >= m /\ ef_search \in Nat
ASSUME LevelAssumption   == MaxLevel \in 0 .. 255
ASSUME QueryAssumption   ==
  Queries \subseteq Point /\ Filters \subseteq SUBSET Nat /\ Limits \subseteq Nat

VARIABLES
  points,        \* the vector store
  node_levels,   \* the level of each node inserted so far
  layers,        \* layers[l][n]: the neighbours of n on layer l
  entry_point,
  task,          \* the call in progress
  layer, beam,   \* the layer it searches and where that search has got to
  answer         \* of the last search

vars == <<points, node_levels, layers, entry_point, task, layer, beam, answer>>

Nodes  == DOMAIN node_levels
Idle   == [kind |-> "idle"]
NoBeam == [query |-> NONE]
NoAnswer == [k |-> 0]

Init == /\ points \in Corpora
        /\ node_levels = << >>
        /\ layers = [l \in {0} |-> << >>]
        /\ entry_point = NONE
        /\ task = Idle
        /\ layer = 0
        /\ beam = NoBeam
        /\ answer = NoAnswer

-----------------------------------------------------------------------------
(* DistanceOrdered: by distance to the query, then by id.                  *)
To(q, n) == Dist[<<q, points[n]>>]
Closer(q, a, b) == To(q, a) < To(q, b) \/ (To(q, a) = To(q, b) /\ a < b)
Closest(q, S)   == CHOOSE n \in S : \A o \in S \ {n} : Closer(q, n, o)
Furthest(q, S)  == CHOOSE n \in S : \A o \in S \ {n} : Closer(q, o, n)
Ascending(q, S) ==
  [i \in 1 .. Cardinality(S) |->
     CHOOSE n \in S : Cardinality({o \in S : Closer(q, o, n)}) = i - 1]

(* search_layer begins with its entry points as candidates and as results. *)
Beam(q, starts, ef) ==
  [query |-> q, ef |-> ef, candidates |-> starts, result |-> starts, visited |-> starts]

Worst(b) == To(b.query, Furthest(b.query, b.result))

(* Mutation: the closest of the result gives way.                          *)
Trimmed_Closest(b, result) ==
  IF Cardinality(result) > b.ef THEN result \ {Closest(b.query, result)} ELSE result

(* A result that has grown too large loses its furthest node.              *)
Trimmed(b, result) ==
  IF Cardinality(result) > b.ef THEN result \ {Furthest(b.query, result)} ELSE result

(* A neighbour met for the first time joins the beam if it is better than  *)
(* the worst result or there is room.                                      *)
Relax(b, n) ==
  IF n \in b.visited THEN b
  ELSE IF To(b.query, n) < Worst(b) \/ Cardinality(b.result) < b.ef
  THEN [b EXCEPT !.visited = @ \cup {n}, !.candidates = @ \cup {n},
                 !.result = Trimmed(b, @ \cup {n})]
  ELSE [b EXCEPT !.visited = @ \cup {n}]

(* Mutation: a candidate as far as the worst result is not expanded.       *)
Exhausted_AtTie(b) ==
  b.candidates # {} => To(b.query, Closest(b.query, b.candidates)) >= Worst(b)

(* No candidate is left, or none that could improve the result.            *)
Exhausted(b) ==
  b.candidates # {} => To(b.query, Closest(b.query, b.candidates)) > Worst(b)

(* One turn of search_layer's loop.                                        *)
Expand ==
  /\ task # Idle
  /\ ~Exhausted(beam)
  /\ LET c == Closest(beam.query, beam.candidates)
     IN  beam' = FoldLeft(Relax, [beam EXCEPT !.candidates = @ \ {c}], layers[layer][c])
  /\ UNCHANGED <<points, node_levels, layers, entry_point, task, layer, answer>>

(* Above the task's floor a call only looks for the closest node, and goes *)
(* on from it on the layer below.                                          *)
Width(t, l) == IF l > t.floor THEN 1 ELSE t.ef

Begin(t) ==
  /\ task' = t
  /\ layer' = t.top
  /\ beam' = Beam(t.query, {entry_point}, Width(t, t.top))

Finish == task' = Idle /\ layer' = 0 /\ beam' = NoBeam

Descend ==
  /\ task # Idle
  /\ layer > task.floor
  /\ Exhausted(beam)
  /\ layer' = layer - 1
  /\ beam' = Beam(beam.query, {Closest(beam.query, beam.result)}, Width(task, layer - 1))
  /\ UNCHANGED <<points, node_levels, layers, entry_point, task, answer>>

-----------------------------------------------------------------------------
(* Mutation: only the layers the node is on get a place for it.            *)
Grown_OwnLayers(level) ==
  [l \in DOMAIN layers \cup 0 .. level |->
     [n \in IF l <= level THEN 1 .. Len(node_levels) + 1 ELSE DOMAIN layers[l] |->
        IF l \in DOMAIN layers /\ n \in DOMAIN layers[l] THEN layers[l][n] ELSE << >>]]

(* Every layer up to the new node's level exists and has a place for it.   *)
Grown(level) ==
  [l \in DOMAIN layers \cup 0 .. level |->
     [n \in 1 .. Len(node_levels) + 1 |->
        IF l \in DOMAIN layers /\ n \in Nodes THEN layers[l][n] ELSE << >>]]

(* insert, up to its first beam search; the first node is the entry point. *)
Insert(level) ==
  LET new   == Len(node_levels) + 1
      entry == node_levels[entry_point]
  IN  /\ task = Idle
      /\ new \in DOMAIN points
      /\ node_levels' = Append(node_levels, level)
      /\ layers' = Grown(level)
      /\ IF entry_point = NONE
         THEN entry_point' = new /\ UNCHANGED <<task, layer, beam>>
         ELSE /\ Begin([kind |-> "insert", query |-> points[new], top |-> entry,
                        floor |-> IF level < entry THEN level ELSE entry,
                        ef |-> ef_construction])
              /\ UNCHANGED entry_point
      /\ UNCHANGED <<points, answer>>

(* select_neighbors_heuristic: in order of distance, those to which none   *)
(* already selected is closer than the query is.                           *)
Select(q, candidates, limit) ==
  FoldLeft(LAMBDA selected, c :
             IF /\ Len(selected) < limit
                /\ \A s \in Range(selected) : To(points[s], c) >= To(q, c)
             THEN Append(selected, c) ELSE selected,
           << >>, Ascending(q, candidates))

Cap(l) == IF l = 0 THEN 2 * m ELSE m

(* Mutation: the neighbour does not learn of the new node.                 *)
Link_OneWay(edges, l, new, neigh) == [edges EXCEPT ![new] = Append(@, neigh)]

(* Mutation: the layer's number is not looked at.                          *)
Link_OneCap(edges, l, new, neigh) ==
  LET linked == [edges EXCEPT ![new] = Append(@, neigh), ![neigh] = Append(@, new)]
  IN  IF Len(linked[neigh]) > 2 * m
      THEN [linked EXCEPT ![neigh] = Select(points[neigh], Range(@), 2 * m)]
      ELSE linked

(* The edge to a neighbour and the edge back; prune_neighbors selects anew *)
(* among the neighbour's edges once they are more than the layer's cap.    *)
Link(edges, l, new, neigh) ==
  LET linked == [edges EXCEPT ![new] = Append(@, neigh), ![neigh] = Append(@, new)]
  IN  IF Len(linked[neigh]) > Cap(l)
      THEN [linked EXCEPT ![neigh] = Select(points[neigh], Range(@), Cap(l))]
      ELSE linked

(* Mutation: the entry point stays.                                        *)
Promoted_Never(new) == entry_point

Promoted(new) ==
  IF node_levels[new] > node_levels[entry_point] THEN new ELSE entry_point

(* One layer of an insert: the result of its beam search is thinned out,   *)
(* linked, and is where the layer below begins.  As m > 0 something always *)
(* is selected.                                                            *)
Connect ==
  LET new == Len(node_levels)
      selected == Select(beam.query, beam.result, m)
  IN  /\ task # Idle
      /\ task.kind = "insert"
      /\ layer <= task.floor
      /\ Exhausted(beam)
      /\ layers' = [layers EXCEPT ![layer] =
                      FoldLeft(LAMBDA edges, n : Link(edges, layer, new, n), @, selected)]
      /\ IF layer = 0
         THEN Finish /\ entry_point' = Promoted(new)
         ELSE /\ layer' = layer - 1
              /\ beam' = Beam(beam.query, Range(selected), task.ef)
              /\ UNCHANGED <<task, entry_point>>
      /\ UNCHANGED <<points, node_levels, answer>>

-----------------------------------------------------------------------------
Item(q, n) == [id |-> n, score |-> To(q, n)]

(* search, of a finished build: nothing is looked for when k is 0 or the   *)
(* graph is empty.  It leaves the graph alone, so one of each is enough.   *)
Search(q, k) ==
  /\ task = Idle
  /\ Nodes = DOMAIN points
  /\ answer = NoAnswer
  /\ IF k = 0 \/ entry_point = NONE
     THEN UNCHANGED <<task, layer, beam>>
     ELSE Begin([kind |-> "search", query |-> q, top |-> Cardinality(DOMAIN layers) - 1,
                 floor |-> 0, ef |-> IF ef_search > k THEN ef_search ELSE k, k |-> k])
  /\ UNCHANGED <<points, node_levels, layers, entry_point, answer>>

(* The filter is applied to what layer 0's beam search has found, and the  *)
(* heap keeps the best k; matching is the set of records that pass it.     *)
Answer(matching) ==
  /\ task # Idle
  /\ task.kind = "search"
  /\ layer = 0
  /\ Exhausted(beam)
  /\ LET hits == Ascending(beam.query, beam.result \cap matching)
     IN  answer' = [query |-> beam.query, k |-> task.k, matching |-> matching,
                    heap |-> FoldLeft(LAMBDA h, n : Push(h, task.k, Item(beam.query, n)),
                                      {}, hits)]
  /\ Finish
  /\ UNCHANGED <<points, node_levels, layers, entry_point>>

Next == \/ \E level \in Level : Insert(level)
        \/ Connect
        \/ \E q \in Queries, k \in Limits : Search(q, k)
        \/ \E filter \in Filters : Answer(filter \cap Nodes)
        \/ Expand \/ Descend

Spec == Init /\ [][Next]_vars

-----------------------------------------------------------------------------
(* Every variable has its type: each layer has a list for each node, and a *)
(* beam only knows nodes of the graph.                                     *)
TypeOK ==
  /\ points \in Seq(Point)
  /\ node_levels \in Seq(Level) /\ Nodes \subseteq DOMAIN points
  /\ \E top \in Level : DOMAIN layers = 0 .. top
  /\ \A l \in DOMAIN layers : layers[l] \in [Nodes -> Seq(Nodes)]
  /\ entry_point \in Nodes \cup {NONE} /\ (entry_point = NONE <=> Nodes = {})
  /\ layer \in DOMAIN layers
  /\ task # Idle =>
       /\ task.query \in Point /\ task.top \in Level /\ task.floor \in 0 .. task.top
       /\ beam.query = task.query /\ beam.ef \in Nat \ {0}
       /\ beam.result # {} /\ beam.result \cup beam.candidates \subseteq beam.visited
       /\ beam.visited \subseteq Nodes
  /\ answer # NoAnswer => \A i \in answer.heap : i.id \in Nodes /\ i.score \in Nat

(* "[layer][node] -> Vec<neighbor>" and "neighbor caps respected": an edge *)
(* of a layer joins two different nodes that both take part in it, no edge *)
(* is there twice, and no list outgrows its layer's cap.                   *)
OnLayer(l) == {n \in Nodes : node_levels[n] >= l}

EdgesSound ==
  \A l \in DOMAIN layers, n \in Nodes :
    /\ Len(layers[l][n]) <= IF n \in OnLayer(l) THEN Cap(l) ELSE 0
    /\ Range(layers[l][n]) \subseteq OnLayer(l) \ {n}
    /\ Cardinality(Range(layers[l][n])) = Len(layers[l][n])

(* Between inserts the entry point is on the top layer, and a search of a  *)
(* layer never leaves the nodes that take part in it: a descent cannot get *)
(* stuck on a node without edges there.                                    *)
EntryIsTop ==
  /\ task = Idle /\ Nodes # {} => DOMAIN layers = 0 .. node_levels[entry_point]
  /\ task # Idle => beam.visited \subseteq OnLayer(layer)

(* Until a layer has more nodes than a list may hold and one more, nothing *)
(* is pruned from it: between inserts its edges go both ways, and from any *)
(* node on it every other can be reached.  (Of more nodes this is false:   *)
(* pruning may cut the only edge to a node.)                               *)
Reached(l, start) ==
  LET grow[i \in Nat] == IF i = 0 THEN {start}
                         ELSE grow[i - 1] \cup UNION {Range(layers[l][n]) : n \in grow[i - 1]}
  IN  grow[Len(node_levels)]

Navigable ==
  task = Idle =>
    \A l \in DOMAIN layers :
      Cardinality(OnLayer(l)) <= Cap(l) + 1 =>
        \A n \in OnLayer(l) :
          /\ \A o \in Range(layers[l][n]) : n \in Range(layers[l][o])
          /\ Reached(l, n) = OnLayer(l)

(* "a fixed-size beam": at each moment the result is the best ef of the    *)
(* nodes visited, and the neighbours of a result that is no candidate any  *)
(* more have been visited.  So a finished beam is a local optimum: no edge *)
(* leads from a result to a node that would belong in it.                  *)
BeamKeepsBest ==
  task # Idle =>
    /\ KeepsBest({Item(beam.query, n) : n \in beam.result}, beam.ef,
                 {Item(beam.query, n) : n \in beam.visited})
    /\ \A n \in beam.result \ beam.candidates : Range(layers[layer][n]) \subseteq beam.visited

(* A search as wide as the graph, of a graph too small to have been pruned *)
(* on layer 0, answers as brute force does: with the best k of all records *)
(* that pass the filter, wherever its descent ended.                       *)
ExactWhileSmall ==
  (/\ answer # NoAnswer
   /\ Cardinality(Nodes) <= Cap(0) + 1
   /\ Cardinality(Nodes) <= ef_search \/ Cardinality(Nodes) <= answer.k) =>
     KeepsBest(answer.heap, answer.k, {Item(answer.query, n) : n \in answer.matching})
=============================================================================
