------------------------------- MODULE Mhnsw -------------------------------
(***************************************************************************)
(* The MHNSW vector index of sql/vector_mhnsw.cc: a layered navigable      *)
(* small-world graph kept in the hidden table                              *)
(*   i (layer, src, neighbors, index (layer, src)),                        *)
(* built by mhnsw_insert() and searched by mhnsw_first() / mhnsw_next().  *)
(*                                                                         *)
(* Data abstraction: a row reference (handler::ref) is an integer and the  *)
(* ref byte order is integer order; a vector is one coordinate Pos[r], so  *)
(* euclidean_vec_distance() is |a - b|.  The hidden table is the function  *)
(* graph from its keys <<layer, src>> to the neighbor list.  The priority  *)
(* queues of search_layer() and select_neighbours() are sets ordered by    *)
(* distance; the model's inputs have no two rows at equal distance from a  *)
(* target, so the heaps' tie order never matters.  The layer a new row     *)
(* gets, floor(-log(U) * 2) for U from the seeded mt19937, is any layer up *)
(* to MaxLayer.  The insert and the search each run to completion under    *)
(* the table lock, so each is one step.                                    *)
(***************************************************************************)
EXTENDS Integers, SequencesExt

CONSTANTS
  Row,       \* row references of the base table
  Pos,       \* the vector of each row
  Query,     \* query vectors of VEC_DISTANCE(...) ORDER BY searches
  MaxLayer   \* bound on the layer drawn for a new row

ASSUME /\ Row \subseteq Nat /\ Pos \in [Row -> Int]
       /\ Query \subseteq Int /\ MaxLayer \in Nat

\* Constants of mhnsw_insert() and mhnsw_first().
EF_CONSTRUCTION == 200
MAX_INSERT_NEIGHBOR_CONNECTIONS == 24
MAX_NEIGHBORS_PER_LAYER == 24
EF_SEARCH == 40
HA_ERR_END_OF_FILE == 137
NoQuery == -1000
NoRow == 0

VARIABLES
  graph,     \* the hidden index table: <<layer, src>> -> neighbors
  ctx,       \* graph->context: the rows mhnsw_next() still returns
  cur,       \* the row positioned in table->record[0]
  err,       \* the result of the last handler call
  query,     \* the target of the last mhnsw_first()
  snap,      \* history: the rows indexed when mhnsw_first() ran
  returned   \* history: the rows returned since that mhnsw_first()

vars == <<graph, ctx, cur, err, query, snap, returned>>

Dist(x, r) == IF x >= Pos[r] THEN x - Pos[r] ELSE Pos[r] - x

\* The rows of S nearest first (a min-heap popped empty).
Ascending(x, S) == SetToSortSeq(S, LAMBDA a, b : Dist(x, a) < Dist(x, b))

Nearest(x, S) == Head(Ascending(x, S))
Furthest(x, S) == Head(Reverse(Ascending(x, S)))

\* get_neighbours(): the neighbor list of r at the layer, or none when the
\* index read fails.
Neighbours(g, layer, r) ==
  IF <<layer, r>> \in DOMAIN g THEN g[<<layer, r>>] ELSE <<>>

\* write_neighbours(): ha_write_row of a new key or ha_update_row.
WriteNeighbours(g, k, nbrs) ==
  [x \in DOMAIN g \cup {k} |-> IF x = k THEN nbrs ELSE g[x]]

\* The inner loop of search_layer() over the neighbors of one candidate.
RECURSIVE VisitNeighbours(_, _, _, _)
VisitNeighbours(x, st, nb, ef) ==
  IF nb = <<>> THEN st
  ELSE LET n == Head(nb)
           far == Furthest(x, st.best)
           seen == [st EXCEPT !.visited = @ \cup {n}]
           st2 == IF n \in st.visited THEN st
                  ELSE IF Cardinality(st.best) < ef
                    THEN [seen EXCEPT !.cand = @ \cup {n}, !.best = @ \cup {n}]
                  ELSE IF Dist(x, n) < Dist(x, far)
                    THEN [seen EXCEPT !.cand = @ \cup {n},
                                      !.best = (@ \ {far}) \cup {n}]
                  ELSE seen
       IN VisitNeighbours(x, st2, Tail(nb), ef)

\* The outer loop of search_layer(): pop the nearest candidate, stop when
\* it is farther than the farthest of the best.
RECURSIVE SearchLoop(_, _, _, _, _)
SearchLoop(g, x, st, ef, layer) ==
  IF st.cand = {} THEN st
  ELSE LET c == Nearest(x, st.cand)
           st1 == [st EXCEPT !.cand = @ \ {c}]
       IN IF Dist(x, c) > Dist(x, Furthest(x, st.best)) THEN st1
          ELSE SearchLoop(g, x, VisitNeighbours(x, st1, Neighbours(g, layer, c), ef),
                          ef, layer)

\* search_layer(): the result list, filled by popping the max-heap best,
\* so farthest first.
SearchLayer(g, x, start, ef, layer) ==
  LET st == SearchLoop(g, x, [cand |-> start, best |-> start, visited |-> start],
                       ef, layer)
  IN Reverse(Ascending(x, st.best))

\* select_neighbours(): the m nearest of the candidates, nearest first.
SelectNeighbours(x, cands, m) ==
  LET s == Ascending(x, cands) IN SubSeq(s, 1, IF m < Len(s) THEN m ELSE Len(s))

\* ha_index_last() on index (layer, src): the greatest src of the top layer.
TopLayer(g) == Max({k[1] : k \in DOMAIN g})
EntryPoint(g) == Max({k[2] : k \in {k \in DOMAIN g : k[1] = TopLayer(g)}})

\* The descent loops: search_layer() with one result per layer above low.
RECURSIVE Descend(_, _, _, _, _)
Descend(g, x, start, layer, low) ==
  IF layer <= low THEN start
  ELSE Descend(g, x, {Head(SearchLayer(g, x, start, 1, layer))}, layer - 1, low)

\* Mutant: the neighbors' lists are not updated with the new row.
UpdateSecondDegreeNone(g, layer, maxN, row, nbrs) == g

\* update_second_degree_neighbors(): append the new row to the list of
\* each of its neighbors, in turn, and shrink a list longer than maxN to
\* the maxN nearest to that neighbor.
RECURSIVE UpdateSecondDegree(_, _, _, _, _)
UpdateSecondDegree(g, layer, maxN, row, nbrs) ==
  IF nbrs = <<>> THEN g
  ELSE LET n == Head(nbrs)
           nn == Neighbours(g, layer, n) \o <<row>>
           kept == IF Len(nn) > maxN THEN SelectNeighbours(Pos[n], ToSet(nn), maxN)
                   ELSE nn
       IN UpdateSecondDegree(WriteNeighbours(g, <<layer, n>>, kept),
                             layer, maxN, row, Tail(nbrs))

\* The second loop of mhnsw_insert(), from layer down to 0: search with
\* EF_CONSTRUCTION, connect the row to the nearest, update_neighbours(),
\* and start the next layer from all the candidates.
RECURSIVE InsertLayers(_, _, _, _)
InsertLayers(g, row, start, layer) ==
  IF layer < 0 THEN g
  ELSE LET x == Pos[row]
           cands == SearchLayer(g, x, start, EF_CONSTRUCTION, layer)
           maxN == IF layer = 0 THEN MAX_NEIGHBORS_PER_LAYER * 2
                   ELSE MAX_NEIGHBORS_PER_LAYER
           nbrs == SelectNeighbours(x, ToSet(cands), MAX_INSERT_NEIGHBOR_CONNECTIONS)
           g1 == WriteNeighbours(g, <<layer, row>>, nbrs)
       IN InsertLayers(UpdateSecondDegree(g1, layer, maxN, row, nbrs),
                       row, ToSet(cands), layer - 1)

Init ==
  /\ graph = [k \in {} |-> <<>>]
  /\ ctx = <<>>
  /\ cur = NoRow
  /\ err = 0
  /\ query = NoQuery
  /\ snap = {}
  /\ returned = <<>>

Indexed == {k[2] : k \in DOMAIN graph}

\* mhnsw_insert() for the row just written, which gets layer newLayer.
\* The first row is stored at layer 0 with no neighbors; otherwise the
\* row descends from the entry point, is linked into every layer up to
\* the top one, and gets empty lists on the new layers above it.
MhnswInsert(row, newLayer) ==
  /\ row \notin Indexed
  /\ graph' =
       IF DOMAIN graph = {} THEN <<0, row>> :> <<>>
       ELSE LET top == TopLayer(graph)
                start == Descend(graph, Pos[row], {EntryPoint(graph)}, top, newLayer)
                g == InsertLayers(graph, row, start, IF top < newLayer THEN top ELSE newLayer)
            IN [k \in DOMAIN g \cup {<<l, row>> : l \in top + 1 .. newLayer} |->
                  IF k \in DOMAIN g THEN g[k] ELSE <<>>]
  /\ err' = 0
  /\ UNCHANGED <<ctx, cur, query, snap, returned>>

\* mhnsw_next(): position the next row of the context, or end of file.
NextStep ==
  IF ctx # <<>>
  THEN /\ cur' = Head(ctx)
       /\ ctx' = Tail(ctx)
       /\ err' = 0
  ELSE /\ err' = HA_ERR_END_OF_FILE
       /\ UNCHANGED <<ctx, cur>>

\* Mutant: the context is filled front to back (farthest first).
FillContextForward(res) == res

\* mhnsw_first(): *--ptr= candidates.pop() stores the farthest-first
\* result list back to front, so the context is nearest first.
FillContext(res) == Reverse(res)

\* mhnsw_first(): on an empty index return 0 at once; otherwise descend
\* to layer 0, search it with EF_SEARCH, store the context, mhnsw_next().
MhnswFirst(q) ==
  /\ query' = q
  /\ snap' = Indexed
  /\ IF DOMAIN graph = {}
     THEN /\ err' = 0
          /\ returned' = <<>>
          /\ UNCHANGED <<ctx, cur>>
     ELSE LET start == Descend(graph, q, {EntryPoint(graph)}, TopLayer(graph), 0)
              c0 == FillContext(SearchLayer(graph, q, start, EF_SEARCH, 0))
          IN /\ cur' = Head(c0)
             /\ ctx' = Tail(c0)
             /\ err' = 0
             /\ returned' = <<Head(c0)>>
  /\ UNCHANGED graph

\* mhnsw_next() after a mhnsw_first().
MhnswNext ==
  /\ query # NoQuery
  /\ NextStep
  /\ returned' = IF ctx # <<>> THEN Append(returned, Head(ctx)) ELSE returned
  /\ UNCHANGED <<graph, query, snap>>

Next ==
  \/ \E r \in Row, l \in 0 .. MaxLayer : MhnswInsert(r, l)
  \/ \E q \in Query : MhnswFirst(q)
  \/ MhnswNext

Spec == Init /\ [][Next]_vars

(***************************************************************************)
(* Properties                                                              *)
(***************************************************************************)
\* An ORDER BY VEC_DISTANCE scan returns the indexed rows nearest first,
\* and, while the index holds fewer rows than EF_SEARCH and no list was
\* shrunk, every one of them: the rows returned since mhnsw_first() and the
\* rest of the context are all rows indexed then, in distance order.  This
\* needs search_layer()'s stop test and visited set, the reverse links of
\* update_second_degree_neighbors(), the descent through the layers, and
\* the back-to-front fill of the context.
ScanExact ==
  (query # NoQuery /\ snap # {}) => returned \o ctx = Ascending(query, snap)

\* A mhnsw_first() that returns 0 has positioned a row the index holds,
\* as the handler's index_first/read contract requires.
FirstFindsRow ==
  (query # NoQuery /\ err = 0 /\ returned = <<>>) => cur \in snap

====
