---------------------------- MODULE DijkstraOps -----------------------------
(***************************************************************************)
(* dijkstra.c: a route over the graph of digraph.c.  The attributes the    *)
(* search leaves in the vertices (visited, route_weight, route_root) and   *)
(* the priority list are a search record here; the code clears them at the *)
(* end of each search.                                                     *)
(***************************************************************************)
EXTENDS DigraphOps

CONSTANT NoNode    \* NULL for a vertex

ASSUME NodesAssumption == IsFiniteSet(Nodes) /\ NoNode \notin Nodes

\* seen: visited; root: route_root; queue: dijkstra_queue_head and what follows.
StartSearch == [seen   |-> {},
                weight |-> [n \in Nodes |-> 0],
                root   |-> [n \in Nodes |-> NoNode],
                queue  |-> <<>>]

\* dijkstra_queue_push: before the first vertex that is farther.
Push(s, n) ==
    LET farther == SelectInSeq(s.queue, LAMBDA m : s.weight[n] < s.weight[m])
    IN  [s EXCEPT !.queue = IF farther = 0 THEN Append(@, n) ELSE InsertAt(@, farther, n)]

\* Fault: a shorter way is weighed and not taken.
RelaxWeight(s, v, e) ==
    LET w == s.weight[v] + e.weight
    IN  CASE e.to \in s.seen -> s
          [] e.to \notin s.seen /\ s.root[e.to] = NoNode ->
                 Push([s EXCEPT !.weight[e.to] = w, !.root[e.to] = v], e.to)
          [] e.to \notin s.seen /\ s.root[e.to] # NoNode ->
                 [s EXCEPT !.weight[e.to] = Lower(@, w)]

\* An edge from v.  A vertex whose weight drops while it waits keeps its place.
Relax(s, v, e) ==
    LET w == s.weight[v] + e.weight
        found == [s EXCEPT !.weight[e.to] = w, !.root[e.to] = v]
    IN  CASE e.to \in s.seen -> s
          [] e.to \notin s.seen /\ s.root[e.to] = NoNode -> Push(found, e.to)
          [] e.to \notin s.seen /\ s.root[e.to] # NoNode ->
                 IF w < s.weight[e.to] THEN found ELSE s

Visit(g, s, v) ==
    Folded(LAMBDA t, e : Relax(t, v, e), [s EXCEPT !.seen = @ \union {v}], g.out[v])

\* From the source on, to whatever waits; no vertex is visited twice.
Explored(g, from) ==
    LET after[k \in 0..Cardinality(Nodes)] ==
            IF k = 0 THEN Visit(g, StartSearch, from)
            ELSE LET s == after[k - 1]
                 IN  IF s.queue = <<>> THEN s
                     ELSE Visit(g, [s EXCEPT !.queue = Tail(@)], Head(s.queue))
    IN  after[Cardinality(Nodes)]

\* From the target back to the source: each vertex with what is left to the
\* target from there.  The first element tells the whole weight.
Traced(s, to) ==
    LET after[k \in 0..Cardinality(Nodes)] ==
            IF k = 0 THEN <<[node |-> to, weight |-> s.weight[to], hops |-> 0]>>
            ELSE LET route == after[k - 1]
                     v == s.root[route[Len(route)].node]
                 IN  IF v = NoNode THEN route
                     ELSE Append(route, [node |-> v, weight |-> s.weight[to] - s.weight[v],
                                         hops |-> Len(route)])
    IN  after[Cardinality(Nodes)]

\* The route a search found, or none when nothing leads to the target or the
\* target is the source.
RouteIn(s, to) == IF s.root[to] = NoNode THEN <<>> ELSE Traced(s, to)

\* dijkstra_shortest_path: an end that is no vertex yet becomes one.
ShortestPath(g, from, to) ==
    [graph |-> GetVertex(GetVertex(g, from), to),
     route |-> RouteIn(Explored(GetVertex(g, from), from), to)]

-----------------------------------------------------------------------------
(* The reference: distances by repeated relaxation of every edge. *)

\* No path weighs as much.
Infinite == MaxWeight * Cardinality(Nodes)

LowestOf(S) == CHOOSE x \in S : \A y \in S : x <= y

Closer(g, d) ==
    [n \in Nodes |-> LowestOf({d[n]} \union
        {d[x] + EdgeOf(g, x, n).weight : x \in {y \in Nodes : HasEdge(g, y, n)}})]

Distances(g, from) ==
    Folded(LAMBDA d, i : Closer(g, d),
             [n \in Nodes |-> IF n = from THEN 0 ELSE Infinite],
             [i \in 1..Cardinality(Nodes) |-> i])
=============================================================================
