------------------------------ MODULE Dijkstra ------------------------------
(***************************************************************************)
(* The graph library in use: a graph is built and taken apart by the       *)
(* operations of digraph.c in any order, as digraph-test.c does, and a     *)
(* route is looked for in between.                                         *)
(***************************************************************************)
EXTENDS DijkstraOps

CONSTANTS Links,      \* bound: the edges that may be added
          Metrics,    \* bound: their etx
          Present,    \* bound: the vertices there at the start
          Removed,    \* bound: the vertices that may be taken out
          Source      \* bound: the vertex routes start from

DijkstraAssumption ==
    /\ Links \subseteq Nodes \X Nodes /\ \A l \in Links : l[1] # l[2]
    /\ Metrics \subseteq 0..MaxEtx
    /\ Source \in Nodes /\ {Present, Removed} \subseteq SUBSET Nodes
    /\ IsFiniteSet(Nodes) /\ NoNode \notin Nodes

VARIABLES graph,     \* the digraph
          target,    \* where the latest route leads
          route      \* the latest route, target first

vars == <<graph, target, route>>

Init ==
    /\ graph = Folded(GetVertex, EmptyGraph, SetToSeq(Present))
    /\ target = NoNode /\ route = <<>>

NoRoute == target' = NoNode /\ route' = <<>>

\* Bound: an edge that is there is not updated; the reports of Topology do.
Connect(l, etx) ==
    /\ ~HasEdge(graph, l[1], l[2])
    /\ graph' = AddEdge(GetVertex(GetVertex(graph, l[1]), l[2]), l[1], l[2], etx)
    /\ NoRoute

Disconnect(l) ==
    /\ HasEdge(graph, l[1], l[2])
    /\ graph' = DeleteEdge(graph, l[1], l[2])
    /\ NoRoute

RemoveVertex(n) ==
    /\ n \in Vertices(graph)
    /\ graph' = DeleteVertex(graph, n)
    /\ NoRoute

FindRoute(to) ==
    LET found == ShortestPath(graph, Source, to)
    IN  /\ target = NoNode
        /\ graph' = found.graph /\ target' = to /\ route' = found.route

Next ==
    \/ \E l \in Links : Disconnect(l) \/ \E etx \in Metrics : Connect(l, etx)
    \/ \E n \in Removed : RemoveVertex(n)
    \/ \E n \in Nodes : FindRoute(n)

Spec == Init /\ [][Next]_vars

-----------------------------------------------------------------------------
\* Whatever is added and removed, edges join vertices of the graph and none is
\* there twice: digraph_del_vertice leaves no edge to the vertex it frees.
GraphSound == SoundGraph(graph)

Reachable == {n \in Nodes : Distances(graph, Source)[n] < Infinite}

\* A route is found to every other vertex that can be reached, and to no other.
FoundIfReachable ==
    target # NoNode => (route # <<>> <=> target \in Reachable \ {Source})

\* A route is a path of the graph from target back to source, no vertex twice,
\* and what it says is left at each vertex is the sum of the edges ahead of it.
RouteIsPath ==
    route # <<>> =>
        /\ route[1].node = target /\ route[Len(route)].node = Source
        /\ Unrepeated([i \in DOMAIN route |-> route[i].node])
        /\ \A i \in 1..(Len(route) - 1) :
              /\ HasEdge(graph, route[i + 1].node, route[i].node)
              /\ route[i + 1].hops = route[i].hops + 1
              /\ route[i + 1].weight = (IF i = 1 THEN 0 ELSE route[i].weight)
                                       + EdgeOf(graph, route[i + 1].node, route[i].node).weight
        /\ route[1].weight = route[Len(route)].weight

\* When all edges weigh the same, the route is a shortest one.
UniformShortest ==
    (route # <<>> /\ \E w \in 1..MaxWeight : \A n \in Nodes :
                        \A i \in DOMAIN graph.out[n] : graph.out[n][i].weight = w)
        => route[1].weight = Distances(graph, Source)[target]

\* digraph.h: the attributes of a vertex are "for Dijkstra algorithm", and the
\* function is dijkstra_shortest_path: its route has the least weight.
\* The code does not keep it: README, section 5.
RouteIsShortest ==
    route # <<>> => route[1].weight = Distances(graph, Source)[target]
=============================================================================
