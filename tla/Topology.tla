------------------------------ MODULE Topology ------------------------------
(***************************************************************************)
(* How the controller keeps its graph: neighbor and energy reports, in any *)
(* order.  What follows a change, the new routes, is in Controller.        *)
(***************************************************************************)
EXTENDS ReportOps

CONSTANTS Own,              \* the controller
          Metrics,          \* the etx values a report can hold
          Energies,         \* the battery levels an energy report can hold
          Reporters,        \* bound: the nodes that send neighbor reports
          Listed,           \* bound: the nodes a neighbor report can list
          Chargers          \* bound: the nodes that send energy reports

TopologyAssumption ==
    /\ Own \in Nodes /\ {Reporters, Listed, Chargers} \subseteq SUBSET Nodes
    /\ IsFiniteSet(Listed)
    /\ Metrics \subseteq 0..MaxEtx /\ Energies \subseteq 0..MaxBattery
    /\ SrcToNeighbors \in BOOLEAN /\ NeighborsToSrc \in BOOLEAN
    /\ SrcToNeighbors \/ NeighborsToSrc

NoLevel == -1

VARIABLES graph,    \* the digraph
          news,     \* digraph_changed of the latest report
          told      \* the latest report: its sender, the metrics it lists or the energy

vars == <<graph, news, told>>

Init ==
    /\ graph = GetVertex(EmptyGraph, Own)
    /\ news = FALSE
    /\ told = [from |-> Own, metric |-> <<>>, level |-> NoLevel]

NeighborReport(s, list, metric) ==
    LET r == ReportedGraph(graph, s, list, metric)
    IN  /\ graph' = r.graph
        /\ news' = r.changed
        /\ told' = [from |-> s, metric |-> metric, level |-> NoLevel]

EnergyReport(s, level) ==
    LET r == ChargedGraph(graph, s, level)
    IN  /\ graph' = r.graph
        /\ news' = r.changed
        /\ told' = [from |-> s, metric |-> <<>>, level |-> level]

\* A list is some other nodes in some order.
Lists(s) == UNION {SetToSeqs(nbrs) : nbrs \in SUBSET (Listed \ {s})}

Next ==
    \/ \E s \in Reporters : \E list \in Lists(s) :
           \E metric \in [ToSet(list) -> Metrics] : NeighborReport(s, list, metric)
    \/ \E s \in Chargers, level \in Energies : EnergyReport(s, level)

Spec == Init /\ [][Next]_vars

-----------------------------------------------------------------------------
Edge == [to : Nodes, etx : Metrics, weight : 1..MaxWeight, status : EdgeStatuses]

TypeOK ==
    /\ Vertices(graph) \subseteq Nodes
    /\ graph.energy \in [Nodes -> Energies \union {MaxBattery}]
    /\ \A n \in Nodes : \A i \in DOMAIN graph.out[n] : graph.out[n][i] \in Edge
    /\ news \in BOOLEAN /\ told.from \in Nodes

\* The graph is well formed whatever is reported: edges join two vertices, and
\* no vertex has two edges to the same one, so that a weight is the weight.
EdgesSound == SoundGraph(graph)

\* No weight is stale: it is that of the latest metric and the lower of the two
\* latest energies, although reports of either kind change one side only.
WeightsCurrent == CurrentWeights(graph)

\* sdn-process-packets-controller.c: "Removes edges not informed."  After a
\* report nothing is left of a link to its sender that the report does not name.
\* The code does not keep it: README, section 5.
UninformedRemoved ==
    told.level = NoLevel =>
        \A n \in Nodes \ DOMAIN told.metric : ~HasEdge(graph, told.from, n) /\ ~HasEdge(graph, n, told.from)

\* The links the graph holds, each with the metric of an edge.
LinkMetric ==
    LET ends(l) == CHOOSE p \in l \X l : HasEdge(graph, p[1], p[2])
        links == UNION {{{x, graph.out[x][i].to} : i \in DOMAIN graph.out[x]} : x \in Nodes}
    IN  [l \in links |-> EdgeOf(graph, ends(l)[1], ends(l)[2]).etx]

A == INSTANCE Adjacency WITH known <- Vertices(graph), metric <- LinkMetric,
                             energy <- graph.energy, Full <- MaxBattery, Weight <- WeightOf

\* Built with both directions, the graph is the network as last reported, and a
\* report leads to new routes exactly when it changed what routes are made of.
RefinesAdjacency == A!AdjSpec
=============================================================================
