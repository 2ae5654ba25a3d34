---------------------------- MODULE MCController ----------------------------
(* The controller, in five scenarios.  "reports": its graph under reports of
   three nodes, the controller among them, with the least and the largest metric,
   and a battery too low to route over.  "routes": routes looked for in a ring of
   five vertices with a chord, built and taken apart in any order: two ways of
   different length to one vertex, a cycle, and a vertex in the middle that may
   go.  "flows": two nodes report their links, whose metrics make one weigh 1 or
   10, so that one link can be heavier than two others or about as heavy.
   "targets": four nodes in a chain with a target of the same flow at either end.
   "addresses": a node asks for routes to addresses. *)
EXTENDS Controller

CONSTANTS c, n1, n2, n3, n4, ctlflow, none, nil,
          Energies, Reporters, Listed, Chargers,   \* of Topology
          Informed,                                \* Metrics of Topology
          Links, Present, Removed,                 \* of Dijkstra
          Weighed                                  \* Metrics of Dijkstra

VARIABLES scenario,              \* what this behavior is about; it never changes
          graph, news, told,     \* of Topology
          net, target, route     \* of Dijkstra

FiveNodes == {c, n1, n2, n3, n4}
ThreeNodes == {c, n1, n2}
OneFlow == {ctlflow}
Target == {n3}
Nobody == {}
TwoReporters == {c, n1}
OneCharger == {n1}

Low == {5}
Extremes == {0, 65535}

\* Weights 1 and 10, and 1 and 31
TwoMetrics == {0, 6000}
Unequal == {0, 20000}

Ring == {<<c, n1>>, <<c, n2>>, <<n2, n3>>, <<n3, n4>>, <<n1, n4>>, <<n4, n2>>}
Without2 == {c, n1, n3, n4}
Second == {n2}

\* Everything n may name, in any order.
Orders(n, names) == {n} \X UNION {SetToSeqs(S) : S \in SUBSET names}

Star == Orders(n1, {c, n2})
Triangle == {<<n1, <<c>>>>} \union Orders(n2, {c, n1})
Chain == {<<n1, <<c>>>>} \union ({n2} \X {<<n1>>, <<n1, n3>>})

Topo == INSTANCE Topology WITH Metrics <- Informed

Paths == INSTANCE Dijkstra WITH Metrics <- Weighed, Source <- Own, graph <- net

FlowCase == INSTANCE Controller WITH
    Reports <- Triangle, Owners <- {}, Ackers <- {n1}

AddressCase == INSTANCE Controller WITH
    Reports <- Star, Metrics <- {0}, Owners <- {}, Ackers <- {n1, n2},
    Askers <- {n1}, Addresses <- ThreeNodes

ASSUME GraphAssumption == Topo!TopologyAssumption /\ SrcToNeighbors /\ NeighborsToSrc
ASSUME SearchAssumption == Paths!DijkstraAssumption
ASSUME FlowCase!ControllerAssumption /\ AddressCase!ControllerAssumption

AnyInit ==
    /\ scenario \in {"reports", "routes", "flows", "targets", "addresses"}
    /\ Init /\ Topo!Init /\ Paths!Init

ReportsMove == scenario = "reports" /\ UNCHANGED <<scenario, ctl, net, target, route>>
RoutesMove == scenario = "routes" /\ UNCHANGED <<scenario, ctl, graph, news, told>>
ControllerMoves(s) == scenario = s /\ UNCHANGED <<scenario, graph, news, told, net, target, route>>

AnyNext ==
    \/ ReportsMove /\ Topo!Next
    \/ RoutesMove /\ Paths!Next
    \/ ControllerMoves("flows") /\ FlowCase!Next
    \/ ControllerMoves("targets") /\ Next
    \/ ControllerMoves("addresses") /\ AddressCase!Next

AnySpec == AnyInit /\ [][AnyNext]_<<scenario, ctl, graph, news, told, net, target, route>>

-----------------------------------------------------------------------------
\* Whatever is reported, added and removed, edges join vertices of the graph,
\* none is there twice, and after reports of either kind no weight is stale.
GraphKept == Topo!TypeOK /\ Topo!EdgesSound /\ Topo!WeightsCurrent /\ Paths!GraphSound

\* A route is found exactly to what can be reached; it is a path of the graph,
\* what it says is left at each vertex is the sum of the edges ahead, and among
\* equal edges no route is shorter.
RouteSound == Paths!FoundIfReachable /\ Paths!RouteIsPath /\ Paths!UniformShortest

\* The controller's graph is the network as last reported, and a report leads to
\* new routes exactly when it changed what routes are made of.
RefinesAdjacency == Topo!RefinesAdjacency

\* The state keeps its shape; whatever path an update of a cache takes, the node
\* an entry is for has been told and has one entry for a key: an entry that
\* differs from what its node was last sent is offline, none is left marked, and
\* none is there twice.
CachesTold == TypeOK /\ NoneLeftMarked /\ OneEntry /\ OnlineWasTold

\* After every handler the flow cache fits the graph as it is now, as long as a
\* flow has one target.
OneTargetCurrent == scenario = "flows" => RoutesCurrent
=============================================================================
