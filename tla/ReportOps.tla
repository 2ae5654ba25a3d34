------------------------------ MODULE ReportOps ------------------------------
(***************************************************************************)
(* What the reports of sdn-process-packets-controller.c make of the graph  *)
(* of digraph.c.  The build decides which edges a neighbor report stands   *)
(* for: those from its sender, those to it, or both (controller-pc.pro     *)
(* defines both; change_to_naive.sh leaves only those to it).              *)
(***************************************************************************)
EXTENDS DigraphOps

CONSTANTS SrcToNeighbors,   \* SDN_NEIGHBORINFO_SRC_TO_NEIGHBORS
          NeighborsToSrc    \* SDN_NEIGHBORINFO_NEIGHBORS_TO_SRC

\* Fault: edges the sender has are not marked.
MarkNothing(g, s) == g

MarkUninformed(g, s) ==
    LET from == IF SrcToNeighbors THEN MarkFrom(g, s) ELSE g
    IN  IF NeighborsToSrc THEN MarkTowards(from, s) ELSE from

\* One neighbor of the list: its vertex, and the edge or edges to it.
AddNeighbor(r, s, n, etx) ==
    LET seen == GetVertex(r.graph, n)
        from == IF SrcToNeighbors THEN AddEdge(seen, s, n, etx) ELSE seen
        both == IF NeighborsToSrc THEN AddEdge(from, n, s, etx) ELSE from
    IN  [graph   |-> both,
         changed |-> \/ r.changed
                     \/ SrcToNeighbors /\ EdgeOf(both, s, n).status # "STATIC"
                     \/ NeighborsToSrc /\ EdgeOf(both, n, s).status # "STATIC"]

\* The edges that were not informed.  Each build marks one direction and
\* deletes the other; only a build with both deletes what it marked.
DeleteUninformed(r, s) ==
    LET towards == IF SrcToNeighbors THEN DeleteMarkedTowards(r.graph, s)
                   ELSE [graph |-> r.graph, changed |-> FALSE]
        from == IF NeighborsToSrc THEN DeleteMarkedFrom(towards.graph, s)
                ELSE [graph |-> towards.graph, changed |-> FALSE]
    IN  [graph |-> from.graph, changed |-> r.changed \/ towards.changed \/ from.changed]

\* process_neighbor_report, up to the new routes.  list holds the neighbors in
\* the order of the packet, metric their etx.
ReportedGraph(g, s, list, metric) ==
    LET seen  == GetVertex(g, s)
        first == [graph |-> MarkUninformed(seen, s), changed |-> s \notin Vertices(g)]
        all   == Folded(LAMBDA r, n : AddNeighbor(r, s, n, metric[n]), first, list)
    IN  DeleteUninformed(all, s)

\* process_energy_report, up to the new routes.
ChargedGraph(g, s, level) ==
    LET r == UpdateEnergy(GetVertex(g, s), s, level)
    IN  [graph |-> r.graph, changed |-> r.changed \/ s \notin Vertices(g)]
=============================================================================
