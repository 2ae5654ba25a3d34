----------------------------- MODULE DigraphOps -----------------------------
(***************************************************************************)
(* The graph of the controller (controller-server/digraph/digraph.c) as    *)
(* functions from graph to graph.  Vertices and the edges of each vertex   *)
(* are circular lists with a header; a list is the sequence that starts at *)
(* its header, because the order decides which of two equal routes is      *)
(* found.  An operation that also reports whether something changed yields *)
(* a record of the graph and that report.                                  *)
(*                                                                         *)
(*   g.order    the vertices, digraph_header first                         *)
(*   g.energy   the energy of every vertex                                 *)
(*   g.out      the edges from every vertex, edge_header first             *)
(***************************************************************************)
EXTENDS Integers, Lists, SequencesExt

CONSTANT Nodes    \* the addresses vertices are named by

MaxEtx == 65535          \* MAX_ETX_METRIC
MaxWeight == 100         \* MAX_WEIGHT
MaxBattery == 255        \* MAX_BATTERY_LEVEL
LowBattery == 12         \* MAX_BATTERY_LEVEL * THRESHOLD_BATTERY_ROUTE / 100

Lower(x, y) == IF x < y THEN x ELSE y

\* WEIGHT_ETX is 1 and WEIGHT_ENERGY 0: a vertex's energy counts only when it
\* is low.  The code computes in floats and truncates.
WeightOf(energy, etx) ==
    IF energy < LowBattery \/ etx >= MaxEtx THEN MaxWeight ELSE (MaxWeight * etx) \div MaxEtx + 1

\* A circular list: what is new goes behind the header.
Behind(list, x) == IF list = <<>> THEN <<x>> ELSE <<Head(list), x>> \o Tail(list)

-----------------------------------------------------------------------------
(* Vertices *)

EmptyGraph == [order  |-> <<>>,
               energy |-> [n \in Nodes |-> MaxBattery],
               out    |-> [n \in Nodes |-> <<>>]]

Vertices(g) == ToSet(g.order)

\* digraph_add_vertice
WithVertex(g, n) ==
    [g EXCEPT !.order = Behind(@, n), !.energy[n] = MaxBattery, !.out[n] = <<>>]

\* digraph_get_vertice
GetVertex(g, n) == IF n \in Vertices(g) THEN g ELSE WithVertex(g, n)

-----------------------------------------------------------------------------
(* Edges *)

EdgeStatuses == {"NEW", "STATIC", "UPDATED", "DELETED"}

HasEdge(g, x, y) == \E i \in DOMAIN g.out[x] : g.out[x][i].to = y

EdgeOf(g, x, y) == g.out[x][CHOOSE i \in DOMAIN g.out[x] : g.out[x][i].to = y]

\* Every edge from x for which Which holds becomes Change of it.
EditEdges(g, x, Which(_), Change(_)) ==
    [g EXCEPT !.out[x] = [i \in DOMAIN @ |-> IF Which(@[i]) THEN Change(@[i]) ELSE @[i]]]

\* digraph_add_edge: the status says whether the weight is news.
AddEdge(g, x, y, etx) ==
    LET w == WeightOf(Lower(g.energy[x], g.energy[y]), etx)
        renewed(e) == [e EXCEPT !.etx = etx, !.weight = w,
                                !.status = IF e.weight = w THEN "STATIC" ELSE "UPDATED"]
    IN  IF HasEdge(g, x, y)
        THEN EditEdges(g, x, LAMBDA e : e.to = y, renewed)
        ELSE [g EXCEPT !.out[x] = Behind(@, [to |-> y, etx |-> etx, weight |-> w, status |-> "NEW"])]

Marked(e) == [e EXCEPT !.status = "DELETED"]

\* digraph_mark_edges_to_del_from
MarkFrom(g, x) == EditEdges(g, x, LAMBDA e : TRUE, Marked)

\* digraph_mark_edges_to_del_towards
MarkTowards(g, y) ==
    [g EXCEPT !.out = [x \in Nodes |->
        [i \in DOMAIN @[x] |-> IF @[x][i].to = y THEN Marked(@[x][i]) ELSE @[x][i]]]]

Drop(list, Which(_)) == Among(list, {i \in DOMAIN list : ~Which(list[i])})

\* digraph_del_marked_edges_to_del_from: the header is looked at last and its
\* deletion is not reported, unless it is the only edge.
DeleteMarkedFrom(g, x) ==
    LET list == g.out[x]
        gone(e) == e.status = "DELETED"
    IN  [graph   |-> [g EXCEPT !.out[x] = Drop(@, gone)],
         changed |-> \/ Len(list) = 1 /\ gone(list[1])
                     \/ \E i \in 2..Len(list) : gone(list[i])]

\* digraph_del_marked_edges_to_del_towards
DeleteMarkedTowards(g, y) ==
    LET gone(e) == e.to = y /\ e.status = "DELETED"
    IN  [graph   |-> [g EXCEPT !.out = [x \in Nodes |-> Drop(@[x], gone)]],
         changed |-> \E x \in Nodes : \E i \in DOMAIN g.out[x] : gone(g.out[x][i])]

\* digraph_del_edge
DeleteEdge(g, x, y) == [g EXCEPT !.out[x] = Drop(@, LAMBDA e : e.to = y)]

\* digraph_del_edges_from
DeleteEdgesFrom(g, n) == [g EXCEPT !.out[n] = <<>>]

\* Fault: the edges to the vertex stay.
DeleteNoEdges(g, n) == g

\* digraph_del_edges_to
DeleteEdgesTo(g, n) ==
    [g EXCEPT !.out = [x \in Nodes |-> Drop(@[x], LAMBDA e : e.to = n)]]

\* digraph_del_vertice: the vertex behind the deleted one becomes the header.
DeleteVertex(g, n) ==
    LET i == CHOOSE j \in DOMAIN g.order : g.order[j] = n
    IN  [DeleteEdgesTo(DeleteEdgesFrom(g, n), n) EXCEPT
            !.order = SubSeq(@, i + 1, Len(@)) \o SubSeq(@, 1, i - 1)]

-----------------------------------------------------------------------------
(* Energy *)

\* digraph_update_energy_vertice: the edges from the vertex, and the edges to
\* it of the vertices it has an edge to, are weighed again.
UpdateEnergy(g, n, energy) ==
    LET renewed(x, e) == [e EXCEPT !.weight = WeightOf(Lower(energy, g.energy[x]), e.etx)]
        list(x) == [i \in DOMAIN g.out[x] |->
                       LET e == g.out[x][i]
                       IN  CASE x = n -> renewed(e.to, e)
                             [] x # n /\ e.to = n /\ HasEdge(g, n, x) -> renewed(x, e)
                             [] OTHER -> e]
        new == [g EXCEPT !.energy[n] = energy, !.out = [x \in Nodes |-> list(x)]]
    IN  IF g.energy[n] = energy
        THEN [graph |-> g, changed |-> FALSE]
        ELSE [graph |-> new, changed |-> new.out # g.out]

-----------------------------------------------------------------------------
(* What the operations keep *)

Unrepeated(s) == \A i, j \in DOMAIN s : s[i] = s[j] => i = j

\* Edges join two vertices of the graph, and a vertex has one edge to another.
SoundGraph(g) ==
    /\ Unrepeated(g.order)
    /\ \A n \in Nodes :
          /\ g.out[n] # <<>> => n \in Vertices(g)
          /\ \A i \in DOMAIN g.out[n] : g.out[n][i].to \in Vertices(g) \ {n}
          /\ \A i, j \in DOMAIN g.out[n] : g.out[n][i].to = g.out[n][j].to => i = j

\* A weight is that of the latest metric and the lower of the two energies.
CurrentWeights(g) ==
    \A n \in Nodes : \A i \in DOMAIN g.out[n] :
        LET e == g.out[n][i]
        IN  e.weight = WeightOf(Lower(g.energy[n], g.energy[e.to]), e.etx)
=============================================================================
