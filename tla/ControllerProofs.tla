--------------------------- MODULE ControllerProofs ---------------------------
(***************************************************************************)
(* The controller, whatever is reported, requested, registered and         *)
(* acknowledged, in any order and by any number of nodes: its graph stays  *)
(* well formed and no weight is stale; a search finds a path to what can   *)
(* be reached; and what its caches hold as online is what the nodes were   *)
(* last sent, one entry for a key and none marked when a handler is done.  *)
(***************************************************************************)
EXTENDS MCController, GraphProofs

-----------------------------------------------------------------------------
(* The scenarios, which read the modules as instances *)

LEMMA SameEdits ==
    ASSUME NEW g, NEW x, NEW y, NEW etx
    PROVE  /\ Topo!Vertices(g) = Vertices(g)
           /\ Topo!GetVertex(g, x) = GetVertex(g, x)
           /\ Topo!AddEdge(g, x, y, etx) = AddEdge(g, x, y, etx)
           /\ Topo!EdgeOf(g, x, y) = EdgeOf(g, x, y)
           /\ Topo!MarkUninformed(g, x) = MarkUninformed(g, x)
           /\ Topo!DeleteMarkedTowards(g, x) = DeleteMarkedTowards(g, x)
           /\ Topo!DeleteMarkedFrom(g, x) = DeleteMarkedFrom(g, x)
<1>1. Topo!GetVertex(g, x) = GetVertex(g, x) /\ Topo!Vertices(g) = Vertices(g)
  BY DEF Topo!GetVertex, GetVertex, Topo!WithVertex, WithVertex, Topo!Vertices, Vertices, Topo!ToSet, ToSet,
         Topo!Behind, Behind, Topo!MaxBattery, MaxBattery
<1>2. Topo!AddEdge(g, x, y, etx) = AddEdge(g, x, y, etx)
  BY DEF Topo!AddEdge, AddEdge, Topo!HasEdge, HasEdge, Topo!EditEdges, EditEdges, Topo!Behind, Behind,
         Topo!WeightOf, WeightOf, Topo!Lower, Lower, Topo!MaxEtx, MaxEtx, Topo!MaxWeight, MaxWeight,
         Topo!LowBattery, LowBattery, Topo!MaxBattery, MaxBattery
<1>3. Topo!EdgeOf(g, x, y) = EdgeOf(g, x, y)
  BY DEF Topo!EdgeOf, EdgeOf
<1>4. Topo!MarkUninformed(g, x) = MarkUninformed(g, x)
  BY DEF Topo!MarkUninformed, MarkUninformed, Topo!MarkFrom, MarkFrom, Topo!MarkTowards, MarkTowards,
         Topo!Marked, Marked, Topo!EditEdges, EditEdges
<1>5. Topo!DeleteMarkedTowards(g, x) = DeleteMarkedTowards(g, x)
  BY DEF Topo!DeleteMarkedTowards, DeleteMarkedTowards, Topo!Drop, Drop, Topo!Among, Among
<1>6. Topo!DeleteMarkedFrom(g, x) = DeleteMarkedFrom(g, x)
  BY DEF Topo!DeleteMarkedFrom, DeleteMarkedFrom, Topo!Drop, Drop, Topo!Among, Among
<1> QED BY <1>1, <1>2, <1>3, <1>4, <1>5, <1>6

LEMMA SameListing ==
    ASSUME NEW r, NEW s, NEW n, NEW etx
    PROVE  /\ Topo!AddNeighbor(r, s, n, etx) = AddNeighbor(r, s, n, etx)
           /\ Topo!DeleteUninformed(r, s) = DeleteUninformed(r, s)
<1>1. /\ \A g, x : Topo!GetVertex(g, x) = GetVertex(g, x)
      /\ \A g, x, y : Topo!EdgeOf(g, x, y) = EdgeOf(g, x, y)
      /\ \A g, x, y, w : Topo!AddEdge(g, x, y, w) = AddEdge(g, x, y, w)
      /\ \A g, x : Topo!DeleteMarkedTowards(g, x) = DeleteMarkedTowards(g, x)
      /\ \A g, x : Topo!DeleteMarkedFrom(g, x) = DeleteMarkedFrom(g, x)
  BY SameEdits
<1>2. Topo!AddNeighbor(r, s, n, etx) = AddNeighbor(r, s, n, etx)
  BY <1>1 DEF Topo!AddNeighbor, AddNeighbor
<1>3. Topo!DeleteUninformed(r, s) = DeleteUninformed(r, s)
  BY <1>1 DEF Topo!DeleteUninformed, DeleteUninformed
<1> QED BY <1>2, <1>3

\* As ReportedGraphIs, for the reports of Topology
LEMMA TopologyReportIs ==
    ASSUME NEW M, NEW E, Limits(M, E), NEW g0, Good(M, E, g0), NEW s \in Nodes,
           NEW list \in Seq(Nodes \ {s}), NEW metric \in [ToSet(list) -> M],
           NEW r, r = Topo!ReportedGraph(g0, s, list, metric)
    PROVE  Good(M, E, r.graph) /\ AsWell(g0, r.graph) /\ r.changed \in BOOLEAN
<1> DEFINE m == Len(list)
           S == Listing(M, E, g0, s)
           start == [graph |-> Topo!MarkUninformed(Topo!GetVertex(g0, s), s), changed |-> s \notin Topo!Vertices(g0)]
           Step(t, i) == Topo!AddNeighbor(t, s, list[i], metric[list[i]])
           Rec(g) == g = [i \in 0..m |-> IF i = 0 THEN start ELSE Step(g[i - 1], i)]
<1>1. m \in Nat /\ \A i \in 1..m : list[i] \in Nodes \ {s} /\ metric[list[i]] \in M
  BY ListedIs
<1>2. start \in S
  <2>1. PICK g2 : g2 = MarkUninformed(GetVertex(g0, s), s)
    OBVIOUS
  <2>2. start = [graph |-> g2, changed |-> s \notin Vertices(g0)]
    <3>1. Topo!GetVertex(g0, s) = GetVertex(g0, s) /\ Topo!Vertices(g0) = Vertices(g0)
      BY SameEdits
    <3>2. Topo!MarkUninformed(GetVertex(g0, s), s) = g2
      BY <2>1, SameEdits
    <3> QED BY <3>1, <3>2
  <2> HIDE DEF start, S
  <2> QED BY <2>1, <2>2, ReportBegins DEF S
<1>3. \A i \in 1..m : \A t \in S : Step(t, i) \in S
  <2> HIDE DEF m, S
  <2> QED BY <1>1, ReportGoesOn, SameListing DEF S
<1>4. PICK all : all = Topo!Folded(LAMBDA t, n : Topo!AddNeighbor(t, s, n, metric[n]), start, list)
  BY Zenon
<1>5. PICK g : /\ g \in [0..m -> S] /\ g[0] = start /\ all = g[m]
               /\ \A i \in 1..m : g[i] = Step(g[i - 1], i)
  <2> DEFINE f == [i \in 1..m |-> [t \in S |-> Step(t, i)]]
  <2>1. f \in [1..m -> [S -> S]]
    <3> HIDE DEF Step, m, S
    <3> QED BY <1>3
  <2>0. PICK g : Steps(m, S, start, f, g)
    <3>1. m \in Nat /\ start \in S /\ f \in [1..m -> [S -> S]]
      BY <1>1, <1>2, <2>1
    <3> HIDE DEF f, m, S, Step, Rec, start
    <3> QED BY <3>1, StepsExist
  <2>2. g \in [0..m -> S] /\ g[0] = start /\ \A i \in 1..m : g[i] = f[i][g[i - 1]]
    <3> HIDE DEF f, m, S, Step, Rec, start
    <3> QED BY <2>0 DEF Steps
  <2>3. \A i \in 1..m : g[i] = Step(g[i - 1], i)
    <3> SUFFICES ASSUME NEW i \in 1..m PROVE g[i] = Step(g[i - 1], i)
      OBVIOUS
    <3>1. i - 1 \in 0..m
      BY <1>1
    <3> HIDE DEF m, S, Step, start
    <3> QED BY <2>2, <3>1
  <2>4. Rec(g)
    <3>1. ASSUME NEW i \in 0..m PROVE g[i] = IF i = 0 THEN start ELSE Step(g[i - 1], i)
      <4>1. i = 0 \/ i \in 1..m
        BY <1>1
      <4> HIDE DEF m, S, Step, start
      <4> QED BY <2>2, <2>3, <4>1
    <3> HIDE DEF m, S, Step, start
    <3> QED BY <2>2, <3>1
  <2> DEFINE h == CHOOSE h : Rec(h)
  <2>5. all = h[m]
    BY <1>4 DEF Topo!Folded
  <2>6. Rec(h)
    <3> HIDE DEF Rec
    <3> QED BY <2>4
  <2> HIDE DEF h
  <2>7. \A i \in 0..m : h[i] = IF i = 0 THEN start ELSE Step(h[i - 1], i)
    <3> HIDE DEF Step, start, m
    <3> QED BY <2>6
  <2>8. h[0] = g[0] /\ \A i \in 1..m : h[i - 1] = g[i - 1] => h[i] = g[i]
    <3>1. 0 \in 0..m /\ \A i \in 1..m : i \in 0..m /\ i # 0
      BY <1>1
    <3> HIDE DEF Step, start, m, S
    <3> QED BY <2>2, <2>3, <2>7, <3>1
  <2>9. h[m] = g[m]
    <3>1. m \in Nat
      BY <1>1
    <3> HIDE DEF m, Step, S, start
    <3> QED BY <2>8, <3>1, SameSteps
  <2> QED BY <2>2, <2>3, <2>5, <2>9
<1>6. all \in S
  BY <1>1, <1>5
<1>7. r = Topo!DeleteUninformed(all, s)
  BY <1>4, Zenon DEF Topo!ReportedGraph
<1>8. r = DeleteUninformed(all, s)
  BY <1>7, SameListing
<1> QED BY <1>6, <1>8, ReportEnds

LEMMA SameCharge ==
    ASSUME NEW g, NEW s, NEW level
    PROVE  Topo!ChargedGraph(g, s, level) = ChargedGraph(g, s, level)
<1>1. \A h, n, e : Topo!UpdateEnergy(h, n, e) = UpdateEnergy(h, n, e)
  BY DEF Topo!UpdateEnergy, UpdateEnergy, Topo!HasEdge, HasEdge, Topo!WeightOf, WeightOf, Topo!Lower, Lower,
         Topo!MaxEtx, MaxEtx, Topo!MaxWeight, MaxWeight, Topo!LowBattery, LowBattery
<1>2. Topo!GetVertex(g, s) = GetVertex(g, s) /\ Topo!Vertices(g) = Vertices(g)
  BY SameEdits
<1> QED BY <1>1, <1>2 DEF Topo!ChargedGraph, ChargedGraph

LEMMA SameStart ==
    ASSUME NEW n
    PROVE  Topo!GetVertex(Topo!EmptyGraph, n) = GetVertex(EmptyGraph, n)
  BY DEF Topo!GetVertex, GetVertex, Topo!WithVertex, WithVertex, Topo!Vertices, Vertices, Topo!ToSet, ToSet,
         Topo!Behind, Behind, Topo!MaxBattery, MaxBattery, Topo!EmptyGraph, EmptyGraph

LEMMA SameGraph ==
    ASSUME NEW g, NEW n, NEW x, NEW y, NEW etx
    PROVE  /\ Paths!GetVertex(g, n) = GetVertex(g, n)
           /\ Paths!AddEdge(g, x, y, etx) = AddEdge(g, x, y, etx)
           /\ Paths!DeleteEdge(g, x, y) = DeleteEdge(g, x, y)
           /\ Paths!DeleteVertex(g, n) = DeleteVertex(g, n)
           /\ Paths!ShortestPath(g, x, y).graph = ShortestPath(g, x, y).graph
<1>1. Paths!GetVertex(g, n) = GetVertex(g, n)
  BY DEF Paths!GetVertex, GetVertex, Paths!WithVertex, WithVertex, Paths!Vertices, Vertices, Paths!ToSet, ToSet,
         Paths!Behind, Behind, Paths!MaxBattery, MaxBattery
<1>2. Paths!AddEdge(g, x, y, etx) = AddEdge(g, x, y, etx)
  BY DEF Paths!AddEdge, AddEdge, Paths!HasEdge, HasEdge, Paths!EditEdges, EditEdges, Paths!Behind, Behind,
         Paths!WeightOf, WeightOf, Paths!Lower, Lower, Paths!MaxEtx, MaxEtx, Paths!MaxWeight, MaxWeight,
         Paths!LowBattery, LowBattery, Paths!MaxBattery, MaxBattery
<1>3. Paths!DeleteEdge(g, x, y) = DeleteEdge(g, x, y)
  BY DEF Paths!DeleteEdge, DeleteEdge, Paths!Drop, Drop, Paths!Among, Among
<1>4. Paths!DeleteVertex(g, n) = DeleteVertex(g, n)
  BY DEF Paths!DeleteVertex, DeleteVertex, Paths!DeleteEdgesTo, DeleteEdgesTo,
         Paths!DeleteEdgesFrom, DeleteEdgesFrom, Paths!Drop, Drop, Paths!Among, Among
<1>5. Paths!ShortestPath(g, x, y).graph = ShortestPath(g, x, y).graph
  BY DEF Paths!ShortestPath, ShortestPath, Paths!GetVertex, GetVertex, Paths!WithVertex, WithVertex,
         Paths!Vertices, Vertices, Paths!ToSet, ToSet, Paths!Behind, Behind, Paths!MaxBattery, MaxBattery
<1> QED BY <1>1, <1>2, <1>3, <1>4, <1>5

\* What the predicates of these proofs say in the words of the model
LEMMA GoodIsSound ==
    ASSUME NEW M, NEW E, NEW g, Good(M, E, g)
    PROVE  /\ SoundGraph(g) /\ Topo!SoundGraph(g) /\ Paths!SoundGraph(g)
           /\ Fresh(g) => Topo!CurrentWeights(g)
<1>1. \A n \in Nodes : /\ DOMAIN g.out[n] = 1..Len(g.out[n]) /\ Len(g.out[n]) \in Nat
                       /\ \A i \in DOMAIN g.out[n] : g.out[n][i] \in Held(g.out[n])
  <2> SUFFICES ASSUME NEW n \in Nodes
               PROVE  /\ DOMAIN g.out[n] = 1..Len(g.out[n]) /\ Len(g.out[n]) \in Nat
                      /\ \A i \in DOMAIN g.out[n] : g.out[n][i] \in Held(g.out[n])
    OBVIOUS
  <2> DEFINE T == Edges(M)
  <2>1. PICK l : l = g.out[n]
    OBVIOUS
  <2>2. l \in Seq(T) /\ \A i \in 1..Len(l) : l[i] \in Held(l)
    BY <2>1, GoodAt
  <2> HIDE DEF T
  <2>3. DOMAIN l = 1..Len(l) /\ Len(l) \in Nat
    BY <2>2
  <2> QED BY <2>1, <2>2, <2>3
<1>2. \A n \in Nodes : g.out[n] # <<>> => n \in Vertices(g)
  <2> SUFFICES ASSUME NEW n \in Nodes, g.out[n] # <<>> PROVE n \in Vertices(g)
    OBVIOUS
  <2> DEFINE T == Edges(M)
  <2>1. PICK l : l = g.out[n]
    OBVIOUS
  <2>2. l \in Seq(T) /\ l # <<>> /\ Len(l) \in Nat /\ \A i \in 1..Len(l) : l[i] \in Held(l)
    BY <2>1, GoodAt
  <2> HIDE DEF T
  <2>3. 1 \in 1..Len(l)
    BY <2>2
  <2>4. l[1] \in Held(l)
    BY <2>2, <2>3
  <2> QED BY <2>1, <2>4, GoodAt
<1>3. \A n \in Nodes : \A i \in DOMAIN g.out[n] : g.out[n][i].to \in Vertices(g) \ {n}
  <2> SUFFICES ASSUME NEW n \in Nodes, NEW i \in DOMAIN g.out[n] PROVE g.out[n][i].to \in Vertices(g) \ {n}
    OBVIOUS
  <2>1. g.out[n][i] \in Held(g.out[n])
    BY <1>1
  <2> QED BY <2>1, GoodAt
<1>4. \A n \in Nodes : \A i, j \in DOMAIN g.out[n] : g.out[n][i].to = g.out[n][j].to => i = j
  <2> SUFFICES ASSUME NEW n \in Nodes PROVE \A i, j \in DOMAIN g.out[n] : g.out[n][i].to = g.out[n][j].to => i = j
    OBVIOUS
  <2>1. EdgeList(M, g.out[n])
    BY GoodAt
  <2>2. \A i, j \in 1..Len(g.out[n]) : g.out[n][i].to = g.out[n][j].to => i = j
    BY <2>1 DEF EdgeList
  <2> QED BY <1>1, <2>2
<1>5. Unrepeated(g.order)
  BY DEF Good
<1>6. SoundGraph(g)
  BY <1>2, <1>3, <1>4, <1>5 DEF SoundGraph
<1>7. Fresh(g) => CurrentWeights(g)
  <2> SUFFICES ASSUME Fresh(g), NEW n \in Nodes, NEW i \in DOMAIN g.out[n]
               PROVE  g.out[n][i].weight
                          = WeightOf(Lower(g.energy[n], g.energy[g.out[n][i].to]), g.out[n][i].etx)
    BY DEF CurrentWeights
  <2>1. g.out[n][i] \in Held(g.out[n])
    BY <1>1
  <2> QED BY <2>1 DEF Fresh
<1>8. Topo!SoundGraph(g) /\ Paths!SoundGraph(g)
  BY <1>6 DEF SoundGraph, Unrepeated, Vertices, ToSet, Topo!SoundGraph, Topo!Unrepeated, Topo!Vertices, Topo!ToSet,
              Paths!SoundGraph, Paths!Unrepeated, Paths!Vertices, Paths!ToSet
<1>9. Fresh(g) => Topo!CurrentWeights(g)
  BY <1>7 DEF CurrentWeights, WeightOf, Lower, MaxEtx, MaxWeight, LowBattery, Topo!CurrentWeights,
              Topo!WeightOf, Topo!Lower, Topo!MaxEtx, Topo!MaxWeight, Topo!LowBattery
<1> QED BY <1>6, <1>8, <1>9

LEMMA ScenarioConstants ==
    /\ Own \in Nodes /\ Reporters \subseteq Nodes /\ Listed \subseteq Nodes /\ Chargers \subseteq Nodes
    /\ IsFiniteSet(Listed) /\ Both /\ Limits(Informed, Energies \union {MaxBattery})
    /\ \A l \in Links : l[1] \in Nodes /\ l[2] \in Nodes /\ l[1] # l[2]
    /\ Present \subseteq Nodes /\ IsFiniteSet(Present) /\ Limits(Weighed, {MaxBattery})
<1>1. /\ Own \in Nodes /\ {Reporters, Listed, Chargers} \subseteq SUBSET Nodes /\ Topo!IsFiniteSet(Listed)
      /\ Informed \subseteq 0..Topo!MaxEtx /\ Energies \subseteq 0..Topo!MaxBattery
      /\ SrcToNeighbors /\ NeighborsToSrc
  BY GraphAssumption, Zenon DEF Topo!TopologyAssumption
<1>2. Own \in Nodes /\ Reporters \subseteq Nodes /\ Listed \subseteq Nodes /\ Chargers \subseteq Nodes
  BY <1>1
<1>3. IsFiniteSet(Listed) /\ Both
  BY <1>1, Zenon DEF Topo!IsFiniteSet, IsFiniteSet, Both
<1>4. Limits(Informed, Energies \union {MaxBattery})
  <2>1. Topo!MaxEtx = MaxEtx /\ Topo!MaxBattery = MaxBattery /\ MaxBattery \in 0..MaxBattery
    BY DEF MaxEtx, MaxBattery, Topo!MaxEtx, Topo!MaxBattery
  <2> QED BY <1>1, <2>1 DEF Limits
<1>5. /\ Links \subseteq Nodes \X Nodes /\ \A l \in Links : l[1] # l[2]
      /\ Weighed \subseteq 0..Paths!MaxEtx
      /\ Own \in Nodes /\ {Present, Removed} \subseteq SUBSET Nodes
      /\ Paths!IsFiniteSet(Nodes)
  BY SearchAssumption, Zenon DEF Paths!DijkstraAssumption
<1>6. \A l \in Links : l[1] \in Nodes /\ l[2] \in Nodes /\ l[1] # l[2]
  BY <1>5
<1>7. IsFiniteSet(Nodes) /\ Present \subseteq Nodes
  BY <1>5, Zenon DEF Paths!IsFiniteSet, IsFiniteSet
<1>8. IsFiniteSet(Present)
  BY <1>7, FS_Subset
<1>9. Limits(Weighed, {MaxBattery})
  <2>1. Paths!MaxEtx = MaxEtx /\ MaxBattery \in 0..MaxBattery
    BY DEF MaxEtx, MaxBattery, Paths!MaxEtx
  <2> QED BY <1>5, <2>1 DEF Limits
<1> QED BY <1>2, <1>3, <1>4, <1>6, <1>7, <1>8, <1>9

\* The graph before anything is known
LEMMA EmptyIsGood ==
    ASSUME NEW M, NEW E, MaxBattery \in E
    PROVE  Good(M, E, EmptyGraph) /\ Fresh(EmptyGraph) /\ Balanced(EmptyGraph) /\ Vertices(EmptyGraph) = {}
<1> DEFINE T == Edges(M)
<1>1. PICK empty : empty = <<>>
  OBVIOUS
<1>2. empty \in Seq(Nodes) /\ empty \in Seq(T) /\ Len(empty) = 0 /\ DOMAIN empty = {}
  BY <1>1
<1>3. PICK g : g = EmptyGraph
  OBVIOUS
<1>4. g = [order |-> empty, energy |-> [n \in Nodes |-> MaxBattery], out |-> [n \in Nodes |-> empty]]
  BY <1>1, <1>3 DEF EmptyGraph
<1>5. Held(empty) = {} /\ EdgeList(M, empty)
  BY <1>2 DEF Held, EdgeList
<1>6. \A n \in Nodes : g.out[n] = empty
  BY <1>4
<1>7. g \in [order : Seq(Nodes), energy : [Nodes -> E], out : [Nodes -> Seq(T)]]
  <2> HIDE DEF T
  <2> QED BY <1>2, <1>4
<1>8. \A n \in Nodes : JoinsAt(M, Vertices(g), n, g.out[n])
  BY <1>5, <1>6 DEF JoinsAt
<1>9. g.order = empty /\ Unrepeated(empty) /\ Vertices(g) = {}
  BY <1>2, <1>4 DEF Unrepeated, Vertices, ToSet
<1>10. Good(M, E, g)
  BY <1>7, <1>8, <1>9 DEF Good
<1>11. Fresh(g) /\ Balanced(g)
  BY <1>5, <1>6 DEF Fresh, Balanced, Link, Dying
<1> QED BY <1>3, <1>9, <1>10, <1>11

-----------------------------------------------------------------------------
(* Reports *)

\* The graph is well formed, no weight is stale, and links are there in both directions.
ReportedSound ==
    /\ Good(Informed, Energies \union {MaxBattery}, graph) /\ Fresh(graph) /\ Balanced(graph)
    /\ news \in BOOLEAN /\ told.from \in Nodes

LEMMA ReportsBegin == Topo!Init => ReportedSound
<1> SUFFICES ASSUME Topo!Init PROVE ReportedSound
  OBVIOUS
<1> DEFINE E == Energies \union {MaxBattery}
<1>1. graph = GetVertex(EmptyGraph, Own) /\ news = FALSE /\ told.from = Own
  BY SameStart DEF Topo!Init
<1>2. Good(Informed, E, EmptyGraph) /\ Fresh(EmptyGraph) /\ Balanced(EmptyGraph)
  BY EmptyIsGood
<1>3. Good(Informed, E, graph) /\ AsWell(EmptyGraph, graph)
  <2> HIDE DEF E
  <2> QED BY <1>1, <1>2, ScenarioConstants, GetVertexKeeps DEF E
<1> QED BY <1>1, <1>2, <1>3, ScenarioConstants DEF ReportedSound, AsWell

\* A report lists other nodes.
LEMMA ListsAreOthers ==
    ASSUME NEW s \in Nodes, NEW list \in Topo!Lists(s)
    PROVE  list \in Seq(Nodes \ {s})
<1>1. PICK nbrs \in SUBSET (Listed \ {s}) : list \in Topo!SetToSeqs(nbrs)
  BY DEF Topo!Lists
<1>2. IsFiniteSet(nbrs) /\ nbrs \subseteq Nodes \ {s}
  BY ScenarioConstants, FS_Subset
<1>3. Cardinality(nbrs) \in Nat
  BY <1>2, FS_CardinalityType
<1>4. Topo!Cardinality(nbrs) = Cardinality(nbrs)
  BY DEF Topo!Cardinality, Cardinality
<1>5. list \in [1..Cardinality(nbrs) -> nbrs]
  BY <1>1, <1>4 DEF Topo!SetToSeqs
<1> QED BY <1>2, <1>3, <1>5

LEMMA ReportKeeps ==
    ASSUME ReportedSound, NEW s \in Reporters, NEW list \in Topo!Lists(s), NEW metric \in [ToSet(list) -> Informed],
           Topo!NeighborReport(s, list, metric)
    PROVE  ReportedSound'
<1> DEFINE E == Energies \union {MaxBattery}
<1>1. Good(Informed, E, graph) /\ Fresh(graph) /\ Balanced(graph) /\ Both /\ s \in Nodes /\ Limits(Informed, E)
  BY ScenarioConstants DEF ReportedSound
<1>2. PICK r : r = Topo!ReportedGraph(graph, s, list, metric)
  OBVIOUS
<1>3. graph' = r.graph /\ news' = r.changed /\ told'.from = s
  BY <1>2 DEF Topo!NeighborReport
<1>4. Good(Informed, E, r.graph) /\ AsWell(graph, r.graph) /\ r.changed \in BOOLEAN
  <2>1. list \in Seq(Nodes \ {s})
    BY <1>1, ListsAreOthers
  <2> HIDE DEF E
  <2> QED BY <1>1, <1>2, <2>1, TopologyReportIs
<1>5. Good(Informed, E, graph') /\ Fresh(graph') /\ Balanced(graph') /\ news' \in BOOLEAN /\ told'.from \in Nodes
  <2> HIDE DEF E
  <2> QED BY <1>1, <1>3, <1>4 DEF AsWell
<1> QED BY <1>5 DEF ReportedSound

LEMMA ChargeKeeps ==
    ASSUME ReportedSound, NEW s \in Chargers, NEW level \in Energies, Topo!EnergyReport(s, level)
    PROVE  ReportedSound'
<1> DEFINE E == Energies \union {MaxBattery}
<1>1. /\ Good(Informed, E, graph) /\ Fresh(graph) /\ Balanced(graph) /\ Both /\ s \in Nodes /\ level \in E
      /\ Limits(Informed, E)
  BY ScenarioConstants DEF ReportedSound
<1>2. PICK r : r = ChargedGraph(graph, s, level)
  OBVIOUS
<1>3. graph' = r.graph /\ news' = r.changed /\ told'.from = s
  BY <1>2, SameCharge DEF Topo!EnergyReport
<1>4. /\ Good(Informed, E, r.graph) /\ r.changed \in BOOLEAN
      /\ Both /\ Fresh(graph) /\ Balanced(graph) => Fresh(r.graph) /\ Balanced(r.graph)
  <2> HIDE DEF E
  <2> QED BY <1>1, <1>2, ChargedGraphIs
<1>5. Good(Informed, E, graph') /\ Fresh(graph') /\ Balanced(graph') /\ news' \in BOOLEAN /\ told'.from \in Nodes
  <2> HIDE DEF E
  <2> QED BY <1>1, <1>3, <1>4
<1> QED BY <1>5 DEF ReportedSound

LEMMA ReportsMoveOn == ReportedSound /\ Topo!Next => ReportedSound'
<1> SUFFICES ASSUME ReportedSound, Topo!Next PROVE ReportedSound'
  OBVIOUS
<1>1. CASE \E s \in Reporters : \E list \in Topo!Lists(s) :
              \E metric \in [Topo!ToSet(list) -> Informed] : Topo!NeighborReport(s, list, metric)
  <2>0. PICK s \in Reporters : \E list \in Topo!Lists(s) :
              \E metric \in [Topo!ToSet(list) -> Informed] : Topo!NeighborReport(s, list, metric)
    BY <1>1
  <2>1. PICK list \in Topo!Lists(s) :
              \E metric \in [Topo!ToSet(list) -> Informed] : Topo!NeighborReport(s, list, metric)
    BY <2>0
  <2>2. Topo!ToSet(list) = ToSet(list)
    BY DEF Topo!ToSet, ToSet
  <2>3. PICK metric \in [ToSet(list) -> Informed] : Topo!NeighborReport(s, list, metric)
    BY <2>1, <2>2
  <2> QED BY <2>3, ReportKeeps
<1>2. CASE \E s \in Chargers, level \in Energies : Topo!EnergyReport(s, level)
  BY <1>2, ChargeKeeps
<1> QED BY <1>1, <1>2 DEF Topo!Next

-----------------------------------------------------------------------------
(* Routes *)

NetSound == Good(Weighed, {MaxBattery}, net)

LEMMA RoutesBegin == Paths!Init => NetSound
<1> SUFFICES ASSUME Paths!Init PROVE NetSound
  OBVIOUS
<1>0. PICK l : l = Paths!SetToSeq(Present)
  OBVIOUS
<1> DEFINE m == Len(l)
           S == GraphSet(Weighed, {MaxBattery})
           start == Paths!EmptyGraph
           Step(t, i) == Paths!GetVertex(t, l[i])
           Rec(g) == g = [i \in 0..m |-> IF i = 0 THEN start ELSE Step(g[i - 1], i)]
<1>1. m \in Nat /\ \A i \in 1..m : l[i] \in Nodes
  <2>1. Cardinality(Present) \in Nat /\ ExistsBijection(1..Cardinality(Present), Present)
    BY ScenarioConstants, FS_CardinalityType
  <2>2. \E f \in [1..Cardinality(Present) -> Present] : IsInjective(f)
    BY <2>1 DEF ExistsBijection, Bijection, Injection, IsInjective
  <2>5. Paths!Cardinality(Present) = Cardinality(Present) /\ \A f : Paths!IsInjective(f) <=> IsInjective(f)
    BY DEF Paths!Cardinality, Cardinality, Paths!IsInjective, IsInjective
  <2>3. l \in [1..Cardinality(Present) -> Present]
    BY <1>0, <2>2, <2>5 DEF Paths!SetToSeq
  <2>4. Len(l) \in Nat /\ \A i \in 1..Len(l) : l[i] \in Present
    BY <2>1, <2>3
  <2> QED BY <2>4, ScenarioConstants
<1>2. start \in S
  <2>1. start = EmptyGraph
    BY DEF Paths!EmptyGraph, EmptyGraph, Paths!MaxBattery, MaxBattery
  <2>2. Good(Weighed, {MaxBattery}, EmptyGraph)
    BY EmptyIsGood
  <2> QED BY <2>1, <2>2 DEF GraphSet, Good
<1>3. \A i \in 1..m : \A t \in S : Step(t, i) \in S
  <2> SUFFICES ASSUME NEW i \in 1..m, NEW t \in S PROVE Step(t, i) \in S
    OBVIOUS
  <2>1. PICK n, h : n = l[i] /\ h = GetVertex(t, n)
    OBVIOUS
  <2>2. n \in Nodes
    BY <1>1, <2>1
  <2>3. Good(Weighed, {MaxBattery}, t)
    BY DEF GraphSet
  <2>4. Good(Weighed, {MaxBattery}, h)
    BY <2>1, <2>2, <2>3, ScenarioConstants, GetVertexKeeps
  <2>5. h \in S
    BY <2>4 DEF GraphSet, Good
  <2>6. Step(t, i) = h
    BY <2>1, SameGraph
  <2> QED BY <2>5, <2>6
<1>4. PICK g : /\ g \in [0..m -> S] /\ g[0] = start /\ net = g[m]
               /\ \A i \in 1..m : g[i] = Step(g[i - 1], i)
  <2> DEFINE f == [i \in 1..m |-> [t \in S |-> Step(t, i)]]
  <2>1. f \in [1..m -> [S -> S]]
    <3> HIDE DEF Step, m, S
    <3> QED BY <1>3
  <2>0. PICK g : Steps(m, S, start, f, g)
    <3>1. m \in Nat /\ start \in S /\ f \in [1..m -> [S -> S]]
      BY <1>1, <1>2, <2>1
    <3> HIDE DEF f, m, S, Step, Rec, start
    <3> QED BY <3>1, StepsExist
  <2>2. g \in [0..m -> S] /\ g[0] = start /\ \A i \in 1..m : g[i] = f[i][g[i - 1]]
    <3> HIDE DEF f, m, S, Step, Rec, start
    <3> QED BY <2>0 DEF Steps
  <2>3. \A i \in 1..m : g[i] = Step(g[i - 1], i)
    <3> SUFFICES ASSUME NEW i \in 1..m PROVE g[i] = Step(g[i - 1], i)
      OBVIOUS
    <3>1. i - 1 \in 0..m
      BY <1>1
    <3> HIDE DEF m, S, Step, start
    <3> QED BY <2>2, <3>1
  <2>4. Rec(g)
    <3>1. ASSUME NEW i \in 0..m PROVE g[i] = IF i = 0 THEN start ELSE Step(g[i - 1], i)
      <4>1. i = 0 \/ i \in 1..m
        BY <1>1
      <4> HIDE DEF m, S, Step, start
      <4> QED BY <2>2, <2>3, <4>1
    <3> HIDE DEF m, S, Step, start
    <3> QED BY <2>2, <3>1
  <2> DEFINE h == CHOOSE h : Rec(h)
  <2>5. net = h[m]
    BY <1>0 DEF Paths!Init, Paths!Folded
  <2>6. Rec(h)
    <3> HIDE DEF Rec
    <3> QED BY <2>4
  <2> HIDE DEF h
  <2>7. \A i \in 0..m : h[i] = IF i = 0 THEN start ELSE Step(h[i - 1], i)
    <3> HIDE DEF Step, start, m
    <3> QED BY <2>6
  <2>8. h[0] = g[0] /\ \A i \in 1..m : h[i - 1] = g[i - 1] => h[i] = g[i]
    <3>1. 0 \in 0..m /\ \A i \in 1..m : i \in 0..m /\ i # 0
      BY <1>1
    <3> HIDE DEF Step, start, m, S
    <3> QED BY <2>2, <2>3, <2>7, <3>1
  <2>9. h[m] = g[m]
    <3>1. m \in Nat
      BY <1>1
    <3> HIDE DEF m, Step, S, start
    <3> QED BY <2>8, <3>1, SameSteps
  <2> QED BY <2>2, <2>3, <2>5, <2>9
<1>5. net \in S
  <2>1. m \in 0..m
    BY <1>1
  <2> HIDE DEF S, m, Step
  <2> QED BY <1>4, <2>1
<1> QED BY <1>5 DEF GraphSet, NetSound

LEMMA RoutesMoveOn == NetSound /\ Paths!Next => NetSound'
<1> SUFFICES ASSUME NetSound, Paths!Next PROVE NetSound'
  OBVIOUS
<1> DEFINE E == {MaxBattery}
<1>1. Good(Weighed, E, net) /\ Limits(Weighed, E)
  BY ScenarioConstants DEF NetSound
<1> SUFFICES Good(Weighed, E, net')
  BY DEF NetSound
<1> HIDE DEF E
<1>2. ASSUME NEW l \in Links, Paths!Disconnect(l) PROVE Good(Weighed, E, net')
  <2>1. net' = DeleteEdge(net, l[1], l[2])
    BY <1>2, SameGraph DEF Paths!Disconnect
  <2>2. l[1] \in Nodes
    BY ScenarioConstants
  <2>3. Recut(Weighed, E, net, net')
    BY <1>1, <2>1, <2>2, DeleteEdgeIs
  <2> QED BY <2>3 DEF Recut, Kept
<1>3. ASSUME NEW l \in Links, NEW etx \in Weighed, Paths!Connect(l, etx) PROVE Good(Weighed, E, net')
  <2>1. PICK g1, g2 : g1 = GetVertex(net, l[1]) /\ g2 = GetVertex(g1, l[2])
    OBVIOUS
  <2>2. net' = AddEdge(g2, l[1], l[2], etx)
    BY <1>3, <2>1, SameGraph DEF Paths!Connect
  <2>3. l[1] \in Nodes /\ l[2] \in Nodes /\ l[1] # l[2]
    BY ScenarioConstants
  <2>4. Good(Weighed, E, g1) /\ l[1] \in Vertices(g1)
    BY <1>1, <2>1, <2>3, GetVertexKeeps
  <2>5. Good(Weighed, E, g2) /\ l[1] \in Vertices(g2) /\ l[2] \in Vertices(g2)
    BY <1>1, <2>1, <2>3, <2>4, GetVertexKeeps
  <2>6. Recut(Weighed, E, g2, net')
    BY <1>1, <2>2, <2>3, <2>5, AddEdgeIs
  <2> QED BY <2>6 DEF Recut, Kept
<1>4. ASSUME NEW n \in Removed, Paths!RemoveVertex(n) PROVE Good(Weighed, E, net')
  <2>1. net' = DeleteVertex(net, n) /\ n \in Vertices(net)
    BY <1>4, SameGraph DEF Paths!RemoveVertex, Paths!Vertices, Vertices, Paths!ToSet, ToSet
  <2> QED BY <1>1, <2>1, DeleteVertexIs
<1>5. ASSUME NEW to \in Nodes, Paths!FindRoute(to) PROVE Good(Weighed, E, net')
  <2>1. net' = ShortestPath(net, Own, to).graph
    BY <1>5, SameGraph DEF Paths!FindRoute
  <2>2. PICK g1, g2 : g1 = GetVertex(net, Own) /\ g2 = GetVertex(g1, to)
    OBVIOUS
  <2>3. net' = g2
    BY <2>1, <2>2 DEF ShortestPath
  <2>4. Good(Weighed, E, g1)
    BY <1>1, <2>2, ScenarioConstants, GetVertexKeeps
  <2> QED BY <1>1, <2>2, <2>3, <2>4, GetVertexKeeps
<1> QED BY <1>2, <1>3, <1>4, <1>5 DEF Paths!Next

-----------------------------------------------------------------------------
\* digraph.c, sdn-process-packets-controller.c: whatever nodes report, in any order,
\* with any metrics and energies, and whatever edges and vertices come and go, edges
\* join vertices, a vertex has one edge to another, no list of vertices has one
\* twice, and no weight is stale.  Deleting a vertex leaves no edge to it.
THEOREM GraphStaysSound == AnySpec => []GraphKept
<1> DEFINE Inv == ReportedSound /\ NetSound
<1>1. AnyInit => Inv
  BY ReportsBegin, RoutesBegin DEF AnyInit
<1>2. Inv /\ [AnyNext]_<<scenario, ctl, graph, news, told, net, target, route>> => Inv'
  <2> SUFFICES ASSUME Inv, [AnyNext]_<<scenario, ctl, graph, news, told, net, target, route>> PROVE Inv'
    OBVIOUS
  <2>1. CASE ReportsMove /\ Topo!Next
    <3>1. ReportedSound'
      BY <2>1, ReportsMoveOn
    <3>2. net' = net
      BY <2>1 DEF ReportsMove
    <3> QED BY <3>1, <3>2 DEF NetSound
  <2>2. CASE RoutesMove /\ Paths!Next
    <3>1. NetSound'
      BY <2>2, RoutesMoveOn
    <3>2. graph' = graph /\ news' = news /\ told' = told
      BY <2>2 DEF RoutesMove
    <3> QED BY <3>1, <3>2 DEF ReportedSound
  <2>3. CASE UNCHANGED <<graph, news, told, net>>
    BY <2>3 DEF ReportedSound, NetSound
  <2> QED BY <2>1, <2>2, <2>3 DEF AnyNext, ControllerMoves
<1>3. Inv => GraphKept
  <2> SUFFICES ASSUME Inv PROVE GraphKept
    OBVIOUS
  <2> DEFINE E == Energies \union {MaxBattery}
  <2>1. Good(Informed, E, graph) /\ Fresh(graph) /\ news \in BOOLEAN /\ told.from \in Nodes
    BY DEF ReportedSound
  <2>2. Topo!EdgesSound /\ Topo!WeightsCurrent
    <3> HIDE DEF E
    <3> QED BY <2>1, GoodIsSound DEF Topo!EdgesSound, Topo!WeightsCurrent
  <2>3. Paths!GraphSound
    BY GoodIsSound DEF NetSound, Paths!GraphSound
  <2>4. Vertices(graph) \subseteq Nodes /\ graph.energy \in [Nodes -> E]
    <3> HIDE DEF E
    <3> QED BY <2>1, GoodParts
  <2>5. \A n \in Nodes : \A i \in DOMAIN graph.out[n] : graph.out[n][i] \in Topo!Edge
    <3> SUFFICES ASSUME NEW n \in Nodes PROVE \A i \in DOMAIN graph.out[n] : graph.out[n][i] \in Topo!Edge
      OBVIOUS
    <3> DEFINE T == Edges(Informed)
    <3>1. graph.out[n] \in Seq(T)
      BY <2>1, GoodAt
    <3>2. T = Topo!Edge
      BY DEF Edges, EdgeStatuses, MaxWeight, Topo!Edge, Topo!EdgeStatuses, Topo!MaxWeight
    <3> HIDE DEF T
    <3> QED BY <3>1, <3>2
  <2>6. Topo!TypeOK
    BY <2>1, <2>4, <2>5 DEF Topo!TypeOK, Topo!Vertices, Topo!ToSet, Vertices, ToSet, MaxBattery, Topo!MaxBattery
  <2> QED BY <2>2, <2>3, <2>6 DEF GraphKept
<1> HIDE DEF Inv
<1> QED BY <1>1, <1>2, <1>3, PTL DEF AnySpec

-----------------------------------------------------------------------------
(* The routes that are looked for *)

\* A search and the reference, as the instance has them
LEMMA SameSearch ==
    ASSUME NEW g, NEW x, NEW y
    PROVE  /\ Paths!ShortestPath(g, x, y) = ShortestPath(g, x, y)
           /\ Paths!Distances(g, x) = Distances(g, x)
           /\ Paths!Infinite = Infinite
<1>1. Paths!Infinite = Infinite
  BY DEF Paths!Infinite, Infinite, Paths!MaxWeight, MaxWeight, Paths!Cardinality, Cardinality
<1>2. \A h : Paths!Explored(h, x) = Explored(h, x)
  BY DEF Paths!Explored, Explored, Paths!StartSearch, StartSearch, Paths!Visit, Visit, Paths!Folded, Folded,
         Paths!Relax, Relax, Paths!Push, Push, Paths!SelectInSeq, SelectInSeq, Paths!InsertAt, InsertAt,
         Paths!Cardinality, Cardinality
<1>3. \A s : Paths!RouteIn(s, y) = RouteIn(s, y)
  BY DEF Paths!RouteIn, RouteIn, Paths!Traced, Traced, Paths!Cardinality, Cardinality
<1>4. \A h, n : Paths!GetVertex(h, n) = GetVertex(h, n)
  BY SameGraph
<1>5. Paths!ShortestPath(g, x, y) = ShortestPath(g, x, y)
  BY <1>2, <1>3, <1>4 DEF Paths!ShortestPath, ShortestPath
<1>6. Paths!Distances(g, x) = Distances(g, x)
  BY <1>1 DEF Paths!Distances, Distances, Paths!Folded, Folded, Paths!Closer, Closer, Paths!LowestOf, LowestOf,
         Paths!HasEdge, HasEdge, Paths!EdgeOf, EdgeOf, Paths!Cardinality, Cardinality,
         Paths!Infinite, Infinite, Paths!MaxWeight, MaxWeight
<1> QED BY <1>1, <1>5, <1>6

\* There is no route, or one that was looked for and found in the graph as it is.
RoutesFound ==
    \/ target = NoNode /\ route = <<>>
    \/ target # NoNode /\ target \in Nodes /\ Routed(net, Own, target, route)

LEMMA RoutesFoundOn == NetSound /\ RoutesFound /\ Paths!Next => RoutesFound'
<1> SUFFICES ASSUME NetSound, RoutesFound, Paths!Next PROVE RoutesFound'
  OBVIOUS
<1> DEFINE E == {MaxBattery}
<1>1. Good(Weighed, E, net) /\ Limits(Weighed, E) /\ Own \in Nodes
  BY ScenarioConstants DEF NetSound
<1> HIDE DEF E
<1>2. CASE Paths!NoRoute
  BY <1>2 DEF Paths!NoRoute, RoutesFound
<1>3. ASSUME NEW to \in Nodes, Paths!FindRoute(to) PROVE RoutesFound'
  <2>1. PICK r : r = ShortestPath(net, Own, to)
    OBVIOUS
  <2>2. net' = r.graph /\ target' = to /\ route' = r.route
    BY <1>3, <2>1, SameSearch DEF Paths!FindRoute
  <2>3. Routed(r.graph, Own, to, r.route)
    BY <1>1, <2>1, SearchFinds
  <2>4. to # NoNode
    BY NodesAssumption
  <2> QED BY <2>2, <2>3, <2>4 DEF RoutesFound
<1>4. Paths!NoRoute \/ \E n \in Nodes : Paths!FindRoute(n)
  BY DEF Paths!Next, Paths!Disconnect, Paths!Connect, Paths!RemoveVertex
<1> QED BY <1>2, <1>3, <1>4

\* What the route is, in the words of the model
LEMMA RoutedIsSound == NetSound /\ RoutesFound => RouteSound
<1> SUFFICES ASSUME NetSound, RoutesFound PROVE RouteSound
  OBVIOUS
<1>1. Paths!FoundIfReachable
  <2>1. Paths!Distances(net, Own) = Distances(net, Own) /\ Paths!Infinite = Infinite
    BY SameSearch
  <2>2. target # NoNode => (route # <<>> <=> Distances(net, Own)[target] < Infinite /\ target # Own) /\ target \in Nodes
    BY DEF RoutesFound, Routed
  <2> QED BY <2>1, <2>2 DEF Paths!FoundIfReachable, Paths!Reachable
<1>2. ASSUME route # <<>>
      PROVE  /\ target # NoNode /\ target \in Nodes /\ PathBack(net, Own, target, route) /\ DOMAIN route = 1..Len(route)
             /\ \A w \in 1..MaxWeight : Even(net, w) => route[1].weight = Distances(net, Own)[target]
  <2>1. target # NoNode /\ target \in Nodes /\ Routed(net, Own, target, route)
    BY <1>2 DEF RoutesFound
  <2>2. PathBack(net, Own, target, route)
    BY <1>2, <2>1 DEF Routed
  <2>3. DOMAIN route = 1..Len(route)
    <3> DEFINE H == Hops
    <3>1. route \in Seq(H)
      BY <2>2 DEF PathBack
    <3> HIDE DEF H
    <3> QED BY <3>1
  <2> QED BY <1>2, <2>1, <2>2, <2>3 DEF Routed
<1>3. Paths!RouteIsPath
  <2> SUFFICES ASSUME route # <<>>
               PROVE  /\ route[1].node = target /\ route[Len(route)].node = Own
                      /\ Paths!Unrepeated([i \in DOMAIN route |-> route[i].node])
                      /\ \A i \in 1..(Len(route) - 1) :
                            /\ Paths!HasEdge(net, route[i + 1].node, route[i].node)
                            /\ route[i + 1].hops = route[i].hops + 1
                            /\ route[i + 1].weight = (IF i = 1 THEN 0 ELSE route[i].weight)
                                                     + Paths!EdgeOf(net, route[i + 1].node, route[i].node).weight
                      /\ route[1].weight = route[Len(route)].weight
    BY DEF Paths!RouteIsPath
  <2>1. PathBack(net, Own, target, route) /\ DOMAIN route = 1..Len(route)
    BY <1>2
  <2>2. ASSUME NEW i \in 1..(Len(route) - 1)
        PROVE  /\ Paths!HasEdge(net, route[i + 1].node, route[i].node)
               /\ route[i + 1].hops = route[i].hops + 1
               /\ route[i + 1].weight = (IF i = 1 THEN 0 ELSE route[i].weight)
                                        + Paths!EdgeOf(net, route[i + 1].node, route[i].node).weight
    <3>1. Leg(net, route, i)
      BY <2>1 DEF PathBack
    <3>2. \A a, b : (Paths!HasEdge(net, a, b) <=> HasEdge(net, a, b)) /\ Paths!EdgeOf(net, a, b) = EdgeOf(net, a, b)
      BY DEF Paths!HasEdge, HasEdge, Paths!EdgeOf, EdgeOf
    <3> QED BY <3>1, <3>2 DEF Leg
  <2>3. Paths!Unrepeated([i \in DOMAIN route |-> route[i].node])
    BY <2>1 DEF PathBack, Paths!Unrepeated
  <2> QED BY <2>1, <2>2, <2>3 DEF PathBack
<1>4. Paths!UniformShortest
  <2> SUFFICES ASSUME route # <<>>, NEW w \in 1..Paths!MaxWeight,
                      \A n \in Nodes : \A i \in DOMAIN net.out[n] : net.out[n][i].weight = w
               PROVE  route[1].weight = Paths!Distances(net, Own)[target]
    BY DEF Paths!UniformShortest
  <2>1. w \in 1..MaxWeight
    BY DEF Paths!MaxWeight, MaxWeight
  <2>2. Even(net, w)
    <3> SUFFICES ASSUME NEW n \in Nodes, NEW e \in Held(net.out[n]) PROVE e.weight = w
      BY DEF Even
    <3> DEFINE T == Edges(Weighed)
    <3>1. PICK l : l = net.out[n]
      OBVIOUS
    <3>2. l \in Seq(T)
      BY <3>1, GoodAt DEF NetSound
    <3> HIDE DEF T
    <3>3. DOMAIN l = 1..Len(l)
      BY <3>2
    <3>4. PICK i \in 1..Len(l) : e = l[i]
      BY <3>1 DEF Held
    <3> QED BY <3>1, <3>3, <3>4
  <2>3. Paths!Distances(net, Own) = Distances(net, Own)
    BY SameSearch
  <2> QED BY <1>2, <2>1, <2>2, <2>3
<1> QED BY <1>1, <1>3, <1>4 DEF RouteSound

\* dijkstra.c: whatever edges and vertices come and go, a search finds a route exactly to
\* what can be reached; the route is a path of the graph that says at each vertex what is
\* left, and if all edges weigh the same no path weighs less.  A vertex that is found
\* waits once, none is visited twice, and the way back leads to the source.
THEOREM RoutesStaySound == AnySpec => []RouteSound
<1> DEFINE Inv == NetSound /\ RoutesFound
<1>1. AnyInit => Inv
  BY RoutesBegin DEF AnyInit, Paths!Init, RoutesFound
<1>2. Inv /\ [AnyNext]_<<scenario, ctl, graph, news, told, net, target, route>> => Inv'
  <2> SUFFICES ASSUME Inv, [AnyNext]_<<scenario, ctl, graph, news, told, net, target, route>> PROVE Inv'
    OBVIOUS
  <2>1. CASE RoutesMove /\ Paths!Next
    BY <2>1, RoutesMoveOn, RoutesFoundOn
  <2>2. CASE UNCHANGED <<net, target, route>>
    BY <2>2 DEF NetSound, RoutesFound
  <2> QED BY <2>1, <2>2 DEF AnyNext, ControllerMoves, ReportsMove
<1>3. Inv => RouteSound
  BY RoutedIsSound
<1> HIDE DEF Inv
<1> QED BY <1>1, <1>2, <1>3, PTL DEF AnySpec

-----------------------------------------------------------------------------
(* The routes that were given: entries and what was told *)

Actions == {"FORWARD", "DROP"}
Setups == [hop : Nodes, action : Actions]
SetupOf(e) == [hop |-> e.hop, action |-> e.action]

\* What is told to the nodes
Words == [Nodes \X Keys -> {Nil} \union Setups]

\* An entry that is online, or the controller's own, was told as it is unless it
\* is marked; one that is marked is not online unless it is the controller's own.
Apt(w, e) ==
    /\ ~e.changed /\ (e.online \/ e.source = Own) => w[<<e.source, e.key>>] = SetupOf(e)
    /\ e.changed /\ e.online => e.source = Own

\* Entries of different nodes or for different keys
Single(l) == \A i, j \in 1..Len(l) : l[i].source = l[j].source /\ l[i].key = l[j].key => i = j

Cached(K, w, l) == l \in Seq(Entry(K)) /\ Single(l) /\ \A i \in 1..Len(l) : Apt(w, l[i])

\* No entry is marked
Calm(l) == \A i \in 1..Len(l) : ~l[i].changed

\* An entry of n for k, as good as what was told
Fits(K, w, n, k, e) == e \in Entry(K) /\ e.source = n /\ e.key = k /\ Apt(w, e)

\* A new entry
Begun(n, k, hop, act, wt) == Settled(NewEntry(n, k, hop, act, wt))

LEMMA NewIs ==
    ASSUME NEW K, NEW w, NEW n \in Nodes, NEW k \in K, NEW hop \in Nodes, NEW act \in Actions, NEW wt \in Nat,
           NEW e, e = Begun(n, k, hop, act, wt)
    PROVE  Fits(K, w, n, k, e)
<1>1. /\ e = [source |-> n, key |-> k, hop |-> hop, action |-> act, weight |-> wt, changed |-> TRUE,
              online |-> (FALSE \/ n = Own), countdown |-> RetransmitTime]
  BY DEF Begun, Settled, NewEntry
<1>2. RetransmitTime \in 1..RetransmitTime
  BY ControllerAssumption
<1>3. (FALSE \/ n = Own) \in BOOLEAN
  OBVIOUS
<1>4. PICK o : o = (FALSE \/ n = Own)
  OBVIOUS
<1>5. e = [source |-> n, key |-> k, hop |-> hop, action |-> act, weight |-> wt, changed |-> TRUE,
              online |-> o, countdown |-> RetransmitTime] /\ o \in BOOLEAN
  BY <1>1, <1>3, <1>4
<1>6. e \in Entry(K) /\ e.source = n /\ e.key = k /\ e.online = o /\ e.changed = TRUE
  BY <1>2, <1>5 DEF Entry, Actions
<1>7. o => n = Own
  BY <1>4
<1>8. Apt(w, e)
  BY <1>6, <1>7, Zenon DEF Apt
<1> QED BY <1>6, <1>8 DEF Fits

\* An entry is given a route again.
Given(e, hop, act, wt) == Settled([Renewed(e, hop, act) EXCEPT !.weight = wt])

LEMMA GivenIs ==
    ASSUME NEW K, NEW w, NEW e \in Entry(K), Apt(w, e), NEW hop \in Nodes, NEW act \in Actions, NEW wt \in Nat,
           NEW r, r = Given(e, hop, act, wt)
    PROVE  r \in Entry(K) /\ r.source = e.source /\ r.key = e.key /\ Apt(w, r)
<1>0. RetransmitTime \in 1..RetransmitTime
  BY ControllerAssumption
<1>e. /\ e.source \in Nodes /\ e.key \in K /\ e.changed \in BOOLEAN /\ e.online \in BOOLEAN /\ e.countdown \in 1..RetransmitTime
  BY DEF Entry
<1>1. CASE e.hop = hop /\ e.action = act
  <2>1. PICK o : o = (e.online \/ e.source = Own)
    OBVIOUS
  <2>2. o \in BOOLEAN
    BY <2>1
  <2>3. r = [e EXCEPT !.weight = wt, !.online = o]
    BY <1>1, <2>1 DEF Given, Settled, Renewed, Entry
  <2>4. /\ r \in Entry(K) /\ r.source = e.source /\ r.key = e.key /\ r.online = o /\ r.changed = e.changed
        /\ r.hop = e.hop /\ r.action = e.action
    BY <2>2, <2>3 DEF Entry
  <2>5. SetupOf(r) = SetupOf(e)
    BY <2>4 DEF SetupOf
  <2>6. (r.online \/ r.source = Own) => (e.online \/ e.source = Own)
    BY <2>1, <2>4, Zenon
  <2>7. Apt(w, r)
    BY <2>1, <2>4, <2>5, Zenon DEF Apt
  <2> QED BY <2>4, <2>7
<1>2. CASE ~(e.hop = hop /\ e.action = act)
  <2>1. PICK o : o = (FALSE \/ e.source = Own)
    OBVIOUS
  <2>2. o \in BOOLEAN
    BY <2>1
  <2>3. r = [e EXCEPT !.hop = hop, !.action = act, !.changed = TRUE, !.online = o, !.countdown = RetransmitTime, !.weight = wt]
    BY <1>2, <2>1 DEF Given, Settled, Renewed, Entry
  <2>4. r \in Entry(K) /\ r.source = e.source /\ r.key = e.key /\ r.online = o /\ r.changed = TRUE
    BY <1>0, <2>2, <2>3 DEF Entry, Actions
  <2>5. Apt(w, r)
    BY <2>1, <2>4, Zenon DEF Apt
  <2> QED BY <2>4, <2>5
<1> QED BY <1>1, <1>2

LEMMA FindIs ==
    ASSUME NEW l, NEW m \in Nat, m = Len(l), NEW n, NEW k, NEW i, i = Find(l, n, k)
    PROVE  /\ i \in 0..m
           /\ i # 0 => i \in 1..m /\ l[i].source = n /\ l[i].key = k
           /\ i = 0 => \A j \in 1..m : ~(l[j].source = n /\ l[j].key = k)
<1> DEFINE I == {j \in 1..m : l[j].source = n /\ l[j].key = k}
<1>1. i = IF I # {} THEN Min(I) ELSE 0
  BY DEF Find, SelectInSeq
<1>2. i \in 0..m /\ (i = 0 <=> I = {}) /\ (i # 0 => i \in I)
  <2>1. I \in SUBSET (1..m)
    OBVIOUS
  <2> HIDE DEF I
  <2> QED BY <1>1, <2>1, FirstIs
<1>3. i # 0 => i \in 1..m /\ l[i].source = n /\ l[i].key = k
  BY <1>2
<1>4. i = 0 => \A j \in 1..m : ~(l[j].source = n /\ l[j].key = k)
  BY <1>2
<1> QED BY <1>2, <1>3, <1>4

\* What there is one of is found.
LEMMA FindOne ==
    ASSUME NEW l, Single(l), NEW m \in Nat, m = Len(l), NEW i \in 1..m
    PROVE  Find(l, l[i].source, l[i].key) = i
<1>1. PICK j : j = Find(l, l[i].source, l[i].key)
  OBVIOUS
<1>2. /\ j # 0 => j \in 1..m /\ l[j].source = l[i].source /\ l[j].key = l[i].key
      /\ j = 0 => \A x \in 1..m : ~(l[x].source = l[i].source /\ l[x].key = l[i].key)
  BY <1>1, FindIs
<1>3. j # 0
  BY <1>2
<1> QED BY <1>1, <1>2, <1>3 DEF Single

\* r is l but for the entry i, for the key k of n, which may be new.
Altered(l, r, i, n, k) ==
    /\ Len(r) >= Len(l) /\ i \in 1..Len(r) /\ r[i].source = n /\ r[i].key = k
    /\ \A j \in 1..Len(r) : j # i => j \in 1..Len(l) /\ r[j] = l[j]
    /\ Find(r, n, k) = i

LEMMA AddEntryIs ==
    ASSUME NEW K, NEW w, NEW l, Cached(K, w, l), NEW n \in Nodes, NEW k \in K, NEW hop \in Nodes,
           NEW act \in Actions, NEW wt \in Nat, NEW r, r = AddEntry(l, n, k, hop, act, wt)
    PROVE  Cached(K, w, r) /\ \E i \in 1..Len(r) : Altered(l, r, i, n, k)
<1>1. l \in Seq(Entry(K)) /\ Len(l) \in Nat /\ Single(l)
  BY DEF Cached
<1>2. PICK i : i = Find(l, n, k)
  OBVIOUS
<1>3. /\ i \in 0..Len(l)
      /\ i # 0 => i \in 1..Len(l) /\ l[i].source = n /\ l[i].key = k
      /\ i = 0 => \A j \in 1..Len(l) : ~(l[j].source = n /\ l[j].key = k)
  BY <1>1, <1>2, FindIs
<1>4. CASE i = 0
  <2>1. PICK e : e = Begun(n, k, hop, act, wt)
    OBVIOUS
  <2>2. e \in Entry(K) /\ e.source = n /\ e.key = k /\ Apt(w, e)
    <3>1. Fits(K, w, n, k, e)
      BY <2>1, NewIs
    <3> QED BY <3>1 DEF Fits
  <2>3. r = Append(l, e)
    BY <1>2, <1>4, <2>1 DEF AddEntry, Begun
  <2>4. /\ r \in Seq(Entry(K)) /\ Len(r) = Len(l) + 1 /\ r[Len(r)] = e
        /\ \A j \in 1..Len(l) : r[j] = l[j]
    <3> DEFINE T == Entry(K)
    <3>1. l \in Seq(T) /\ e \in T
      BY <1>1, <2>2
    <3> HIDE DEF T
    <3>2. r \in Seq(T) /\ Len(r) = Len(l) + 1 /\ r[Len(r)] = e /\ \A j \in 1..Len(l) : r[j] = l[j]
      BY <2>3, <3>1
    <3> QED BY <3>2 DEF T
  <2>5. \A j \in 1..Len(r) : j = Len(r) \/ j \in 1..Len(l)
    BY <1>1, <2>4
  <2>6. Single(r)
    <3> SUFFICES ASSUME NEW x \in 1..Len(r), NEW y \in 1..Len(r), r[x].source = r[y].source, r[x].key = r[y].key PROVE x = y
      BY DEF Single
    <3>1. CASE x = Len(r)
      <4>1. ~(y \in 1..Len(l))
        BY <1>3, <1>4, <2>2, <2>4, <3>1
      <4> QED BY <2>5, <3>1, <4>1
    <3>2. CASE y = Len(r)
      <4>1. ~(x \in 1..Len(l))
        BY <1>3, <1>4, <2>2, <2>4, <3>2
      <4> QED BY <2>5, <3>2, <4>1
    <3>3. CASE x \in 1..Len(l) /\ y \in 1..Len(l)
      BY <1>1, <2>4, <3>3 DEF Single
    <3> QED BY <2>5, <3>1, <3>2, <3>3
  <2>7. \A j \in 1..Len(r) : Apt(w, r[j])
    BY <2>2, <2>4, <2>5 DEF Cached
  <2>8. Len(r) \in 1..Len(r) /\ Len(r) \in Nat /\ Len(r) >= Len(l)
    BY <1>1, <2>4
  <2>9. Find(r, n, k) = Len(r)
    BY <2>2, <2>4, <2>6, <2>8, FindOne
  <2>10. Altered(l, r, Len(r), n, k)
    BY <2>2, <2>4, <2>5, <2>8, <2>9 DEF Altered
  <2> QED BY <2>4, <2>6, <2>7, <2>8, <2>10 DEF Cached
<1>5. CASE i # 0
  <2>1. i \in 1..Len(l) /\ l[i].source = n /\ l[i].key = k /\ l[i] \in Entry(K) /\ Apt(w, l[i])
    BY <1>1, <1>3, <1>5 DEF Cached
  <2>2. PICK e : e = Given(l[i], hop, act, wt)
    OBVIOUS
  <2>3. e \in Entry(K) /\ e.source = n /\ e.key = k /\ Apt(w, e)
    BY <2>1, <2>2, GivenIs
  <2>4. r = [l EXCEPT ![i] = e]
    BY <1>2, <1>5, <2>2 DEF AddEntry, Given
  <2>5. /\ r \in Seq(Entry(K)) /\ Len(r) = Len(l) /\ r[i] = e
        /\ \A j \in 1..Len(l) : j # i => r[j] = l[j]
    <3> DEFINE T == Entry(K)
    <3>1. l \in Seq(T) /\ e \in T /\ i \in 1..Len(l)
      BY <1>1, <2>1, <2>3
    <3> HIDE DEF T
    <3>2. r \in Seq(T) /\ Len(r) = Len(l) /\ r[i] = e /\ \A j \in 1..Len(l) : j # i => r[j] = l[j]
      BY <2>4, <3>1
    <3> QED BY <3>2 DEF T
  <2>6. \A j \in 1..Len(r) : r[j].source = l[j].source /\ r[j].key = l[j].key /\ Apt(w, r[j])
    BY <2>1, <2>3, <2>5 DEF Cached
  <2>7. Single(r)
    BY <1>1, <2>5, <2>6 DEF Single
  <2>8. Find(r, n, k) = i
    <3>1. Find(r, r[i].source, r[i].key) = i
      BY <1>1, <2>1, <2>5, <2>7, FindOne
    <3> QED BY <2>3, <2>5, <3>1
  <2>9. Altered(l, r, i, n, k)
    BY <1>1, <2>1, <2>3, <2>5, <2>8 DEF Altered
  <2> QED BY <2>1, <2>5, <2>6, <2>7, <2>9 DEF Cached
<1> QED BY <1>4, <1>5

\* w becomes w2 when e is told, or cannot be told because there is no way to its node.
Heard(w, w2, e) ==
    /\ \A x \in Nodes \X Keys : x # <<e.source, e.key>> => w2[x] = w[x]
    /\ \/ w2[<<e.source, e.key>>] = SetupOf(e)
       \/ w2[<<e.source, e.key>>] = w[<<e.source, e.key>>] /\ e.source # Own

\* What was told of one entry is nothing to another.
LEMMA OthersApt ==
    ASSUME NEW w, NEW w2, NEW e, Heard(w, w2, e), NEW d, d.source \in Nodes, d.key \in Keys,
           ~(d.source = e.source /\ d.key = e.key), Apt(w, d)
    PROVE  Apt(w2, d)
<1>1. <<d.source, d.key>> \in Nodes \X Keys /\ <<d.source, d.key>> # <<e.source, e.key>>
  OBVIOUS
<1>2. w2[<<d.source, d.key>>] = w[<<d.source, d.key>>]
  BY <1>1 DEF Heard
<1> QED BY <1>2, Zenon DEF Apt

LEMMA SelfApt ==
    ASSUME NEW w, NEW w2, NEW e, Heard(w, w2, e), Apt(w, e)
    PROVE  Apt(w2, e)
<1>1. CASE w2[<<e.source, e.key>>] = SetupOf(e)
  BY <1>1, Zenon DEF Apt
<1>2. CASE w2[<<e.source, e.key>>] = w[<<e.source, e.key>>]
  BY <1>2, Zenon DEF Apt
<1> QED BY <1>1, <1>2, Zenon DEF Heard

\* An entry loses its mark once it was told.
Unmarked(e) == [e EXCEPT !.changed = FALSE]
Bare(K, w, e, d) == Fits(K, w, e.source, e.key, d) /\ d.changed = FALSE

LEMMA UnmarkedApt ==
    ASSUME NEW K, NEW w, NEW w2, NEW e \in Entry(K), Heard(w, w2, e), Apt(w, e), NEW d, d = Unmarked(e)
    PROVE  Bare(K, w2, e, d)
<1>1. /\ d \in Entry(K) /\ d.source = e.source /\ d.key = e.key /\ d.changed = FALSE /\ d.online = e.online
      /\ d.hop = e.hop /\ d.action = e.action
  BY DEF Entry, Unmarked
<1>2. SetupOf(d) = SetupOf(e)
  BY <1>1 DEF SetupOf
<1>3. ASSUME w2[<<e.source, e.key>>] = SetupOf(e) PROVE Apt(w2, d)
  BY <1>1, <1>2, <1>3, Zenon DEF Apt
<1>4. ASSUME w2[<<e.source, e.key>>] = w[<<e.source, e.key>>] /\ e.source # Own PROVE Apt(w2, d)
  <2>1. ASSUME e.online PROVE w2[<<e.source, e.key>>] = SetupOf(e)
    <3>1. ~e.changed
      BY <1>4, <2>1, Zenon DEF Apt
    <3> QED BY <1>4, <2>1, <3>1, Zenon DEF Apt
  <2> QED BY <1>1, <1>2, <1>4, <2>1, Zenon DEF Apt
<1>5. Apt(w2, d)
  BY <1>3, <1>4, Zenon DEF Heard
<1> QED BY <1>1, <1>5 DEF Bare, Fits

\* l without the mark at i
Cleared(l, r, i) ==
    /\ Len(r) = Len(l) /\ i \in 1..Len(r) /\ r[i].changed = FALSE
    /\ \A j \in 1..Len(r) : j # i => r[j] = l[j]

LEMMA EntriesOf ==
    ASSUME NEW K, NEW w, NEW l, Cached(K, w, l)
    PROVE  /\ l \in Seq(Entry(K)) /\ Len(l) \in Nat /\ Single(l)
           /\ \A i \in 1..Len(l) : l[i] \in Entry(K) /\ Apt(w, l[i]) /\ l[i].source \in Nodes /\ l[i].key \in K
<1> DEFINE T == Entry(K)
<1>1. l \in Seq(T) /\ Single(l) /\ \A i \in 1..Len(l) : Apt(w, l[i])
  BY DEF Cached
<1>2. \A e \in T : e.source \in Nodes /\ e.key \in K
  BY DEF Entry
<1> HIDE DEF T
<1>3. Len(l) \in Nat /\ \A i \in 1..Len(l) : l[i] \in T
  BY <1>1
<1> QED BY <1>1, <1>2, <1>3 DEF T

LEMMA ToldIs ==
    ASSUME NEW K \in SUBSET Keys, NEW w, NEW w2, NEW l, Cached(K, w, l), NEW i \in 1..Len(l), Heard(w, w2, l[i]),
           NEW r, r = Sent(l, i)
    PROVE  Cached(K, w2, l) /\ Cached(K, w2, r) /\ Cleared(l, r, i)
<1>1. /\ l \in Seq(Entry(K)) /\ Len(l) \in Nat /\ Single(l)
      /\ \A j \in 1..Len(l) : l[j] \in Entry(K) /\ Apt(w, l[j]) /\ l[j].source \in Nodes /\ l[j].key \in K
  BY EntriesOf
<1>2. ASSUME NEW j \in 1..Len(l), j # i PROVE Apt(w2, l[j])
  <2>1. ~(l[j].source = l[i].source /\ l[j].key = l[i].key)
    BY <1>1, <1>2 DEF Single
  <2>2. l[j].source \in Nodes /\ l[j].key \in Keys /\ Apt(w, l[j])
    BY <1>1
  <2> QED BY <2>1, <2>2, OthersApt
<1>3. Apt(w2, l[i])
  BY <1>1, SelfApt
<1>4. PICK d : d = Unmarked(l[i])
  OBVIOUS
<1>5. d \in Entry(K) /\ d.source = l[i].source /\ d.key = l[i].key /\ d.changed = FALSE /\ Apt(w2, d)
  <2>1. l[i] \in Entry(K) /\ Apt(w, l[i])
    BY <1>1
  <2>2. Bare(K, w2, l[i], d)
    BY <1>4, <2>1, UnmarkedApt
  <2> QED BY <2>2 DEF Bare, Fits
<1>6. r = [l EXCEPT ![i] = d]
  BY <1>4 DEF Sent, Unmarked
<1>7. r \in Seq(Entry(K)) /\ Len(r) = Len(l) /\ r[i] = d /\ \A j \in 1..Len(l) : j # i => r[j] = l[j]
  <2> DEFINE T == Entry(K)
  <2>1. l \in Seq(T) /\ d \in T
    BY <1>1, <1>5
  <2> HIDE DEF T
  <2>2. r \in Seq(T) /\ Len(r) = Len(l) /\ r[i] = d /\ \A j \in 1..Len(l) : j # i => r[j] = l[j]
    BY <1>6, <2>1
  <2> QED BY <2>2 DEF T
<1>8. \A j \in 1..Len(r) : r[j].source = l[j].source /\ r[j].key = l[j].key /\ Apt(w2, r[j])
  BY <1>2, <1>5, <1>7
<1>9. Single(r)
  BY <1>1, <1>7, <1>8 DEF Single
<1>10. Cached(K, w2, l)
  BY <1>1, <1>2, <1>3 DEF Cached
<1>11. Cached(K, w2, r)
  BY <1>7, <1>8, <1>9 DEF Cached
<1>12. Cleared(l, r, i)
  BY <1>5, <1>7 DEF Cleared
<1> QED BY <1>10, <1>11, <1>12

LEMMA ToldApart ==
    ASSUME NEW K \in SUBSET Keys, NEW w, NEW w2, NEW l, Cached(K, w, l), NEW e, e.key \notin K, Heard(w, w2, e)
    PROVE  Cached(K, w2, l)
<1>1. /\ l \in Seq(Entry(K)) /\ Single(l)
      /\ \A j \in 1..Len(l) : Apt(w, l[j]) /\ l[j].source \in Nodes /\ l[j].key \in K
  BY EntriesOf
<1>2. ASSUME NEW j \in 1..Len(l) PROVE Apt(w2, l[j])
  <2>1. l[j].source \in Nodes /\ l[j].key \in Keys /\ Apt(w, l[j]) /\ l[j].key # e.key
    BY <1>1
  <2> QED BY <2>1, OthersApt
<1> QED BY <1>1, <1>2 DEF Cached

-----------------------------------------------------------------------------
(* The routes that were given: the state of the controller *)

Graphs == GraphSet(Metrics, {MaxBattery})
Registered == [flow : Flows, target : Nodes]

Ctls == [graph : Graphs, ids : Seq(Registered), flows : Seq(Entry(Flows)), addrs : Seq(Entry(Nodes)),
         asked : Seq(Nodes), told : Words, crashed : BOOLEAN]

\* In the middle of a handler entries may be marked.
Busy == {s \in Ctls : Cached(Flows, s.told, s.flows) /\ Cached(Nodes, s.told, s.addrs)}

\* s with another graph, other caches and other words
With(s, g, f, a, w) == [s EXCEPT !.graph = g, !.flows = f, !.addrs = a, !.told = w]

\* The two kinds of keys are not mixed up.
LEMMA KeysApart ==
    /\ Flows \in SUBSET Keys /\ Nodes \in SUBSET Keys /\ Own \in Nodes
    /\ \A k \in Flows : k \notin Nodes
    /\ \A k \in Nodes : k \notin Flows
  BY ControllerAssumption DEF Keys

LEMMA BusyHas ==
    ASSUME NEW s \in Busy
    PROVE  /\ s.graph \in Graphs /\ s.ids \in Seq(Registered) /\ s.asked \in Seq(Nodes) /\ s.told \in Words
           /\ s.crashed \in BOOLEAN /\ Cached(Flows, s.told, s.flows) /\ Cached(Nodes, s.told, s.addrs)
<1> DEFINE A == Seq(Registered)
           F == Seq(Entry(Flows))
           D == Seq(Entry(Nodes))
           Q == Seq(Nodes)
<1>1. s \in [graph : Graphs, ids : A, flows : F, addrs : D, asked : Q, told : Words, crashed : BOOLEAN]
  BY DEF Busy, Ctls
<1>2. s.graph \in Graphs /\ s.ids \in A /\ s.asked \in Q /\ s.told \in Words /\ s.crashed \in BOOLEAN
  <2> HIDE DEF A, F, D, Q
  <2> QED BY <1>1
<1> QED BY <1>2 DEF Busy

\* What With yields
IsWith(s, r, g, f, a, w) ==
    /\ r \in Busy /\ r.graph = g /\ r.flows = f /\ r.addrs = a /\ r.told = w
    /\ r.ids = s.ids /\ r.asked = s.asked /\ r.crashed = s.crashed

LEMMA WithIs ==
    ASSUME NEW s \in Busy, NEW g \in Graphs, NEW w \in Words, NEW f, Cached(Flows, w, f), NEW a, Cached(Nodes, w, a),
           NEW r, r = With(s, g, f, a, w)
    PROVE  IsWith(s, r, g, f, a, w)
<1> DEFINE A == Seq(Registered)
           F == Seq(Entry(Flows))
           D == Seq(Entry(Nodes))
           Q == Seq(Nodes)
<1>1. s \in [graph : Graphs, ids : A, flows : F, addrs : D, asked : Q, told : Words, crashed : BOOLEAN] /\ f \in F /\ a \in D
  BY DEF Busy, Ctls, Cached
<1>2. /\ r \in [graph : Graphs, ids : A, flows : F, addrs : D, asked : Q, told : Words, crashed : BOOLEAN]
      /\ r.graph = g /\ r.flows = f /\ r.addrs = a /\ r.told = w
      /\ r.ids = s.ids /\ r.asked = s.asked /\ r.crashed = s.crashed
  <2> HIDE DEF A, F, D, Q
  <2> QED BY <1>1, Zenon DEF With
<1>3. r \in Busy
  BY <1>2 DEF Busy, Ctls
<1> QED BY <1>2, <1>3 DEF IsWith

\* Nothing else makes a state of a record.
LEMMA Remade ==
    ASSUME NEW s \in Busy
    PROVE  /\ \A g : [s EXCEPT !.graph = g] = With(s, g, s.flows, s.addrs, s.told)
           /\ \A f : [s EXCEPT !.flows = f] = With(s, s.graph, f, s.addrs, s.told)
           /\ \A a : [s EXCEPT !.addrs = a] = With(s, s.graph, s.flows, a, s.told)
           /\ \A w : [s EXCEPT !.told = w] = With(s, s.graph, s.flows, s.addrs, w)
           /\ \A g, f : [s EXCEPT !.graph = g, !.flows = f] = With(s, g, f, s.addrs, s.told)
           /\ \A f, a : [s EXCEPT !.flows = f, !.addrs = a] = With(s, s.graph, f, a, s.told)
<1> DEFINE A == Seq(Registered)
           F == Seq(Entry(Flows))
           D == Seq(Entry(Nodes))
           Q == Seq(Nodes)
<1>1. s \in [graph : Graphs, ids : A, flows : F, addrs : D, asked : Q, told : Words, crashed : BOOLEAN]
  BY DEF Busy, Ctls
<1> HIDE DEF A, F, D, Q
<1> QED BY <1>1, Zenon DEF With

-----------------------------------------------------------------------------
(* The routes that were given: what is sent *)

LEMMA GraphsGood ==
    /\ Limits(Metrics, {MaxBattery})
    /\ \A g : g \in Graphs <=> Good(Metrics, {MaxBattery}, g)
<1>1. Limits(Metrics, {MaxBattery})
  BY ControllerAssumption DEF Limits, MaxBattery
<1>2. \A g : Good(Metrics, {MaxBattery}, g) =>
              g \in [order : Seq(Nodes), energy : [Nodes -> {MaxBattery}], out : [Nodes -> Seq(Edges(Metrics))]]
  BY DEF Good
<1>3. \A g : g \in Graphs <=> Good(Metrics, {MaxBattery}, g)
  BY <1>2 DEF Graphs, GraphSet
<1> QED BY <1>1, <1>3

\* A setup for e is sent, or not.
Sends(s, r, e) ==
    /\ r = With(s, r.graph, s.flows, s.addrs, r.told)
    /\ r.graph \in Graphs /\ r.told \in Words /\ Heard(s.told, r.told, e)

LEMMA SendSetupIs ==
    ASSUME NEW s \in Busy, NEW e, e.source \in Nodes, e.key \in Keys, SetupOf(e) \in Setups, NEW r, r = SendSetup(s, e)
    PROVE  Sends(s, r, e)
<1>1. PICK way : way = ShortestPath(s.graph, Own, e.source)
  OBVIOUS
<1>2. s.graph \in Graphs /\ s.told \in Words /\ Cached(Flows, s.told, s.flows) /\ Cached(Nodes, s.told, s.addrs)
  BY BusyHas
<1>3. way.graph \in Graphs
  <2>1. Good(Metrics, {MaxBattery}, s.graph) /\ Limits(Metrics, {MaxBattery}) /\ Own \in Nodes
    BY <1>2, GraphsGood, KeysApart
  <2>2. Good(Metrics, {MaxBattery}, way.graph)
    BY <1>1, <2>1, ShortestPathIs
  <2> QED BY <2>2, GraphsGood
<1>4. r = SendAlong(s, e, way)
  BY <1>1 DEF SendSetup
<1>5. PICK x : x = <<e.source, e.key>>
  OBVIOUS
<1>6. x \in Nodes \X Keys
  BY <1>5
<1>7. PICK w : w = [s.told EXCEPT ![x] = SetupOf(e)]
  OBVIOUS
<1>8. w \in Words /\ w[x] = SetupOf(e) /\ \A y \in Nodes \X Keys : y # x => w[y] = s.told[y]
  BY <1>2, <1>6, <1>7 DEF Words
<1>9. CASE e.source = Own \/ way.route # <<>>
  <2>1. r = [s EXCEPT !.told = w]
    BY <1>4, <1>5, <1>7, <1>9 DEF SendAlong, SetupOf
  <2>2. r = With(s, s.graph, s.flows, s.addrs, w)
    BY <2>1, Remade, Zenon
  <2>3. r.graph = s.graph /\ r.told = w
    <3> DEFINE A == Seq(Registered)
               F == Seq(Entry(Flows))
               D == Seq(Entry(Nodes))
               Q == Seq(Nodes)
    <3>1. s \in [graph : Graphs, ids : A, flows : F, addrs : D, asked : Q, told : Words, crashed : BOOLEAN]
      BY DEF Busy, Ctls
    <3> HIDE DEF A, F, D, Q
    <3> QED BY <2>1, <3>1
  <2>4. Heard(s.told, w, e)
    BY <1>5, <1>8 DEF Heard
  <2> QED BY <1>2, <1>8, <2>2, <2>3, <2>4 DEF Sends
<1>10. CASE ~(e.source = Own \/ way.route # <<>>)
  <2>1. r = [s EXCEPT !.graph = way.graph]
    BY <1>4, <1>10 DEF SendAlong
  <2>2. r = With(s, way.graph, s.flows, s.addrs, s.told)
    BY <2>1, Remade, Zenon
  <2>3. IsWith(s, r, way.graph, s.flows, s.addrs, s.told)
    BY <1>2, <1>3, <2>2, WithIs
  <2>4. Heard(s.told, s.told, e)
    BY <1>10 DEF Heard
  <2> QED BY <1>2, <1>3, <2>2, <2>3, <2>4 DEF Sends, IsWith
<1> QED BY <1>9, <1>10

\* Of the caches of s, that of flows is f in r, that of addresses a.
Turns(s, r, f, a) ==
    /\ r \in Busy /\ r.flows = f /\ r.addrs = a
    /\ r.ids = s.ids /\ r.asked = s.asked /\ r.crashed = s.crashed

EntrySends ==
    \A K : \A e \in Entry(K) : SetupOf(e) \in Setups

LEMMA EntriesSend == EntrySends
<1> SUFFICES ASSUME NEW K, NEW e \in Entry(K) PROVE SetupOf(e) \in Setups
  BY DEF EntrySends
<1>1. e.hop \in Nodes /\ e.action \in Actions
  BY DEF Entry, Actions
<1> QED BY <1>1 DEF SetupOf, Setups

\* An entry of either cache is sent.
LEMMA ResentIs ==
    ASSUME NEW s \in Busy, NEW l, l = s.flows \/ l = s.addrs, NEW i \in 1..Len(l), NEW r, r = SendSetup(s, l[i])
    PROVE  Turns(s, r, s.flows, s.addrs)
<1>1. s.told \in Words /\ s.graph \in Graphs /\ Cached(Flows, s.told, s.flows) /\ Cached(Nodes, s.told, s.addrs)
  BY BusyHas
<1>2. \E K \in {Flows, Nodes} : Cached(K, s.told, l) /\ K \in SUBSET Keys
  BY <1>1, KeysApart
<1>3. PICK K \in {Flows, Nodes} : Cached(K, s.told, l) /\ K \in SUBSET Keys
  BY <1>2
<1>4. PICK e : e = l[i]
  OBVIOUS
<1>5. e \in Entry(K) /\ e.source \in Nodes /\ e.key \in K
  BY <1>3, <1>4, EntriesOf
<1>6. SetupOf(e) \in Setups /\ e.key \in Keys
  BY <1>3, <1>5, EntriesSend DEF EntrySends
<1>7. Sends(s, r, e)
  BY <1>4, <1>5, <1>6, SendSetupIs
<1>8. Heard(s.told, r.told, e)
  BY <1>7 DEF Sends
<1>9. Cached(K, r.told, l)
  <2>1. PICK q : q = Sent(l, i)
    OBVIOUS
  <2> QED BY <1>3, <1>4, <1>8, <2>1, ToldIs
<1>10. Cached(Flows, r.told, s.flows)
  <2>1. CASE K = Flows /\ l = s.flows
    BY <1>9, <2>1
  <2>2. CASE e.key \notin Flows
    BY <1>1, <1>8, <2>2, KeysApart, ToldApart
  <2>3. CASE K = Flows /\ l = s.addrs
    <3>1. e.key \in Nodes
      BY <1>1, <1>4, <2>3, EntriesOf
    <3> QED BY <1>5, <2>3, <3>1, KeysApart
  <2> QED BY <1>5, <2>1, <2>2, <2>3, KeysApart
<1>11. Cached(Nodes, r.told, s.addrs)
  <2>1. CASE K = Nodes /\ l = s.addrs
    BY <1>9, <2>1
  <2>2. CASE e.key \notin Nodes
    BY <1>1, <1>8, <2>2, KeysApart, ToldApart
  <2>3. CASE K = Nodes /\ l = s.flows
    <3>1. e.key \in Flows
      BY <1>1, <1>4, <2>3, EntriesOf
    <3> QED BY <1>5, <2>3, <3>1, KeysApart
  <2> QED BY <1>5, <2>1, <2>2, <2>3, KeysApart
<1>12. IsWith(s, r, r.graph, s.flows, s.addrs, r.told)
  BY <1>7, <1>10, <1>11, WithIs DEF Sends
<1> QED BY <1>12 DEF IsWith, Turns

\* An entry is sent and loses its mark.
LEMMA TellFlowIs ==
    ASSUME NEW s \in Busy, NEW i \in 1..Len(s.flows), NEW r, r = TellFlow(s, i)
    PROVE  Turns(s, r, r.flows, s.addrs) /\ Cleared(s.flows, r.flows, i)
<1>1. s.told \in Words /\ s.graph \in Graphs /\ Cached(Flows, s.told, s.flows) /\ Cached(Nodes, s.told, s.addrs)
  BY BusyHas
<1>2. PICK e : e = s.flows[i]
  OBVIOUS
<1>3. e \in Entry(Flows) /\ e.source \in Nodes /\ e.key \in Flows
  BY <1>1, <1>2, EntriesOf
<1>4. SetupOf(e) \in Setups /\ e.key \in Keys /\ e.key \notin Nodes
  BY <1>3, EntriesSend, KeysApart DEF EntrySends
<1>5. PICK t : t = SendSetup(s, e)
  OBVIOUS
<1>6. Sends(s, t, e)
  BY <1>3, <1>4, <1>5, SendSetupIs
<1>7. PICK f : f = Sent(s.flows, i)
  OBVIOUS
<1>8. Cached(Flows, t.told, s.flows) /\ Cached(Flows, t.told, f) /\ Cleared(s.flows, f, i)
  BY <1>1, <1>2, <1>6, <1>7, KeysApart, ToldIs DEF Sends
<1>9. Cached(Nodes, t.told, s.addrs)
  BY <1>1, <1>4, <1>6, KeysApart, ToldApart DEF Sends
<1>10. IsWith(s, t, t.graph, s.flows, s.addrs, t.told)
  BY <1>6, <1>8, <1>9, WithIs DEF Sends
<1>11. t \in Busy /\ t.addrs = s.addrs /\ t.ids = s.ids /\ t.asked = s.asked /\ t.crashed = s.crashed
  BY <1>10 DEF IsWith
<1>12. r = [t EXCEPT !.flows = f]
  BY <1>2, <1>5, <1>7 DEF TellFlow
<1>13. r = With(t, t.graph, f, t.addrs, t.told)
  BY <1>11, <1>12, Remade, Zenon
<1>14. IsWith(t, r, t.graph, f, t.addrs, t.told)
  <2>1. t.graph \in Graphs /\ t.told \in Words /\ Cached(Nodes, t.told, t.addrs)
    BY <1>6, <1>9, <1>11 DEF Sends
  <2> QED BY <1>8, <1>11, <1>13, <2>1, WithIs
<1> QED BY <1>8, <1>11, <1>14 DEF IsWith, Turns

LEMMA TellAddressIs ==
    ASSUME NEW s \in Busy, NEW i \in 1..Len(s.addrs), NEW r, r = TellAddress(s, i)
    PROVE  Turns(s, r, s.flows, r.addrs) /\ Cleared(s.addrs, r.addrs, i)
<1>1. s.told \in Words /\ s.graph \in Graphs /\ Cached(Nodes, s.told, s.addrs) /\ Cached(Flows, s.told, s.flows)
  BY BusyHas
<1>2. PICK e : e = s.addrs[i]
  OBVIOUS
<1>3. e \in Entry(Nodes) /\ e.source \in Nodes /\ e.key \in Nodes
  BY <1>1, <1>2, EntriesOf
<1>4. SetupOf(e) \in Setups /\ e.key \in Keys /\ e.key \notin Flows
  BY <1>3, EntriesSend, KeysApart DEF EntrySends
<1>5. PICK t : t = SendSetup(s, e)
  OBVIOUS
<1>6. Sends(s, t, e)
  BY <1>3, <1>4, <1>5, SendSetupIs
<1>7. PICK f : f = Sent(s.addrs, i)
  OBVIOUS
<1>8. Cached(Nodes, t.told, s.addrs) /\ Cached(Nodes, t.told, f) /\ Cleared(s.addrs, f, i)
  BY <1>1, <1>2, <1>6, <1>7, KeysApart, ToldIs DEF Sends
<1>9. Cached(Flows, t.told, s.flows)
  BY <1>1, <1>4, <1>6, KeysApart, ToldApart DEF Sends
<1>10. IsWith(s, t, t.graph, s.flows, s.addrs, t.told)
  BY <1>6, <1>8, <1>9, WithIs DEF Sends
<1>11. t \in Busy /\ t.flows = s.flows /\ t.ids = s.ids /\ t.asked = s.asked /\ t.crashed = s.crashed
  BY <1>10 DEF IsWith
<1>12. r = [t EXCEPT !.addrs = f]
  BY <1>2, <1>5, <1>7 DEF TellAddress
<1>13. r = With(t, t.graph, t.flows, f, t.told)
  BY <1>11, <1>12, Remade, Zenon
<1>14. IsWith(t, r, t.graph, t.flows, f, t.told)
  <2>1. t.graph \in Graphs /\ t.told \in Words /\ Cached(Flows, t.told, t.flows)
    BY <1>6, <1>9, <1>11 DEF Sends
  <2> QED BY <1>8, <1>11, <1>13, <2>1, WithIs
<1> QED BY <1>8, <1>11, <1>14 DEF IsWith, Turns

WithFlows(s, f) == [s EXCEPT !.flows = f]
WithAddrs(s, a) == [s EXCEPT !.addrs = a]

LEMMA WithFlowsIs ==
    ASSUME NEW s \in Busy, NEW f, Cached(Flows, s.told, f), NEW r, r = WithFlows(s, f)
    PROVE  Turns(s, r, f, s.addrs) /\ r.told = s.told /\ r.graph = s.graph
<1>1. s.told \in Words /\ s.graph \in Graphs /\ Cached(Nodes, s.told, s.addrs)
  BY BusyHas
<1>2. r = With(s, s.graph, f, s.addrs, s.told)
  BY Remade, Zenon DEF WithFlows
<1>3. IsWith(s, r, s.graph, f, s.addrs, s.told)
  BY <1>1, <1>2, WithIs
<1> QED BY <1>3 DEF IsWith, Turns

LEMMA WithAddrsIs ==
    ASSUME NEW s \in Busy, NEW a, Cached(Nodes, s.told, a), NEW r, r = WithAddrs(s, a)
    PROVE  Turns(s, r, s.flows, a) /\ r.told = s.told /\ r.graph = s.graph
<1>1. s.told \in Words /\ s.graph \in Graphs /\ Cached(Flows, s.told, s.flows)
  BY BusyHas
<1>2. r = With(s, s.graph, s.flows, a, s.told)
  BY Remade, Zenon DEF WithAddrs
<1>3. IsWith(s, r, s.graph, s.flows, a, s.told)
  BY <1>1, <1>2, WithIs
<1> QED BY <1>3 DEF IsWith, Turns

\* The places of a route and of a cache, counted
LEMMA Counted ==
    ASSUME NEW m \in Nat, NEW d, d = [i \in 1..m |-> i]
    PROVE  Len(d) = m /\ \A i \in 1..m : d[i] = i
<1>1. d \in Seq(Nat) /\ Len(d) = m
  OBVIOUS
<1> QED BY <1>1

LEMMA HopsOfIs ==
    ASSUME NEW p \in Seq(Hops), Len(p) >= 1, NEW d, d = HopsOf(p)
    PROVE  Len(d) \in Nat /\ \A i \in 1..Len(d) : d[i] \in 1..(Len(p) - 1)
<1>1. Len(p) - 1 \in Nat
  OBVIOUS
<1>2. d = [i \in 1..(Len(p) - 1) |-> i]
  BY DEF HopsOf
<1>3. Len(d) = Len(p) - 1 /\ \A i \in 1..(Len(p) - 1) : d[i] = i
  BY <1>1, <1>2, Counted
<1> QED BY <1>1, <1>3

\* The entry for a hop of a route is one.
LEMMA AddHopIs ==
    ASSUME NEW K, NEW w, NEW l, Cached(K, w, l), NEW p \in Seq(Hops), NEW i \in 1..(Len(p) - 1), NEW k \in K,
           NEW r, r = AddHop(l, p, k, i)
    PROVE  /\ p[i + 1].node \in Nodes /\ p[i].node \in Nodes /\ p[i + 1].weight \in Nat
           /\ r = AddEntry(l, p[i + 1].node, k, p[i].node, "FORWARD", p[i + 1].weight)
           /\ Cached(K, w, r)
<1>1. p[i + 1] \in Hops /\ p[i] \in Hops
  OBVIOUS
<1>2. p[i + 1].node \in Nodes /\ p[i].node \in Nodes /\ p[i + 1].weight \in Nat
  BY <1>1 DEF Hops
<1>3. r = AddEntry(l, p[i + 1].node, k, p[i].node, "FORWARD", p[i + 1].weight)
  BY DEF AddHop
<1>4. "FORWARD" \in Actions
  BY DEF Actions
<1>5. Cached(K, w, r)
  BY <1>2, <1>3, <1>4, AddEntryIs
<1> QED BY <1>2, <1>3, <1>5

\* A mark that is new goes as soon as it came.
LEMMA AddTellFlowIs ==
    ASSUME NEW s \in Busy, Calm(s.flows), NEW n \in Nodes, NEW k \in Flows, NEW hop \in Nodes, NEW act \in Actions,
           NEW wt \in Nat, NEW a, a = AddEntry(s.flows, n, k, hop, act, wt), NEW i, i = Find(a, n, k),
           NEW t, t = WithFlows(s, a), NEW r, r = TellFlow(t, i) \/ (~a[i].changed /\ r = t)
    PROVE  Turns(s, r, r.flows, s.addrs) /\ Calm(r.flows)
<1>1. Cached(Flows, s.told, s.flows)
  BY BusyHas
<1>2. Cached(Flows, s.told, a) /\ \E j \in 1..Len(a) : Altered(s.flows, a, j, n, k)
  BY <1>1, AddEntryIs
<1>3. i \in 1..Len(a) /\ \A j \in 1..Len(a) : j # i => j \in 1..Len(s.flows) /\ a[j] = s.flows[j]
  BY <1>2 DEF Altered
<1>4. \A j \in 1..Len(a) : j # i => ~a[j].changed
  BY <1>3 DEF Calm
<1>5. Turns(s, t, a, s.addrs)
  BY <1>2, WithFlowsIs
<1>6. CASE ~a[i].changed /\ r = t
  <2>1. Calm(a)
    BY <1>4, <1>6 DEF Calm
  <2> QED BY <1>5, <1>6, <2>1 DEF Turns
<1>7. CASE r = TellFlow(t, i)
  <2>1. t \in Busy /\ t.flows = a /\ i \in 1..Len(t.flows)
    BY <1>3, <1>5 DEF Turns
  <2>2. Turns(t, r, r.flows, t.addrs) /\ Cleared(t.flows, r.flows, i)
    BY <1>7, <2>1, TellFlowIs
  <2>3. Calm(r.flows)
    BY <1>4, <2>1, <2>2 DEF Calm, Cleared
  <2> QED BY <1>5, <2>2, <2>3 DEF Turns
<1> QED BY <1>6, <1>7

\* What a handler that leaves no mark makes of s
CalmFlows(s) == {t \in Busy : Turns(s, t, t.flows, s.addrs) /\ Calm(t.flows)}
CalmAddrs(s) == {t \in Busy : Turns(s, t, s.flows, t.addrs) /\ Calm(t.addrs)}

LEMMA SetupFlowStep ==
    ASSUME NEW s, NEW t \in CalmFlows(s), NEW p \in Seq(Hops), NEW i \in 1..(Len(p) - 1), NEW k \in Flows, NEW asker,
           NEW a, a = AddHop(t.flows, p, k, i), NEW u, u = WithFlows(t, a),
           NEW r, r = TellFlowIf(u, Find(a, p[i + 1].node, k), asker)
    PROVE  r \in CalmFlows(s)
<1>1. t \in Busy /\ Calm(t.flows) /\ Turns(s, t, t.flows, s.addrs)
  BY DEF CalmFlows
<1>2. Cached(Flows, t.told, t.flows)
  BY <1>1, BusyHas
<1>3. /\ p[i + 1].node \in Nodes /\ p[i].node \in Nodes /\ p[i + 1].weight \in Nat
      /\ a = AddEntry(t.flows, p[i + 1].node, k, p[i].node, "FORWARD", p[i + 1].weight)
      /\ Cached(Flows, t.told, a)
  BY <1>2, AddHopIs
<1>4. PICK j : j = Find(a, p[i + 1].node, k)
  OBVIOUS
<1>5. u.flows = a
  BY <1>1, <1>3, WithFlowsIs DEF Turns
<1>6. r = TellFlow(u, j) \/ (~a[j].changed /\ r = u)
  BY <1>4, <1>5, Zenon DEF TellFlowIf
<1>7. "FORWARD" \in Actions
  BY DEF Actions
<1>8. Turns(t, r, r.flows, t.addrs) /\ Calm(r.flows)
  BY <1>1, <1>3, <1>4, <1>6, <1>7, AddTellFlowIs
<1> QED BY <1>1, <1>8 DEF CalmFlows, Turns

\* A route is given hop by hop, and no mark is left.
LEMMA SetupFlowIs ==
    ASSUME NEW s \in Busy, Calm(s.flows), NEW p \in Seq(Hops), Len(p) >= 1, NEW k \in Flows, NEW asker,
           NEW r, r = SetupFlow(s, p, k, asker)
    PROVE  r \in CalmFlows(s)
<1> DEFINE l == HopsOf(p)
           m == Len(l)
           S == CalmFlows(s)
           start == s
           Step(t, j) == TellFlowIf([t EXCEPT !.flows = AddHop(t.flows, p, k, l[j])],
                                    Find(AddHop(t.flows, p, k, l[j]), p[l[j] + 1].node, k), asker)
           Rec(h) == h = [i \in 0..m |-> IF i = 0 THEN start ELSE Step(h[i - 1], i)]
<1>1. m \in Nat /\ \A j \in 1..m : l[j] \in 1..(Len(p) - 1)
  BY HopsOfIs
<1>2. start \in S
  BY DEF CalmFlows, Turns
<1>3. \A j \in 1..m : \A t \in S : Step(t, j) \in S
  <2> SUFFICES ASSUME NEW j \in 1..m, NEW t \in S PROVE Step(t, j) \in S
    OBVIOUS
  <2>1. PICK i : i = l[j]
    OBVIOUS
  <2>2. i \in 1..(Len(p) - 1)
    BY <1>1, <2>1
  <2>3. PICK a : a = AddHop(t.flows, p, k, i)
    OBVIOUS
  <2>4. PICK u : u = WithFlows(t, a)
    OBVIOUS
  <2>5. Step(t, j) = TellFlowIf(u, Find(a, p[i + 1].node, k), asker)
    BY <2>1, <2>3, <2>4 DEF WithFlows
  <2> HIDE DEF Step
  <2> QED BY <2>2, <2>3, <2>4, <2>5, SetupFlowStep
<1>4. PICK z : /\ z \in [0..m -> S] /\ z[0] = start /\ r = z[m]
               /\ \A i \in 1..m : z[i] = Step(z[i - 1], i)
  <2> DEFINE f == [i \in 1..m |-> [t \in S |-> Step(t, i)]]
  <2>1. f \in [1..m -> [S -> S]]
    <3> HIDE DEF Step, m, S
    <3> QED BY <1>3
  <2>0. PICK z : Steps(m, S, start, f, z)
    <3>1. m \in Nat /\ start \in S /\ f \in [1..m -> [S -> S]]
      BY <1>1, <1>2, <2>1
    <3> HIDE DEF f, m, S, Step, Rec, start
    <3> QED BY <3>1, StepsExist
  <2>2. z \in [0..m -> S] /\ z[0] = start /\ \A i \in 1..m : z[i] = f[i][z[i - 1]]
    <3> HIDE DEF f, m, S, Step, Rec, start
    <3> QED BY <2>0 DEF Steps
  <2>3. \A i \in 1..m : z[i] = Step(z[i - 1], i)
    <3> SUFFICES ASSUME NEW i \in 1..m PROVE z[i] = Step(z[i - 1], i)
      OBVIOUS
    <3>1. i - 1 \in 0..m
      BY <1>1
    <3> HIDE DEF m, S, Step, start
    <3> QED BY <2>2, <3>1
  <2>4. Rec(z)
    <3>1. ASSUME NEW i \in 0..m PROVE z[i] = IF i = 0 THEN start ELSE Step(z[i - 1], i)
      <4>1. i = 0 \/ i \in 1..m
        BY <1>1
      <4> HIDE DEF m, S, Step, start
      <4> QED BY <2>2, <2>3, <4>1
    <3> HIDE DEF m, S, Step, start
    <3> QED BY <2>2, <3>1
  <2> DEFINE h == CHOOSE h : Rec(h)
  <2>5. r = h[m]
    BY DEF SetupFlow, Folded
  <2>6. Rec(h)
    <3> HIDE DEF Rec
    <3> QED BY <2>4
  <2> HIDE DEF h
  <2>7. \A i \in 0..m : h[i] = IF i = 0 THEN start ELSE Step(h[i - 1], i)
    <3> HIDE DEF Step, start, m
    <3> QED BY <2>6
  <2>8. h[0] = z[0] /\ \A i \in 1..m : h[i - 1] = z[i - 1] => h[i] = z[i]
    <3>1. 0 \in 0..m /\ \A i \in 1..m : i \in 0..m /\ i # 0
      BY <1>1
    <3> HIDE DEF Step, start, m, S
    <3> QED BY <2>2, <2>3, <2>7, <3>1
  <2>9. h[m] = z[m]
    <3>1. m \in Nat
      BY <1>1
    <3> HIDE DEF m, Step, S, start
    <3> QED BY <2>8, <3>1, SameSteps
  <2> QED BY <2>2, <2>3, <2>5, <2>9
<1> QED BY <1>1, <1>4

\* The entries that are marked are told, one by one.
LEMMA TellFlowsIs ==
    ASSUME NEW s \in Busy, NEW r, r = TellFlows(s)
    PROVE  r \in CalmFlows(s)
<1> DEFINE l == [i \in DOMAIN s.flows |-> i]
           m == Len(l)
           S == {t \in Busy : Turns(s, t, t.flows, s.addrs) /\ Len(t.flows) = Len(s.flows)}
           start == s
           Step(t, j) == IF t.flows[l[j]].changed THEN TellFlow(t, l[j]) ELSE t
           Rec(h) == h = [i \in 0..m |-> IF i = 0 THEN start ELSE Step(h[i - 1], i)]
<1>0. Len(s.flows) \in Nat /\ DOMAIN s.flows = 1..Len(s.flows)
  <2>1. s.flows \in Seq(Entry(Flows))
    BY BusyHas DEF Cached
  <2> QED BY <2>1
<1>1. m \in Nat /\ m = Len(s.flows) /\ \A j \in 1..m : l[j] = j
  BY <1>0, Counted
<1>2. start \in S
  BY DEF Turns
<1>5. \A j \in 1..m : \A t \in S : Step(t, j) \in S /\ ~Step(t, j).flows[j].changed
                       /\ \A x \in 1..m : x # j => Step(t, j).flows[x] = t.flows[x]
  <2> SUFFICES ASSUME NEW j \in 1..m, NEW t \in S
               PROVE  Step(t, j) \in S /\ ~Step(t, j).flows[j].changed
                       /\ \A x \in 1..m : x # j => Step(t, j).flows[x] = t.flows[x]
    OBVIOUS
  <2>1. l[j] = j /\ t \in Busy /\ Turns(s, t, t.flows, s.addrs) /\ Len(t.flows) = m /\ j \in 1..Len(t.flows)
    BY <1>1
  <2> HIDE DEF l, m
  <2>2. PICK u : u = Step(t, j)
    <3> HIDE DEF Step
    <3> QED OBVIOUS
  <2>3. CASE t.flows[j].changed
    <3>1. u = TellFlow(t, j)
      BY <2>1, <2>2, <2>3, Zenon
    <3>2. Turns(t, u, u.flows, t.addrs) /\ Cleared(t.flows, u.flows, j)
      BY <2>1, <3>1, TellFlowIs
    <3>3. u \in S /\ u.flows[j].changed = FALSE /\ \A x \in 1..m : x # j => u.flows[x] = t.flows[x]
      BY <1>1, <2>1, <3>2 DEF Turns, Cleared
    <3> HIDE DEF Step, S
    <3> QED BY <2>2, <3>3
  <2>4. CASE ~t.flows[j].changed
    <3>1. u = t
      BY <2>1, <2>2, <2>4, Zenon
    <3> HIDE DEF Step, S
    <3> QED BY <2>2, <2>4, <3>1, Zenon
  <2> QED BY <2>3, <2>4
<1>3. \A j \in 1..m : \A t \in S : Step(t, j) \in S
  <2> HIDE DEF S, Step, m
  <2> QED BY <1>5
<1>4. PICK z : /\ z \in [0..m -> S] /\ z[0] = start /\ r = z[m]
               /\ \A i \in 1..m : z[i] = Step(z[i - 1], i)
  <2> DEFINE f == [i \in 1..m |-> [t \in S |-> Step(t, i)]]
  <2>1. f \in [1..m -> [S -> S]]
    <3> HIDE DEF Step, m, S
    <3> QED BY <1>3
  <2>0. PICK z : Steps(m, S, start, f, z)
    <3>1. m \in Nat /\ start \in S /\ f \in [1..m -> [S -> S]]
      BY <1>1, <1>2, <2>1
    <3> HIDE DEF f, m, S, Step, Rec, start
    <3> QED BY <3>1, StepsExist
  <2>2. z \in [0..m -> S] /\ z[0] = start /\ \A i \in 1..m : z[i] = f[i][z[i - 1]]
    <3> HIDE DEF f, m, S, Step, Rec, start
    <3> QED BY <2>0 DEF Steps
  <2>3. \A i \in 1..m : z[i] = Step(z[i - 1], i)
    <3> SUFFICES ASSUME NEW i \in 1..m PROVE z[i] = Step(z[i - 1], i)
      OBVIOUS
    <3>1. i - 1 \in 0..m
      BY <1>1
    <3> HIDE DEF m, S, Step, start
    <3> QED BY <2>2, <3>1
  <2>4. Rec(z)
    <3>1. ASSUME NEW i \in 0..m PROVE z[i] = IF i = 0 THEN start ELSE Step(z[i - 1], i)
      <4>1. i = 0 \/ i \in 1..m
        BY <1>1
      <4> HIDE DEF m, S, Step, start
      <4> QED BY <2>2, <2>3, <4>1
    <3> HIDE DEF m, S, Step, start
    <3> QED BY <2>2, <3>1
  <2> DEFINE h == CHOOSE h : Rec(h)
  <2>5. r = h[m]
    BY DEF TellFlows, Folded
  <2>6. Rec(h)
    <3> HIDE DEF Rec
    <3> QED BY <2>4
  <2> HIDE DEF h
  <2>7. \A i \in 0..m : h[i] = IF i = 0 THEN start ELSE Step(h[i - 1], i)
    <3> HIDE DEF Step, start, m
    <3> QED BY <2>6
  <2>8. h[0] = z[0] /\ \A i \in 1..m : h[i - 1] = z[i - 1] => h[i] = z[i]
    <3>1. 0 \in 0..m /\ \A i \in 1..m : i \in 0..m /\ i # 0
      BY <1>1
    <3> HIDE DEF Step, start, m, S
    <3> QED BY <2>2, <2>3, <2>7, <3>1
  <2>9. h[m] = z[m]
    <3>1. m \in Nat
      BY <1>1
    <3> HIDE DEF m, Step, S, start
    <3> QED BY <2>8, <3>1, SameSteps
  <2> QED BY <2>2, <2>3, <2>5, <2>9
<1> DEFINE G == {i \in 0..m : \A j \in 1..i : ~z[i].flows[j].changed}
<1>6. \A i \in 0..m : i \in G
  <2>1. 0 \in G
    BY <1>1
  <2>2. ASSUME NEW i \in 1..m, i - 1 \in G PROVE i \in G
    <3>1. i - 1 \in 0..m /\ i \in 0..m
      BY <1>1
    <3>2. z[i - 1] \in S /\ z[i] = Step(z[i - 1], i)
      <4> HIDE DEF S, Step, m
      <4> QED BY <1>4, <3>1
    <3>3. ~z[i].flows[i].changed /\ \A x \in 1..m : x # i => z[i].flows[x] = z[i - 1].flows[x]
      <4> HIDE DEF S, Step, m
      <4> QED BY <1>5, <3>2
    <3>4. ASSUME NEW j \in 1..i PROVE ~z[i].flows[j].changed
      <4>1. CASE j = i
        BY <3>3, <4>1, Zenon
      <4>2. CASE j # i
        <5>1. j \in 1..(i - 1) /\ j \in 1..m
          BY <1>1, <4>2
        <5>2. ~z[i - 1].flows[j].changed
          BY <2>2, <5>1
        <5>3. z[i].flows[j] = z[i - 1].flows[j]
          BY <3>3, <4>2, <5>1
        <5> QED BY <5>2, <5>3, Zenon
      <4> QED BY <4>1, <4>2
    <3> HIDE DEF m
    <3> QED BY <3>1, <3>4
  <2> HIDE DEF G, m
  <2>3. m \in Nat
    BY <1>1
  <2> QED BY <2>1, <2>2, <2>3, CountUp
<1>7. r \in S /\ \A j \in 1..m : ~r.flows[j].changed
  <2>1. m \in 0..m
    BY <1>1
  <2>2. r \in S
    <3> HIDE DEF S, Step, m
    <3> QED BY <1>4, <2>1
  <2>3. r = z[m] /\ m \in G
    <3> HIDE DEF S, Step, m, G
    <3> QED BY <1>4, <1>6, <2>1
  <2> HIDE DEF m
  <2> QED BY <2>2, <2>3
<1> QED BY <1>1, <1>7 DEF CalmFlows, Calm

LEMMA AddTellAddressIs ==
    ASSUME NEW s \in Busy, Calm(s.addrs), NEW n \in Nodes, NEW k \in Nodes, NEW hop \in Nodes, NEW act \in Actions,
           NEW wt \in Nat, NEW a, a = AddEntry(s.addrs, n, k, hop, act, wt), NEW i, i = Find(a, n, k),
           NEW t, t = WithAddrs(s, a), NEW r, r = TellAddress(t, i) \/ (~a[i].changed /\ r = t)
    PROVE  Turns(s, r, s.flows, r.addrs) /\ Calm(r.addrs)
<1>1. Cached(Nodes, s.told, s.addrs)
  BY BusyHas
<1>2. Cached(Nodes, s.told, a) /\ \E j \in 1..Len(a) : Altered(s.addrs, a, j, n, k)
  BY <1>1, AddEntryIs
<1>3. i \in 1..Len(a) /\ \A j \in 1..Len(a) : j # i => j \in 1..Len(s.addrs) /\ a[j] = s.addrs[j]
  BY <1>2 DEF Altered
<1>4. \A j \in 1..Len(a) : j # i => ~a[j].changed
  BY <1>3 DEF Calm
<1>5. Turns(s, t, s.flows, a)
  BY <1>2, WithAddrsIs
<1>6. CASE ~a[i].changed /\ r = t
  <2>1. Calm(a)
    BY <1>4, <1>6 DEF Calm
  <2> QED BY <1>5, <1>6, <2>1 DEF Turns
<1>7. CASE r = TellAddress(t, i)
  <2>1. t \in Busy /\ t.addrs = a /\ i \in 1..Len(t.addrs)
    BY <1>3, <1>5 DEF Turns
  <2>2. Turns(t, r, t.flows, r.addrs) /\ Cleared(t.addrs, r.addrs, i)
    BY <1>7, <2>1, TellAddressIs
  <2>3. Calm(r.addrs)
    BY <1>4, <2>1, <2>2 DEF Calm, Cleared
  <2> QED BY <1>5, <2>2, <2>3 DEF Turns
<1> QED BY <1>6, <1>7

LEMMA SetupAddressStep ==
    ASSUME NEW s, NEW t \in CalmAddrs(s), NEW p \in Seq(Hops), NEW i \in 1..(Len(p) - 1), NEW k \in Nodes, NEW asker,
           NEW a, a = AddHop(t.addrs, p, k, i), NEW u, u = WithAddrs(t, a),
           NEW r, r = TellAddressIf(u, Find(a, p[i + 1].node, k), asker)
    PROVE  r \in CalmAddrs(s)
<1>1. t \in Busy /\ Calm(t.addrs) /\ Turns(s, t, s.flows, t.addrs)
  BY DEF CalmAddrs
<1>2. Cached(Nodes, t.told, t.addrs)
  BY <1>1, BusyHas
<1>3. /\ p[i + 1].node \in Nodes /\ p[i].node \in Nodes /\ p[i + 1].weight \in Nat
      /\ a = AddEntry(t.addrs, p[i + 1].node, k, p[i].node, "FORWARD", p[i + 1].weight)
      /\ Cached(Nodes, t.told, a)
  BY <1>2, AddHopIs
<1>4. PICK j : j = Find(a, p[i + 1].node, k)
  OBVIOUS
<1>5. u.addrs = a
  BY <1>1, <1>3, WithAddrsIs DEF Turns
<1>6. r = TellAddress(u, j) \/ (~a[j].changed /\ r = u)
  BY <1>4, <1>5, Zenon DEF TellAddressIf
<1>7. "FORWARD" \in Actions
  BY DEF Actions
<1>8. Turns(t, r, t.flows, r.addrs) /\ Calm(r.addrs)
  BY <1>1, <1>3, <1>4, <1>6, <1>7, AddTellAddressIs
<1> QED BY <1>1, <1>8 DEF CalmAddrs, Turns

LEMMA SetupAddressIs ==
    ASSUME NEW s \in Busy, Calm(s.addrs), NEW p \in Seq(Hops), Len(p) >= 1, NEW k \in Nodes, NEW asker,
           NEW r, r = SetupAddress(s, p, k, asker)
    PROVE  r \in CalmAddrs(s)
<1> DEFINE l == HopsOf(p)
           m == Len(l)
           S == CalmAddrs(s)
           start == s
           Step(t, j) == TellAddressIf([t EXCEPT !.addrs = AddHop(t.addrs, p, k, l[j])],
                                    Find(AddHop(t.addrs, p, k, l[j]), p[l[j] + 1].node, k), asker)
           Rec(h) == h = [i \in 0..m |-> IF i = 0 THEN start ELSE Step(h[i - 1], i)]
<1>1. m \in Nat /\ \A j \in 1..m : l[j] \in 1..(Len(p) - 1)
  BY HopsOfIs
<1>2. start \in S
  BY DEF CalmAddrs, Turns
<1>3. \A j \in 1..m : \A t \in S : Step(t, j) \in S
  <2> SUFFICES ASSUME NEW j \in 1..m, NEW t \in S PROVE Step(t, j) \in S
    OBVIOUS
  <2>1. PICK i : i = l[j]
    OBVIOUS
  <2>2. i \in 1..(Len(p) - 1)
    BY <1>1, <2>1
  <2>3. PICK a : a = AddHop(t.addrs, p, k, i)
    OBVIOUS
  <2>4. PICK u : u = WithAddrs(t, a)
    OBVIOUS
  <2>5. Step(t, j) = TellAddressIf(u, Find(a, p[i + 1].node, k), asker)
    BY <2>1, <2>3, <2>4 DEF WithAddrs
  <2> HIDE DEF Step
  <2> QED BY <2>2, <2>3, <2>4, <2>5, SetupAddressStep
<1>4. PICK z : /\ z \in [0..m -> S] /\ z[0] = start /\ r = z[m]
               /\ \A i \in 1..m : z[i] = Step(z[i - 1], i)
  <2> DEFINE f == [i \in 1..m |-> [t \in S |-> Step(t, i)]]
  <2>1. f \in [1..m -> [S -> S]]
    <3> HIDE DEF Step, m, S
    <3> QED BY <1>3
  <2>0. PICK z : Steps(m, S, start, f, z)
    <3>1. m \in Nat /\ start \in S /\ f \in [1..m -> [S -> S]]
      BY <1>1, <1>2, <2>1
    <3> HIDE DEF f, m, S, Step, Rec, start
    <3> QED BY <3>1, StepsExist
  <2>2. z \in [0..m -> S] /\ z[0] = start /\ \A i \in 1..m : z[i] = f[i][z[i - 1]]
    <3> HIDE DEF f, m, S, Step, Rec, start
    <3> QED BY <2>0 DEF Steps
  <2>3. \A i \in 1..m : z[i] = Step(z[i - 1], i)
    <3> SUFFICES ASSUME NEW i \in 1..m PROVE z[i] = Step(z[i - 1], i)
      OBVIOUS
    <3>1. i - 1 \in 0..m
      BY <1>1
    <3> HIDE DEF m, S, Step, start
    <3> QED BY <2>2, <3>1
  <2>4. Rec(z)
    <3>1. ASSUME NEW i \in 0..m PROVE z[i] = IF i = 0 THEN start ELSE Step(z[i - 1], i)
      <4>1. i = 0 \/ i \in 1..m
        BY <1>1
      <4> HIDE DEF m, S, Step, start
      <4> QED BY <2>2, <2>3, <4>1
    <3> HIDE DEF m, S, Step, start
    <3> QED BY <2>2, <3>1
  <2> DEFINE h == CHOOSE h : Rec(h)
  <2>5. r = h[m]
    BY DEF SetupAddress, Folded
  <2>6. Rec(h)
    <3> HIDE DEF Rec
    <3> QED BY <2>4
  <2> HIDE DEF h
  <2>7. \A i \in 0..m : h[i] = IF i = 0 THEN start ELSE Step(h[i - 1], i)
    <3> HIDE DEF Step, start, m
    <3> QED BY <2>6
  <2>8. h[0] = z[0] /\ \A i \in 1..m : h[i - 1] = z[i - 1] => h[i] = z[i]
    <3>1. 0 \in 0..m /\ \A i \in 1..m : i \in 0..m /\ i # 0
      BY <1>1
    <3> HIDE DEF Step, start, m, S
    <3> QED BY <2>2, <2>3, <2>7, <3>1
  <2>9. h[m] = z[m]
    <3>1. m \in Nat
      BY <1>1
    <3> HIDE DEF m, Step, S, start
    <3> QED BY <2>8, <3>1, SameSteps
  <2> QED BY <2>2, <2>3, <2>5, <2>9
<1> QED BY <1>1, <1>4

LEMMA TellAddressesIs ==
    ASSUME NEW s \in Busy, NEW r, r = TellAddresses(s)
    PROVE  r \in CalmAddrs(s)
<1> DEFINE l == [i \in DOMAIN s.addrs |-> i]
           m == Len(l)
           S == {t \in Busy : Turns(s, t, s.flows, t.addrs) /\ Len(t.addrs) = Len(s.addrs)}
           start == s
           Step(t, j) == IF t.addrs[l[j]].changed THEN TellAddress(t, l[j]) ELSE t
           Rec(h) == h = [i \in 0..m |-> IF i = 0 THEN start ELSE Step(h[i - 1], i)]
<1>0. Len(s.addrs) \in Nat /\ DOMAIN s.addrs = 1..Len(s.addrs)
  <2>1. s.addrs \in Seq(Entry(Nodes))
    BY BusyHas DEF Cached
  <2> QED BY <2>1
<1>1. m \in Nat /\ m = Len(s.addrs) /\ \A j \in 1..m : l[j] = j
  BY <1>0, Counted
<1>2. start \in S
  BY DEF Turns
<1>5. \A j \in 1..m : \A t \in S : Step(t, j) \in S /\ ~Step(t, j).addrs[j].changed
                       /\ \A x \in 1..m : x # j => Step(t, j).addrs[x] = t.addrs[x]
  <2> SUFFICES ASSUME NEW j \in 1..m, NEW t \in S
               PROVE  Step(t, j) \in S /\ ~Step(t, j).addrs[j].changed
                       /\ \A x \in 1..m : x # j => Step(t, j).addrs[x] = t.addrs[x]
    OBVIOUS
  <2>1. l[j] = j /\ t \in Busy /\ Turns(s, t, s.flows, t.addrs) /\ Len(t.addrs) = m /\ j \in 1..Len(t.addrs)
    BY <1>1
  <2> HIDE DEF l, m
  <2>2. PICK u : u = Step(t, j)
    <3> HIDE DEF Step
    <3> QED OBVIOUS
  <2>3. CASE t.addrs[j].changed
    <3>1. u = TellAddress(t, j)
      BY <2>1, <2>2, <2>3, Zenon
    <3>2. Turns(t, u, t.flows, u.addrs) /\ Cleared(t.addrs, u.addrs, j)
      BY <2>1, <3>1, TellAddressIs
    <3>3. u \in S /\ u.addrs[j].changed = FALSE /\ \A x \in 1..m : x # j => u.addrs[x] = t.addrs[x]
      BY <1>1, <2>1, <3>2 DEF Turns, Cleared
    <3> HIDE DEF Step, S
    <3> QED BY <2>2, <3>3
  <2>4. CASE ~t.addrs[j].changed
    <3>1. u = t
      BY <2>1, <2>2, <2>4, Zenon
    <3> HIDE DEF Step, S
    <3> QED BY <2>2, <2>4, <3>1, Zenon
  <2> QED BY <2>3, <2>4
<1>3. \A j \in 1..m : \A t \in S : Step(t, j) \in S
  <2> HIDE DEF S, Step, m
  <2> QED BY <1>5
<1>4. PICK z : /\ z \in [0..m -> S] /\ z[0] = start /\ r = z[m]
               /\ \A i \in 1..m : z[i] = Step(z[i - 1], i)
  <2> DEFINE f == [i \in 1..m |-> [t \in S |-> Step(t, i)]]
  <2>1. f \in [1..m -> [S -> S]]
    <3> HIDE DEF Step, m, S
    <3> QED BY <1>3
  <2>0. PICK z : Steps(m, S, start, f, z)
    <3>1. m \in Nat /\ start \in S /\ f \in [1..m -> [S -> S]]
      BY <1>1, <1>2, <2>1
    <3> HIDE DEF f, m, S, Step, Rec, start
    <3> QED BY <3>1, StepsExist
  <2>2. z \in [0..m -> S] /\ z[0] = start /\ \A i \in 1..m : z[i] = f[i][z[i - 1]]
    <3> HIDE DEF f, m, S, Step, Rec, start
    <3> QED BY <2>0 DEF Steps
  <2>3. \A i \in 1..m : z[i] = Step(z[i - 1], i)
    <3> SUFFICES ASSUME NEW i \in 1..m PROVE z[i] = Step(z[i - 1], i)
      OBVIOUS
    <3>1. i - 1 \in 0..m
      BY <1>1
    <3> HIDE DEF m, S, Step, start
    <3> QED BY <2>2, <3>1
  <2>4. Rec(z)
    <3>1. ASSUME NEW i \in 0..m PROVE z[i] = IF i = 0 THEN start ELSE Step(z[i - 1], i)
      <4>1. i = 0 \/ i \in 1..m
        BY <1>1
      <4> HIDE DEF m, S, Step, start
      <4> QED BY <2>2, <2>3, <4>1
    <3> HIDE DEF m, S, Step, start
    <3> QED BY <2>2, <3>1
  <2> DEFINE h == CHOOSE h : Rec(h)
  <2>5. r = h[m]
    BY DEF TellAddresses, Folded
  <2>6. Rec(h)
    <3> HIDE DEF Rec
    <3> QED BY <2>4
  <2> HIDE DEF h
  <2>7. \A i \in 0..m : h[i] = IF i = 0 THEN start ELSE Step(h[i - 1], i)
    <3> HIDE DEF Step, start, m
    <3> QED BY <2>6
  <2>8. h[0] = z[0] /\ \A i \in 1..m : h[i - 1] = z[i - 1] => h[i] = z[i]
    <3>1. 0 \in 0..m /\ \A i \in 1..m : i \in 0..m /\ i # 0
      BY <1>1
    <3> HIDE DEF Step, start, m, S
    <3> QED BY <2>2, <2>3, <2>7, <3>1
  <2>9. h[m] = z[m]
    <3>1. m \in Nat
      BY <1>1
    <3> HIDE DEF m, Step, S, start
    <3> QED BY <2>8, <3>1, SameSteps
  <2> QED BY <2>2, <2>3, <2>5, <2>9
<1> DEFINE G == {i \in 0..m : \A j \in 1..i : ~z[i].addrs[j].changed}
<1>6. \A i \in 0..m : i \in G
  <2>1. 0 \in G
    BY <1>1
  <2>2. ASSUME NEW i \in 1..m, i - 1 \in G PROVE i \in G
    <3>1. i - 1 \in 0..m /\ i \in 0..m
      BY <1>1
    <3>2. z[i - 1] \in S /\ z[i] = Step(z[i - 1], i)
      <4> HIDE DEF S, Step, m
      <4> QED BY <1>4, <3>1
    <3>3. ~z[i].addrs[i].changed /\ \A x \in 1..m : x # i => z[i].addrs[x] = z[i - 1].addrs[x]
      <4> HIDE DEF S, Step, m
      <4> QED BY <1>5, <3>2
    <3>4. ASSUME NEW j \in 1..i PROVE ~z[i].addrs[j].changed
      <4>1. CASE j = i
        BY <3>3, <4>1, Zenon
      <4>2. CASE j # i
        <5>1. j \in 1..(i - 1) /\ j \in 1..m
          BY <1>1, <4>2
        <5>2. ~z[i - 1].addrs[j].changed
          BY <2>2, <5>1
        <5>3. z[i].addrs[j] = z[i - 1].addrs[j]
          BY <3>3, <4>2, <5>1
        <5> QED BY <5>2, <5>3, Zenon
      <4> QED BY <4>1, <4>2
    <3> HIDE DEF m
    <3> QED BY <3>1, <3>4
  <2> HIDE DEF G, m
  <2>3. m \in Nat
    BY <1>1
  <2> QED BY <2>1, <2>2, <2>3, CountUp
<1>7. r \in S /\ \A j \in 1..m : ~r.addrs[j].changed
  <2>1. m \in 0..m
    BY <1>1
  <2>2. r \in S
    <3> HIDE DEF S, Step, m
    <3> QED BY <1>4, <2>1
  <2>3. r = z[m] /\ m \in G
    <3> HIDE DEF S, Step, m, G
    <3> QED BY <1>4, <1>6, <2>1
  <2> HIDE DEF m
  <2> QED BY <2>2, <2>3
<1> QED BY <1>1, <1>7 DEF CalmAddrs, Calm

-----------------------------------------------------------------------------
(* The routes that were given: routes to a flow *)

\* What a walk over the cache of flows makes of s: marks may be left.
MoreFlows(s) == {t \in Busy : Turns(s, t, t.flows, s.addrs) /\ Len(t.flows) >= Len(s.flows)}
MoreAddrs(s) == {t \in Busy : Turns(s, t, s.flows, t.addrs) /\ Len(t.addrs) >= Len(s.addrs)}

LEMMA LengthsOf ==
    ASSUME NEW s \in Busy
    PROVE  Len(s.flows) \in Nat /\ Len(s.addrs) \in Nat /\ s \in MoreFlows(s) /\ s \in MoreAddrs(s)
<1>1. Cached(Flows, s.told, s.flows) /\ Cached(Nodes, s.told, s.addrs)
  BY BusyHas
<1>2. Len(s.flows) \in Nat /\ Len(s.addrs) \in Nat
  BY <1>1, EntriesOf
<1> QED BY <1>2 DEF MoreFlows, MoreAddrs, Turns

Bests == [s : Busy, best : Routes, keep : BOOLEAN]

\* While the targets of a flow are tried, for the entry i, or for none
Tries(s, i) == {t \in Bests : t.s \in MoreFlows(s) /\ (i = 0 => t.s.flows = s.flows)}

\* A route that is one has a first and a last hop.
LEMMA RouteEnds ==
    ASSUME NEW p \in Routes, p # <<>>
    PROVE  /\ p \in Seq(Hops) /\ Len(p) \in Nat /\ Len(p) >= 2 /\ FirstHop(p) \in Nodes /\ p[1].weight \in Nat
           /\ \A i \in 1..Len(p) : p[i].node \in Nodes /\ p[i].weight \in Nat
<1>1. p \in Seq(Hops) /\ Len(p) \in Nat /\ Len(p) >= 2
  BY DEF Routes
<1>2. \A i \in 1..Len(p) : p[i] \in Hops
  BY <1>1
<1>3. \A i \in 1..Len(p) : p[i].node \in Nodes /\ p[i].weight \in Nat
  BY <1>2 DEF Hops
<1>4. Len(p) - 1 \in 1..Len(p) /\ 1 \in 1..Len(p)
  BY <1>1
<1>5. FirstHop(p) \in Nodes /\ p[1].weight \in Nat
  BY <1>3, <1>4 DEF FirstHop
<1> QED BY <1>1, <1>3, <1>5

LEMMA BetterIs ==
    ASSUME NEW b \in Routes, NEW p \in Routes
    PROVE  Better(b, p) \in Routes
  BY Zenon DEF Better

LEMMA TryTargetIs ==
    ASSUME NEW s \in Busy, NEW n \in Nodes, NEW k \in Flows, NEW i, NEW t \in Tries(s, i),
           NEW found, found.graph \in Graphs, found.route \in Routes, NEW r, r = TryTarget(t, k, n, i, found)
    PROVE  r \in Tries(s, i)
<1>1. t.s \in Busy /\ t.best \in Routes /\ t.keep \in BOOLEAN /\ t.s \in MoreFlows(s) /\ (i = 0 => t.s.flows = s.flows)
  BY DEF Tries, Bests
<1>2. PICK b : b = Better(t.best, found.route)
  OBVIOUS
<1>3. b \in Routes
  BY <1>1, <1>2, BetterIs
<1>4. PICK same : same = (i # 0 /\ b # <<>> /\ FirstHop(b) = t.s.flows[i].hop)
  OBVIOUS
<1>5. same \in BOOLEAN /\ (same => i # 0 /\ b # <<>>)
  BY <1>4
<1>6. PICK f : f = IF same THEN AddEntry(t.s.flows, n, k, FirstHop(b), "FORWARD", b[1].weight) ELSE t.s.flows
  OBVIOUS
<1>7. Cached(Flows, t.s.told, t.s.flows) /\ Len(t.s.flows) \in Nat /\ Len(s.flows) \in Nat
  BY <1>1, BusyHas, LengthsOf
<1>8. Cached(Flows, t.s.told, f) /\ Len(f) >= Len(t.s.flows) /\ Len(f) \in Nat /\ (i = 0 => f = t.s.flows)
  <2>1. CASE same
    <3>1. f = AddEntry(t.s.flows, n, k, FirstHop(b), "FORWARD", b[1].weight)
      BY <1>6, <2>1
    <3>2. FirstHop(b) \in Nodes /\ b[1].weight \in Nat /\ "FORWARD" \in Actions
      BY <1>3, <1>5, <2>1, RouteEnds DEF Actions
    <3>3. Cached(Flows, t.s.told, f) /\ \E j \in 1..Len(f) : Altered(t.s.flows, f, j, n, k)
      BY <1>7, <3>1, <3>2, AddEntryIs
    <3>4. Len(f) >= Len(t.s.flows) /\ Len(f) \in Nat
      BY <3>3, EntriesOf DEF Altered
    <3> QED BY <1>5, <2>1, <3>3, <3>4
  <2>2. CASE ~same
    BY <1>6, <1>7, <2>2
  <2> QED BY <1>5, <2>1, <2>2
<1>9. PICK u : u = [t.s EXCEPT !.graph = found.graph, !.flows = f]
  OBVIOUS
<1>10. IsWith(t.s, u, found.graph, f, t.s.addrs, t.s.told)
  <2>1. u = With(t.s, found.graph, f, t.s.addrs, t.s.told)
    BY <1>1, <1>9, Remade, Zenon
  <2>2. t.s.told \in Words /\ Cached(Nodes, t.s.told, t.s.addrs)
    BY <1>1, BusyHas
  <2> QED BY <1>1, <1>8, <2>1, <2>2, WithIs
<1>11. u \in MoreFlows(s) /\ u \in Busy /\ u.flows = f
  BY <1>1, <1>7, <1>8, <1>10 DEF MoreFlows, IsWith, Turns
<1>12. r = [s |-> u, best |-> b, keep |-> t.keep \/ same]
  BY <1>2, <1>4, <1>6, <1>9 DEF TryTarget, WithTarget
<1>13. (t.keep \/ same) \in BOOLEAN
  OBVIOUS
<1>14. PICK q : q = (t.keep \/ same)
  OBVIOUS
<1>15. r = [s |-> u, best |-> b, keep |-> q] /\ q \in BOOLEAN
  BY <1>12, <1>13, <1>14
<1>16. r \in Bests /\ r.s = u
  BY <1>3, <1>11, <1>15 DEF Bests
<1> QED BY <1>1, <1>8, <1>11, <1>16 DEF Tries

\* Whatever its targets, a flow gets a best route or none.
LEMMA BestFlowRouteIs ==
    ASSUME NEW s \in Busy, NEW n \in Nodes, NEW k \in Flows, NEW x, NEW r, r = BestFlowRoute(s, n, k, x)
    PROVE  r \in Tries(s, x)
<1> DEFINE P == {j \in DOMAIN s.ids : s.ids[j].flow = k}
           l == Among(s.ids, P)
           m == Len(l)
           S == Tries(s, x)
           start == [s |-> s, best |-> <<>>, keep |-> FALSE]
           Step(t, j) == TryTarget(t, k, n, x, ShortestPath(t.s.graph, n, l[j].target))
           Rec(h) == h = [j \in 0..m |-> IF j = 0 THEN start ELSE Step(h[j - 1], j)]
<1>1. m \in Nat /\ \A j \in 1..m : l[j].target \in Nodes
  <2>1. s.ids \in Seq(Registered)
    BY BusyHas
  <2>2. P \in SUBSET (1..Len(s.ids))
    BY <2>1
  <2> HIDE DEF P
  <2>3. Thinned(Registered, s.ids, P, l)
    BY <2>1, <2>2, AmongHas
  <2> HIDE DEF l
  <2>4. l \in Seq(Registered)
    BY <2>3 DEF Thinned
  <2>5. m \in Nat /\ \A j \in 1..m : l[j] \in Registered
    BY <2>4
  <2> HIDE DEF m
  <2> QED BY <2>5 DEF Registered
<1>2. start \in S
  <2>1. <<>> \in Routes /\ s \in MoreFlows(s)
    BY LengthsOf DEF Routes
  <2> QED BY <2>1 DEF Tries, Bests
<1>3. \A j \in 1..m : \A t \in S : Step(t, j) \in S
  <2> SUFFICES ASSUME NEW j \in 1..m, NEW t \in S PROVE Step(t, j) \in S
    OBVIOUS
  <2>1. PICK to : to = l[j].target
    OBVIOUS
  <2>2. to \in Nodes
    BY <1>1, <2>1
  <2>3. PICK found : found = ShortestPath(t.s.graph, n, to)
    OBVIOUS
  <2>4. Good(Metrics, {MaxBattery}, t.s.graph) /\ Limits(Metrics, {MaxBattery})
    <3>1. t.s \in Busy
      BY DEF Tries, Bests
    <3> QED BY <3>1, BusyHas, GraphsGood
  <2>5. found.graph \in Graphs /\ found.route \in Routes
    <3>1. Good(Metrics, {MaxBattery}, found.graph) /\ found.route \in Routes
      BY <2>2, <2>3, <2>4, ShortestPathIs
    <3> QED BY <3>1, GraphsGood
  <2>6. Step(t, j) = TryTarget(t, k, n, x, found)
    BY <2>1, <2>3
  <2> HIDE DEF Step, m, l
  <2> QED BY <2>5, <2>6, TryTargetIs
<1>4. PICK all : all = Folded(LAMBDA t, id : TryTarget(t, k, n, x, ShortestPath(t.s.graph, n, id.target)), start, l)
  BY Zenon
<1>5. PICK z : /\ z \in [0..m -> S] /\ z[0] = start /\ all = z[m]
               /\ \A i \in 1..m : z[i] = Step(z[i - 1], i)
  <2> DEFINE f == [i \in 1..m |-> [t \in S |-> Step(t, i)]]
  <2>1. f \in [1..m -> [S -> S]]
    <3> HIDE DEF Step, m, S
    <3> QED BY <1>3
  <2>0. PICK z : Steps(m, S, start, f, z)
    <3>1. m \in Nat /\ start \in S /\ f \in [1..m -> [S -> S]]
      BY <1>1, <1>2, <2>1
    <3> HIDE DEF f, m, S, Step, Rec, start
    <3> QED BY <3>1, StepsExist
  <2>2. z \in [0..m -> S] /\ z[0] = start /\ \A i \in 1..m : z[i] = f[i][z[i - 1]]
    <3> HIDE DEF f, m, S, Step, Rec, start
    <3> QED BY <2>0 DEF Steps
  <2>3. \A i \in 1..m : z[i] = Step(z[i - 1], i)
    <3> SUFFICES ASSUME NEW i \in 1..m PROVE z[i] = Step(z[i - 1], i)
      OBVIOUS
    <3>1. i - 1 \in 0..m
      BY <1>1
    <3> HIDE DEF m, S, Step, start
    <3> QED BY <2>2, <3>1
  <2>4. Rec(z)
    <3>1. ASSUME NEW i \in 0..m PROVE z[i] = IF i = 0 THEN start ELSE Step(z[i - 1], i)
      <4>1. i = 0 \/ i \in 1..m
        BY <1>1
      <4> HIDE DEF m, S, Step, start
      <4> QED BY <2>2, <2>3, <4>1
    <3> HIDE DEF m, S, Step, start
    <3> QED BY <2>2, <3>1
  <2> DEFINE h == CHOOSE h : Rec(h)
  <2>5. all = h[m]
    BY <1>4 DEF Folded
  <2>6. Rec(h)
    <3> HIDE DEF Rec
    <3> QED BY <2>4
  <2> HIDE DEF h
  <2>7. \A i \in 0..m : h[i] = IF i = 0 THEN start ELSE Step(h[i - 1], i)
    <3> HIDE DEF Step, start, m
    <3> QED BY <2>6
  <2>8. h[0] = z[0] /\ \A i \in 1..m : h[i - 1] = z[i - 1] => h[i] = z[i]
    <3>1. 0 \in 0..m /\ \A i \in 1..m : i \in 0..m /\ i # 0
      BY <1>1
    <3> HIDE DEF Step, start, m, S
    <3> QED BY <2>2, <2>3, <2>7, <3>1
  <2>9. h[m] = z[m]
    <3>1. m \in Nat
      BY <1>1
    <3> HIDE DEF m, Step, S, start
    <3> QED BY <2>8, <3>1, SameSteps
  <2> QED BY <2>2, <2>3, <2>5, <2>9
<1>6. all \in S
  <2>1. m \in 0..m
    BY <1>1
  <2> HIDE DEF S, Step, m
  <2> QED BY <1>5, <2>1
<1>7. r = KeepSimilar(all, x)
  BY <1>4, Zenon DEF BestFlowRoute
<1>8. PICK q : q = (all.keep /\ Similar(all.best[1].weight, all.s.flows[x].weight))
  OBVIOUS
<1>9. q \in BOOLEAN
  BY <1>8
<1>10. r = [all EXCEPT !.keep = q]
  BY <1>7, <1>8 DEF KeepSimilar
<1>11. all \in Bests /\ all.s \in MoreFlows(s) /\ (x = 0 => all.s.flows = s.flows)
  BY <1>6 DEF Tries
<1>12. r \in Bests /\ r.s = all.s
  BY <1>9, <1>10, <1>11 DEF Bests
<1> QED BY <1>11, <1>12 DEF Tries

\* All the entries of a route
AllHops(l, p, k) == Folded(LAMBDA q, i : AddHop(q, p, k, i), l, HopsOf(p))

LEMMA AllHopsAre ==
    ASSUME NEW K, NEW w, NEW l0, Cached(K, w, l0), NEW p \in Seq(Hops), Len(p) >= 1, NEW k \in K,
           NEW r, r = AllHops(l0, p, k)
    PROVE  Cached(K, w, r) /\ Len(r) >= Len(l0) /\ Len(r) \in Nat
<1> DEFINE l == HopsOf(p)
           m == Len(l)
           S == {q \in Seq(Entry(K)) : Cached(K, w, q) /\ Len(q) >= Len(l0)}
           start == l0
           Step(t, j) == AddHop(t, p, k, l[j])
           Rec(h) == h = [i \in 0..m |-> IF i = 0 THEN start ELSE Step(h[i - 1], i)]
<1>1. m \in Nat /\ \A j \in 1..m : l[j] \in 1..(Len(p) - 1)
  BY HopsOfIs
<1>2. start \in S
  BY EntriesOf
<1>3. \A j \in 1..m : \A t \in S : Step(t, j) \in S
  <2> SUFFICES ASSUME NEW j \in 1..m, NEW t \in S PROVE Step(t, j) \in S
    OBVIOUS
  <2>1. PICK i : i = l[j]
    OBVIOUS
  <2>2. i \in 1..(Len(p) - 1)
    BY <1>1, <2>1
  <2>3. PICK a : a = AddHop(t, p, k, i)
    OBVIOUS
  <2>4. Step(t, j) = a
    BY <2>1, <2>3
  <2>5. Cached(K, w, t) /\ Len(t) \in Nat /\ Len(t) >= Len(l0) /\ Len(l0) \in Nat
    BY EntriesOf
  <2>6. /\ p[i + 1].node \in Nodes /\ p[i].node \in Nodes /\ p[i + 1].weight \in Nat
        /\ a = AddEntry(t, p[i + 1].node, k, p[i].node, "FORWARD", p[i + 1].weight)
    BY <2>2, <2>3, <2>5, AddHopIs
  <2>7. "FORWARD" \in Actions
    BY DEF Actions
  <2>8. Cached(K, w, a) /\ \E x \in 1..Len(a) : Altered(t, a, x, p[i + 1].node, k)
    BY <2>5, <2>6, <2>7, AddEntryIs
  <2>9. Len(a) >= Len(t) /\ Len(a) \in Nat /\ a \in Seq(Entry(K))
    BY <2>8, EntriesOf DEF Altered
  <2>10. Len(a) >= Len(l0)
    BY <2>5, <2>9
  <2> QED BY <2>4, <2>8, <2>9, <2>10
<1>4. PICK z : /\ z \in [0..m -> S] /\ z[0] = start /\ r = z[m]
               /\ \A i \in 1..m : z[i] = Step(z[i - 1], i)
  <2> DEFINE f == [i \in 1..m |-> [t \in S |-> Step(t, i)]]
  <2>1. f \in [1..m -> [S -> S]]
    <3> HIDE DEF Step, m, S
    <3> QED BY <1>3
  <2>0. PICK z : Steps(m, S, start, f, z)
    <3>1. m \in Nat /\ start \in S /\ f \in [1..m -> [S -> S]]
      BY <1>1, <1>2, <2>1
    <3> HIDE DEF f, m, S, Step, Rec, start
    <3> QED BY <3>1, StepsExist
  <2>2. z \in [0..m -> S] /\ z[0] = start /\ \A i \in 1..m : z[i] = f[i][z[i - 1]]
    <3> HIDE DEF f, m, S, Step, Rec, start
    <3> QED BY <2>0 DEF Steps
  <2>3. \A i \in 1..m : z[i] = Step(z[i - 1], i)
    <3> SUFFICES ASSUME NEW i \in 1..m PROVE z[i] = Step(z[i - 1], i)
      OBVIOUS
    <3>1. i - 1 \in 0..m
      BY <1>1
    <3> HIDE DEF m, S, Step, start
    <3> QED BY <2>2, <3>1
  <2>4. Rec(z)
    <3>1. ASSUME NEW i \in 0..m PROVE z[i] = IF i = 0 THEN start ELSE Step(z[i - 1], i)
      <4>1. i = 0 \/ i \in 1..m
        BY <1>1
      <4> HIDE DEF m, S, Step, start
      <4> QED BY <2>2, <2>3, <4>1
    <3> HIDE DEF m, S, Step, start
    <3> QED BY <2>2, <3>1
  <2> DEFINE h == CHOOSE h : Rec(h)
  <2>5. r = h[m]
    BY DEF AllHops, Folded
  <2>6. Rec(h)
    <3> HIDE DEF Rec
    <3> QED BY <2>4
  <2> HIDE DEF h
  <2>7. \A i \in 0..m : h[i] = IF i = 0 THEN start ELSE Step(h[i - 1], i)
    <3> HIDE DEF Step, start, m
    <3> QED BY <2>6
  <2>8. h[0] = z[0] /\ \A i \in 1..m : h[i - 1] = z[i - 1] => h[i] = z[i]
    <3>1. 0 \in 0..m /\ \A i \in 1..m : i \in 0..m /\ i # 0
      BY <1>1
    <3> HIDE DEF Step, start, m, S
    <3> QED BY <2>2, <2>3, <2>7, <3>1
  <2>9. h[m] = z[m]
    <3>1. m \in Nat
      BY <1>1
    <3> HIDE DEF m, Step, S, start
    <3> QED BY <2>8, <3>1, SameSteps
  <2> QED BY <2>2, <2>3, <2>5, <2>9
<1>5. r \in S
  BY <1>1, <1>4
<1>6. Cached(K, w, r) /\ Len(r) >= Len(l0)
  BY <1>5
<1> QED BY <1>6, EntriesOf

LEMMA CacheFlowRouteIs ==
    ASSUME NEW s \in Busy, NEW t \in MoreFlows(s), NEW p \in Routes, p # <<>>, NEW k \in Flows,
           NEW r, r = CacheFlowRoute(t, p, k)
    PROVE  r \in MoreFlows(s)
<1>1. PICK f : f = AllHops(t.flows, p, k)
  OBVIOUS
<1>2. t \in Busy /\ Turns(s, t, t.flows, s.addrs) /\ Len(t.flows) >= Len(s.flows) /\ Len(t.flows) \in Nat /\ Len(s.flows) \in Nat
      /\ Cached(Flows, t.told, t.flows)
  BY BusyHas, LengthsOf DEF MoreFlows
<1>3. Cached(Flows, t.told, f) /\ Len(f) >= Len(t.flows) /\ Len(f) \in Nat
  <2>1. p \in Seq(Hops) /\ Len(p) \in Nat /\ Len(p) >= 1
    BY RouteEnds
  <2> QED BY <1>1, <1>2, <2>1, AllHopsAre
<1>4. r = WithFlows(t, f)
  BY <1>1, Zenon DEF CacheFlowRoute, AllHops, WithFlows
<1>5. Turns(t, r, f, t.addrs)
  BY <1>2, <1>3, <1>4, WithFlowsIs
<1> QED BY <1>2, <1>3, <1>5 DEF MoreFlows, Turns

LEMMA RenewFlowByIs ==
    ASSUME NEW s \in Busy, NEW t \in MoreFlows(s), NEW e \in Entry(Flows), NEW i, NEW b \in Tries(t, i),
           NEW r, r = RenewFlowBy(t, e, b)
    PROVE  r \in MoreFlows(s)
<1>1. t \in Busy /\ e.source \in Nodes /\ e.key \in Flows
  BY DEF Entry, MoreFlows
<1>2. b.s \in Busy /\ b.best \in Routes /\ b.s \in MoreFlows(t)
  BY DEF Tries, Bests
<1>3. /\ b.s \in MoreFlows(s) /\ Len(b.s.flows) \in Nat /\ Len(s.flows) \in Nat
      /\ Len(b.s.flows) >= Len(s.flows) /\ Turns(s, b.s, b.s.flows, s.addrs)
  <2>1. Len(b.s.flows) \in Nat /\ Len(s.flows) \in Nat /\ Len(t.flows) \in Nat
    BY <1>1, <1>2, LengthsOf
  <2> QED BY <1>1, <1>2, <2>1 DEF MoreFlows, Turns
<1>4. CASE b.best = <<>>
  <2>1. PICK f : f = AddEntry(b.s.flows, e.source, e.key, e.source, "DROP", 0)
    OBVIOUS
  <2>2. r = WithFlows(b.s, f)
    BY <1>4, <2>1 DEF RenewFlowBy, WithFlows
  <2>3. Cached(Flows, b.s.told, b.s.flows)
    BY <1>2, BusyHas
  <2>4. "DROP" \in Actions /\ 0 \in Nat
    BY DEF Actions
  <2>5. Cached(Flows, b.s.told, f) /\ \E x \in 1..Len(f) : Altered(b.s.flows, f, x, e.source, e.key)
    BY <1>1, <2>1, <2>3, <2>4, AddEntryIs
  <2>6. Len(f) >= Len(b.s.flows) /\ Len(f) \in Nat
    BY <2>5, EntriesOf DEF Altered
  <2>7. Turns(b.s, r, f, b.s.addrs)
    BY <1>2, <2>2, <2>5, WithFlowsIs
  <2> QED BY <1>3, <2>6, <2>7 DEF MoreFlows, Turns
<1>5. CASE b.best # <<>>
  <2>1. r = IF b.keep THEN b.s ELSE CacheFlowRoute(b.s, b.best, e.key)
    BY <1>5 DEF RenewFlowBy
  <2>2. PICK u : u = CacheFlowRoute(b.s, b.best, e.key)
    OBVIOUS
  <2>3. u \in MoreFlows(s)
    BY <1>1, <1>2, <1>3, <1>5, <2>2, CacheFlowRouteIs
  <2> QED BY <1>3, <2>1, <2>2, <2>3, Zenon
<1> QED BY <1>4, <1>5

\* Every entry is looked at again; what is marked in the end has been told.
LEMMA UpdateFlowsIs ==
    ASSUME NEW s \in Busy, NEW r, r = UpdateFlows(s)
    PROVE  r \in CalmFlows(s)
<1> DEFINE l == [i \in DOMAIN s.flows |-> i]
           m == Len(l)
           S == MoreFlows(s)
           start == s
           Step(t, j) == RenewFlow(t, l[j])
           Rec(h) == h = [i \in 0..m |-> IF i = 0 THEN start ELSE Step(h[i - 1], i)]
<1>0. Len(s.flows) \in Nat /\ DOMAIN s.flows = 1..Len(s.flows)
  <2>1. s.flows \in Seq(Entry(Flows))
    BY BusyHas DEF Cached
  <2> QED BY <2>1
<1>1. m \in Nat /\ m = Len(s.flows) /\ \A j \in 1..m : l[j] = j
  BY <1>0, Counted
<1>2. start \in S
  BY LengthsOf
<1>3. \A j \in 1..m : \A t \in S : Step(t, j) \in S
  <2> SUFFICES ASSUME NEW j \in 1..m, NEW t \in S PROVE Step(t, j) \in S
    OBVIOUS
  <2>1. t \in Busy /\ Cached(Flows, t.told, t.flows) /\ l[j] = j /\ j \in 1..Len(t.flows)
    <3>1. t \in Busy /\ Len(t.flows) >= Len(s.flows) /\ Len(t.flows) \in Nat
      BY LengthsOf DEF MoreFlows
    <3>2. j \in 1..Len(t.flows) /\ l[j] = j
      <4> HIDE DEF l
      <4> QED BY <1>0, <1>1, <3>1
    <3> QED BY <3>1, <3>2, BusyHas
  <2>2. PICK e : e = t.flows[j]
    OBVIOUS
  <2>3. e \in Entry(Flows) /\ e.source \in Nodes /\ e.key \in Flows
    BY <2>1, <2>2, EntriesOf
  <2>4. PICK b : b = BestFlowRoute(t, e.source, e.key, j)
    OBVIOUS
  <2>5. b \in Tries(t, j)
    BY <2>1, <2>3, <2>4, BestFlowRouteIs
  <2>6. PICK u : u = RenewFlowBy(t, e, b)
    OBVIOUS
  <2>7. u \in MoreFlows(s)
    BY <2>3, <2>5, <2>6, RenewFlowByIs
  <2>8. Step(t, j) = IF e.changed THEN t ELSE u
    BY <2>1, <2>2, <2>4, <2>6 DEF RenewFlow
  <2> HIDE DEF Step, l, m
  <2> QED BY <2>7, <2>8, Zenon
<1>4. PICK all : all = Folded(RenewFlow, s, l)
  OBVIOUS
<1>5. PICK z : /\ z \in [0..m -> S] /\ z[0] = start /\ all = z[m]
               /\ \A i \in 1..m : z[i] = Step(z[i - 1], i)
  <2> DEFINE f == [i \in 1..m |-> [t \in S |-> Step(t, i)]]
  <2>1. f \in [1..m -> [S -> S]]
    <3> HIDE DEF Step, m, S
    <3> QED BY <1>3
  <2>0. PICK z : Steps(m, S, start, f, z)
    <3>1. m \in Nat /\ start \in S /\ f \in [1..m -> [S -> S]]
      BY <1>1, <1>2, <2>1
    <3> HIDE DEF f, m, S, Step, Rec, start
    <3> QED BY <3>1, StepsExist
  <2>2. z \in [0..m -> S] /\ z[0] = start /\ \A i \in 1..m : z[i] = f[i][z[i - 1]]
    <3> HIDE DEF f, m, S, Step, Rec, start
    <3> QED BY <2>0 DEF Steps
  <2>3. \A i \in 1..m : z[i] = Step(z[i - 1], i)
    <3> SUFFICES ASSUME NEW i \in 1..m PROVE z[i] = Step(z[i - 1], i)
      OBVIOUS
    <3>1. i - 1 \in 0..m
      BY <1>1
    <3> HIDE DEF m, S, Step, start
    <3> QED BY <2>2, <3>1
  <2>4. Rec(z)
    <3>1. ASSUME NEW i \in 0..m PROVE z[i] = IF i = 0 THEN start ELSE Step(z[i - 1], i)
      <4>1. i = 0 \/ i \in 1..m
        BY <1>1
      <4> HIDE DEF m, S, Step, start
      <4> QED BY <2>2, <2>3, <4>1
    <3> HIDE DEF m, S, Step, start
    <3> QED BY <2>2, <3>1
  <2> DEFINE h == CHOOSE h : Rec(h)
  <2>5. all = h[m]
    BY <1>4 DEF Folded
  <2>6. Rec(h)
    <3> HIDE DEF Rec
    <3> QED BY <2>4
  <2> HIDE DEF h
  <2>7. \A i \in 0..m : h[i] = IF i = 0 THEN start ELSE Step(h[i - 1], i)
    <3> HIDE DEF Step, start, m
    <3> QED BY <2>6
  <2>8. h[0] = z[0] /\ \A i \in 1..m : h[i - 1] = z[i - 1] => h[i] = z[i]
    <3>1. 0 \in 0..m /\ \A i \in 1..m : i \in 0..m /\ i # 0
      BY <1>1
    <3> HIDE DEF Step, start, m, S
    <3> QED BY <2>2, <2>3, <2>7, <3>1
  <2>9. h[m] = z[m]
    <3>1. m \in Nat
      BY <1>1
    <3> HIDE DEF m, Step, S, start
    <3> QED BY <2>8, <3>1, SameSteps
  <2> QED BY <2>2, <2>3, <2>5, <2>9
<1>6. all \in S
  <2>1. m \in 0..m
    BY <1>1
  <2> HIDE DEF S, Step, m
  <2> QED BY <1>5, <2>1
<1>7. r = TellFlows(all)
  BY <1>4 DEF UpdateFlows
<1>8. all \in Busy /\ Turns(s, all, all.flows, s.addrs)
  BY <1>6 DEF MoreFlows
<1>9. r \in CalmFlows(all)
  BY <1>7, <1>8, TellFlowsIs
<1> QED BY <1>8, <1>9 DEF CalmFlows, Turns

-----------------------------------------------------------------------------
(* The routes that were given: routes to an address *)

\* While the entries for addresses are looked at: the caches only grow.
Walks(s) ==
    {t \in [s : Busy, route : Routes, keep : BOOLEAN] :
        t.s.flows = s.flows /\ Len(t.s.addrs) >= Len(s.addrs)}

\* s with another graph and other lists of what is asked and registered
Other(s, g, d, q, b) == [s EXCEPT !.graph = g, !.ids = d, !.asked = q, !.crashed = b]

LEMMA OtherIs ==
    ASSUME NEW s \in Busy, NEW g \in Graphs, NEW d \in Seq(Registered), NEW q \in Seq(Nodes), NEW b \in BOOLEAN,
           NEW r, r = Other(s, g, d, q, b)
    PROVE  r \in Busy /\ r.flows = s.flows /\ r.addrs = s.addrs /\ r.told = s.told
<1> DEFINE A == Seq(Registered)
           F == Seq(Entry(Flows))
           D == Seq(Entry(Nodes))
           Q == Seq(Nodes)
<1>1. s \in [graph : Graphs, ids : A, flows : F, addrs : D, asked : Q, told : Words, crashed : BOOLEAN] /\ d \in A /\ q \in Q
  BY DEF Busy, Ctls
<1>2. /\ r \in [graph : Graphs, ids : A, flows : F, addrs : D, asked : Q, told : Words, crashed : BOOLEAN]
      /\ r.flows = s.flows /\ r.addrs = s.addrs /\ r.told = s.told
  <2> HIDE DEF A, F, D, Q
  <2> QED BY <1>1 DEF Other
<1>3. r \in Busy
  BY <1>2, BusyHas DEF Busy, Ctls
<1> QED BY <1>2, <1>3

LEMMA RemadeOther ==
    ASSUME NEW s \in Busy
    PROVE  /\ \A d : [s EXCEPT !.ids = d] = Other(s, s.graph, d, s.asked, s.crashed)
           /\ \A q : [s EXCEPT !.asked = q] = Other(s, s.graph, s.ids, q, s.crashed)
           /\ \A b : [s EXCEPT !.crashed = b] = Other(s, s.graph, s.ids, s.asked, b)
           /\ \A g, q : [s EXCEPT !.graph = g, !.asked = q] = Other(s, g, s.ids, q, s.crashed)
           /\ \A g : [s EXCEPT !.graph = g] = Other(s, g, s.ids, s.asked, s.crashed)
<1> DEFINE A == Seq(Registered)
           F == Seq(Entry(Flows))
           D == Seq(Entry(Nodes))
           Q == Seq(Nodes)
<1>1. s \in [graph : Graphs, ids : A, flows : F, addrs : D, asked : Q, told : Words, crashed : BOOLEAN]
  BY DEF Busy, Ctls
<1> HIDE DEF A, F, D, Q
<1> QED BY <1>1, Zenon DEF Other

\* A state with another cache of addresses, in a walk
LEMMA WalkOn ==
    ASSUME NEW s \in Busy, NEW t \in Walks(s), NEW u \in Busy, u.flows = t.s.flows,
           NEW a, Cached(Nodes, u.told, a), Len(a) >= Len(t.s.addrs),
           NEW r, r = WithAddrs(u, a), NEW p \in Routes, NEW b \in BOOLEAN
    PROVE  [s |-> r, route |-> p, keep |-> b] \in Walks(s)
<1>1. Turns(u, r, u.flows, a)
  BY WithAddrsIs
<1>2. t.s \in Busy /\ t.s.flows = s.flows /\ Len(t.s.addrs) >= Len(s.addrs)
  BY DEF Walks
<1>3. Len(a) \in Nat /\ Len(t.s.addrs) \in Nat /\ Len(s.addrs) \in Nat
  BY <1>2, LengthsOf, EntriesOf
<1>4. r \in Busy /\ r.flows = s.flows /\ r.addrs = a /\ Len(a) >= Len(s.addrs)
  BY <1>1, <1>2, <1>3 DEF Turns
<1>5. PICK y : y = [s |-> r, route |-> p, keep |-> b]
  OBVIOUS
<1>6. y \in [s : Busy, route : Routes, keep : BOOLEAN] /\ y.s = r
  BY <1>4, <1>5
<1> QED BY <1>4, <1>5, <1>6 DEF Walks

LEMMA RenewAddressByIs ==
    ASSUME NEW s \in Busy, NEW t \in Walks(s), NEW e \in Entry(Nodes), NEW found, found.graph \in Graphs,
           NEW p \in Routes, NEW r, r = RenewAddressBy(t, e, found, p)
    PROVE  r \in Walks(s)
<1>1. t.s \in Busy /\ t.s.flows = s.flows /\ Len(t.s.addrs) >= Len(s.addrs) /\ t.keep \in BOOLEAN /\ t.route \in Routes
      /\ t \in [s : Busy, route : Routes, keep : BOOLEAN]
  BY DEF Walks
<1>2. e.source \in Nodes /\ e.key \in Nodes /\ e.hop \in Nodes
  BY DEF Entry
<1>3. PICK at : at = IF p = <<>> THEN 0 ELSE SelectInSeq(Tail(p), LAMBDA h : h.node = e.source)
  OBVIOUS
<1>4. PICK same, fresh : same = (p[at].node = e.hop) /\ fresh = (p # t.route)
  OBVIOUS
<1>5. PICK u : u = [t.s EXCEPT !.graph = found.graph]
  OBVIOUS
<1>6. u \in Busy /\ u.flows = t.s.flows /\ u.addrs = t.s.addrs
  <2>1. u = Other(t.s, found.graph, t.s.ids, t.s.asked, t.s.crashed)
    BY <1>1, <1>5, RemadeOther, Zenon
  <2>2. t.s.ids \in Seq(Registered) /\ t.s.asked \in Seq(Nodes) /\ t.s.crashed \in BOOLEAN
    BY <1>1, BusyHas
  <2> QED BY <1>1, <2>1, <2>2, OtherIs
<1>7. PICK a1 : a1 = AddEntry(u.addrs, e.source, e.key, e.hop, "FORWARD", p[1].weight)
  OBVIOUS
<1>8. PICK a2 : a2 = AllHops(u.addrs, p, e.key)
  OBVIOUS
<1>9. r = CASE at = 0 -> [t EXCEPT !.s.crashed = TRUE]
            [] at # 0 /\ same -> [s |-> WithAddrs(u, a1), route |-> p, keep |-> TRUE]
            [] at # 0 /\ ~same /\ t.keep /\ ~fresh -> [s |-> u, route |-> p, keep |-> TRUE]
            [] at # 0 /\ ~same /\ ~(t.keep /\ ~fresh) -> [s |-> WithAddrs(u, a2), route |-> <<>>, keep |-> FALSE]
  BY <1>3, <1>4, <1>5, <1>7, <1>8, Zenon DEF RenewAddressBy, WithAddrs, AllHops
<1>10. same \in BOOLEAN /\ fresh \in BOOLEAN
  BY <1>4
<1>11. \/ at = 0 /\ r = [t EXCEPT !.s.crashed = TRUE]
       \/ at # 0 /\ r = [s |-> WithAddrs(u, a1), route |-> p, keep |-> TRUE]
       \/ at # 0 /\ r = [s |-> u, route |-> p, keep |-> TRUE]
       \/ at # 0 /\ r = [s |-> WithAddrs(u, a2), route |-> <<>>, keep |-> FALSE]
  BY <1>1, <1>9, <1>10
<1>12. CASE r = [t EXCEPT !.s.crashed = TRUE]
  <2>1. PICK v : v = [t.s EXCEPT !.crashed = TRUE]
    OBVIOUS
  <2>2. v \in Busy /\ v.flows = t.s.flows /\ v.addrs = t.s.addrs
    <3>0. PICK b : b = TRUE
      OBVIOUS
    <3>1. v = Other(t.s, t.s.graph, t.s.ids, t.s.asked, b) /\ b \in BOOLEAN
      BY <1>1, <2>1, <3>0, RemadeOther, Zenon
    <3>2. t.s.graph \in Graphs /\ t.s.ids \in Seq(Registered) /\ t.s.asked \in Seq(Nodes)
      BY <1>1, BusyHas
    <3> QED BY <1>1, <3>1, <3>2, OtherIs
  <2>3. r = [t EXCEPT !.s = v]
    BY <1>12, <2>1
  <2>4. r \in [s : Busy, route : Routes, keep : BOOLEAN] /\ r.s = v
    BY <1>1, <2>2, <2>3
  <2> QED BY <1>1, <2>2, <2>4 DEF Walks
<1>13. ASSUME at # 0 PROVE p # <<>>
  BY <1>3, <1>13
<1>14. Cached(Nodes, u.told, u.addrs) /\ <<>> \in Routes
  BY <1>6, BusyHas DEF Routes
<1>15. CASE at # 0 /\ r = [s |-> WithAddrs(u, a1), route |-> p, keep |-> TRUE]
  <2>1. p[1].weight \in Nat /\ "FORWARD" \in Actions
    BY <1>13, <1>15, RouteEnds DEF Actions
  <2>2. Cached(Nodes, u.told, a1) /\ \E x \in 1..Len(a1) : Altered(u.addrs, a1, x, e.source, e.key)
    BY <1>2, <1>7, <1>14, <2>1, AddEntryIs
  <2>3. Len(a1) >= Len(u.addrs)
    BY <2>2 DEF Altered
  <2>4. PICK v : v = WithAddrs(u, a1)
    OBVIOUS
  <2>5. [s |-> v, route |-> p, keep |-> TRUE] \in Walks(s)
    BY <1>6, <2>2, <2>3, <2>4, WalkOn
  <2> QED BY <1>15, <2>4, <2>5
<1>16. CASE r = [s |-> u, route |-> p, keep |-> TRUE]
  <2>1. r \in [s : Busy, route : Routes, keep : BOOLEAN] /\ r.s = u
    BY <1>6, <1>16
  <2> QED BY <1>1, <1>6, <2>1 DEF Walks
<1>17. CASE at # 0 /\ r = [s |-> WithAddrs(u, a2), route |-> <<>>, keep |-> FALSE]
  <2>1. p \in Seq(Hops) /\ Len(p) \in Nat /\ Len(p) >= 1
    BY <1>13, <1>17, RouteEnds
  <2>2. Cached(Nodes, u.told, a2) /\ Len(a2) >= Len(u.addrs)
    BY <1>2, <1>8, <1>14, <2>1, AllHopsAre
  <2>4. PICK v, b, q : v = WithAddrs(u, a2) /\ b = FALSE /\ q = <<>>
    OBVIOUS
  <2>5. [s |-> v, route |-> q, keep |-> b] \in Walks(s)
    BY <1>6, <1>14, <2>2, <2>4, WalkOn
  <2> QED BY <1>17, <2>4, <2>5
<1> QED BY <1>11, <1>12, <1>15, <1>16, <1>17

LEMMA RenewAddressIs ==
    ASSUME NEW s \in Busy, NEW t \in Walks(s), NEW i \in 1..Len(s.addrs), NEW r, r = RenewAddress(t, i)
    PROVE  r \in Walks(s)
<1>1. t.s \in Busy /\ Len(t.s.addrs) >= Len(s.addrs) /\ t.route \in Routes
  BY DEF Walks
<1>2. Len(t.s.addrs) \in Nat /\ Len(s.addrs) \in Nat /\ Cached(Nodes, t.s.told, t.s.addrs) /\ t.s.graph \in Graphs
  BY <1>1, LengthsOf, BusyHas
<1>3. PICK e : e = t.s.addrs[i]
  OBVIOUS
<1>4. e \in Entry(Nodes) /\ e.source \in Nodes /\ e.key \in Nodes
  <2>1. i \in 1..Len(t.s.addrs)
    BY <1>1, <1>2
  <2> QED BY <1>2, <1>3, <2>1, EntriesOf
<1>5. PICK found : found = ShortestPath(t.s.graph, e.source, e.key)
  OBVIOUS
<1>6. found.graph \in Graphs /\ found.route \in Routes
  <2>1. Good(Metrics, {MaxBattery}, t.s.graph) /\ Limits(Metrics, {MaxBattery})
    BY <1>2, GraphsGood
  <2>2. Good(Metrics, {MaxBattery}, found.graph) /\ found.route \in Routes
    BY <1>4, <1>5, <2>1, ShortestPathIs
  <2> QED BY <2>2, GraphsGood
<1>7. PICK p : p = Better(t.route, found.route)
  OBVIOUS
<1>8. p \in Routes
  BY <1>1, <1>6, <1>7, BetterIs
<1>9. PICK u : u = RenewAddressBy(t, e, found, p)
  OBVIOUS
<1>10. u \in Walks(s)
  BY <1>4, <1>6, <1>8, <1>9, RenewAddressByIs
<1>11. r = IF t.s.crashed \/ e.changed THEN t ELSE u
  BY <1>3, <1>5, <1>7, <1>9 DEF RenewAddress, TryAddress
<1> QED BY <1>10, <1>11, Zenon

\* After an update of either cache
Updated(s, r) == r \in Busy /\ r.flows = s.flows /\ Calm(r.addrs)

LEMMA UpdateAddressesIs ==
    ASSUME NEW s \in Busy, Calm(s.addrs), NEW r, r = UpdateAddresses(s)
    PROVE  Updated(s, r)
<1> DEFINE l == [i \in DOMAIN s.addrs |-> i]
           m == Len(l)
           S == Walks(s)
           start == [s |-> s, route |-> <<>>, keep |-> FALSE]
           Step(t, j) == RenewAddress(t, l[j])
           Rec(h) == h = [i \in 0..m |-> IF i = 0 THEN start ELSE Step(h[i - 1], i)]
<1>0. Len(s.addrs) \in Nat /\ DOMAIN s.addrs = 1..Len(s.addrs)
  <2>1. s.addrs \in Seq(Entry(Nodes))
    BY BusyHas DEF Cached
  <2> QED BY <2>1
<1>1. m \in Nat /\ m = Len(s.addrs) /\ \A j \in 1..m : l[j] = j
  BY <1>0, Counted
<1>2. start \in S
  <2>1. <<>> \in Routes /\ start \in [s : Busy, route : Routes, keep : BOOLEAN] /\ start.s = s
    BY DEF Routes
  <2>2. Len(s.addrs) >= Len(s.addrs)
    BY <1>0
  <2> HIDE DEF start
  <2> QED BY <2>1, <2>2 DEF Walks
<1>3. \A j \in 1..m : \A t \in S : Step(t, j) \in S
  <2> SUFFICES ASSUME NEW j \in 1..m, NEW t \in S PROVE Step(t, j) \in S
    OBVIOUS
  <2>1. l[j] = j /\ j \in 1..Len(s.addrs)
    <3> HIDE DEF l
    <3> QED BY <1>1
  <2>2. PICK u : u = RenewAddress(t, j)
    OBVIOUS
  <2>3. u \in Walks(s)
    BY <2>1, <2>2, RenewAddressIs
  <2>4. Step(t, j) = u
    BY <2>1, <2>2
  <2> HIDE DEF Step, m, l
  <2> QED BY <2>3, <2>4
<1>4. PICK all : all = Folded(RenewAddress, start, l)
  OBVIOUS
<1>5. PICK z : /\ z \in [0..m -> S] /\ z[0] = start /\ all = z[m]
               /\ \A i \in 1..m : z[i] = Step(z[i - 1], i)
  <2> DEFINE f == [i \in 1..m |-> [t \in S |-> Step(t, i)]]
  <2>1. f \in [1..m -> [S -> S]]
    <3> HIDE DEF Step, m, S
    <3> QED BY <1>3
  <2>0. PICK z : Steps(m, S, start, f, z)
    <3>1. m \in Nat /\ start \in S /\ f \in [1..m -> [S -> S]]
      BY <1>1, <1>2, <2>1
    <3> HIDE DEF f, m, S, Step, Rec, start
    <3> QED BY <3>1, StepsExist
  <2>2. z \in [0..m -> S] /\ z[0] = start /\ \A i \in 1..m : z[i] = f[i][z[i - 1]]
    <3> HIDE DEF f, m, S, Step, Rec, start
    <3> QED BY <2>0 DEF Steps
  <2>3. \A i \in 1..m : z[i] = Step(z[i - 1], i)
    <3> SUFFICES ASSUME NEW i \in 1..m PROVE z[i] = Step(z[i - 1], i)
      OBVIOUS
    <3>1. i - 1 \in 0..m
      BY <1>1
    <3> HIDE DEF m, S, Step, start
    <3> QED BY <2>2, <3>1
  <2>4. Rec(z)
    <3>1. ASSUME NEW i \in 0..m PROVE z[i] = IF i = 0 THEN start ELSE Step(z[i - 1], i)
      <4>1. i = 0 \/ i \in 1..m
        BY <1>1
      <4> HIDE DEF m, S, Step, start
      <4> QED BY <2>2, <2>3, <4>1
    <3> HIDE DEF m, S, Step, start
    <3> QED BY <2>2, <3>1
  <2> DEFINE h == CHOOSE h : Rec(h)
  <2>5. all = h[m]
    BY <1>4 DEF Folded
  <2>6. Rec(h)
    <3> HIDE DEF Rec
    <3> QED BY <2>4
  <2> HIDE DEF h
  <2>7. \A i \in 0..m : h[i] = IF i = 0 THEN start ELSE Step(h[i - 1], i)
    <3> HIDE DEF Step, start, m
    <3> QED BY <2>6
  <2>8. h[0] = z[0] /\ \A i \in 1..m : h[i - 1] = z[i - 1] => h[i] = z[i]
    <3>1. 0 \in 0..m /\ \A i \in 1..m : i \in 0..m /\ i # 0
      BY <1>1
    <3> HIDE DEF Step, start, m, S
    <3> QED BY <2>2, <2>3, <2>7, <3>1
  <2>9. h[m] = z[m]
    <3>1. m \in Nat
      BY <1>1
    <3> HIDE DEF m, Step, S, start
    <3> QED BY <2>8, <3>1, SameSteps
  <2> QED BY <2>2, <2>3, <2>5, <2>9
<1>6. all \in S
  <2>1. m \in 0..m
    BY <1>1
  <2> HIDE DEF S, Step, m
  <2> QED BY <1>5, <2>1
<1>7. r = TellOrCrash(s, all.s)
  BY <1>4 DEF UpdateAddresses
<1>8. all.s \in Busy /\ all.s.flows = s.flows
  BY <1>6 DEF Walks
<1>9. PICK u, v : u = [s EXCEPT !.crashed = TRUE] /\ v = TellAddresses(all.s)
  OBVIOUS
<1>10. Updated(s, u)
  <2>0. PICK b : b = TRUE
    OBVIOUS
  <2>1. u = Other(s, s.graph, s.ids, s.asked, b) /\ b \in BOOLEAN
    BY <1>9, <2>0, RemadeOther, Zenon
  <2>2. s.graph \in Graphs /\ s.ids \in Seq(Registered) /\ s.asked \in Seq(Nodes)
    BY BusyHas
  <2>3. u \in Busy /\ u.flows = s.flows /\ u.addrs = s.addrs
    BY <2>1, <2>2, OtherIs
  <2> QED BY <2>3 DEF Updated
<1>11. Updated(s, v)
  <2>1. v \in CalmAddrs(all.s)
    BY <1>8, <1>9, TellAddressesIs
  <2> QED BY <1>8, <2>1 DEF CalmAddrs, Turns, Updated
<1>12. r = IF all.s.crashed THEN u ELSE v
  BY <1>7, <1>9 DEF TellOrCrash
<1> QED BY <1>10, <1>11, <1>12, Zenon

LEMMA UpdateCacheIs ==
    ASSUME NEW s \in Busy, Calm(s.addrs), NEW r, r = UpdateCache(s)
    PROVE  r \in Busy /\ Calm(r.flows) /\ Calm(r.addrs)
<1>1. PICK u : u = UpdateFlows(s)
  OBVIOUS
<1>2. u \in CalmFlows(s)
  BY <1>1, UpdateFlowsIs
<1>3. u \in Busy /\ Calm(u.flows) /\ Calm(u.addrs)
  BY <1>2 DEF CalmFlows, Turns
<1>4. r = UpdateAddresses(u)
  BY <1>1 DEF UpdateCache
<1>5. Updated(u, r)
  BY <1>3, <1>4, UpdateAddressesIs
<1> QED BY <1>3, <1>5 DEF Updated

-----------------------------------------------------------------------------
(* The routes that were given: the handlers *)

\* Between two handlers
Rested(s) == s \in Busy /\ Calm(s.flows) /\ Calm(s.addrs)

LEMMA AnswerFlowIs ==
    ASSUME NEW s, Rested(s), NEW n \in Nodes, NEW k \in Flows, NEW b \in Tries(s, 0), NEW r, r = AnswerFlow(s, n, k, b)
    PROVE  Rested(r)
<1>1. s \in Busy /\ Calm(s.flows) /\ Calm(s.addrs)
  BY DEF Rested
<1>2. b.s \in Busy /\ b.best \in Routes /\ b.s.flows = s.flows /\ b.s.addrs = s.addrs
  BY DEF Tries, Bests, MoreFlows, Turns
<1>3. CASE b.best = <<>>
  <2>1. PICK a : a = AddEntry(b.s.flows, n, k, n, "DROP", 0)
    OBVIOUS
  <2>2. PICK i : i = Find(a, n, k)
    OBVIOUS
  <2>3. PICK t : t = WithFlows(b.s, a)
    OBVIOUS
  <2>4. r = TellFlow(t, i)
    BY <1>3, <2>1, <2>2, <2>3 DEF AnswerFlow, WithFlows
  <2>5. PICK act, wt : act = "DROP" /\ wt = 0
    OBVIOUS
  <2>6. act \in Actions /\ wt \in Nat /\ a = AddEntry(b.s.flows, n, k, n, act, wt)
    BY <2>1, <2>5 DEF Actions
  <2>7. Turns(b.s, r, r.flows, b.s.addrs) /\ Calm(r.flows)
    BY <1>1, <1>2, <2>2, <2>3, <2>4, <2>6, AddTellFlowIs
  <2> QED BY <1>1, <1>2, <2>7 DEF Turns, Rested
<1>4. CASE b.best # <<>>
  <2>1. r = SetupFlow(b.s, b.best, k, n)
    BY <1>4 DEF AnswerFlow
  <2>2. b.best \in Seq(Hops) /\ Len(b.best) \in Nat /\ Len(b.best) >= 1
    BY <1>2, <1>4, RouteEnds
  <2>3. r \in CalmFlows(b.s)
    BY <1>1, <1>2, <2>1, <2>2, SetupFlowIs
  <2> QED BY <1>1, <1>2, <2>3 DEF CalmFlows, Turns, Rested
<1> QED BY <1>3, <1>4

LEMMA RequestedFlowIs ==
    ASSUME NEW s, Rested(s), NEW n \in Nodes, NEW k \in Flows, NEW r, r = RequestedFlow(s, n, k)
    PROVE  Rested(r)
<1>1. PICK b : b = BestFlowRoute(s, n, k, 0)
  OBVIOUS
<1>2. b \in Tries(s, 0)
  BY <1>1, BestFlowRouteIs DEF Rested
<1>3. PICK u : u = AnswerFlow(s, n, k, b)
  OBVIOUS
<1>4. Rested(u)
  BY <1>2, <1>3, AnswerFlowIs
<1>5. r = IF Find(s.flows, n, k) # 0 THEN s ELSE u
  BY <1>1, <1>3 DEF RequestedFlow
<1> QED BY <1>4, <1>5

LEMMA OwnRequestKeeps == Rested(ctl) /\ OwnRequest => Rested(ctl')
<1> SUFFICES ASSUME Rested(ctl), OwnRequest PROVE Rested(ctl')
  OBVIOUS
<1>1. ctl \in Busy /\ ctl.asked \in Seq(Nodes) /\ ctl.asked # <<>>
  BY BusyHas DEF Rested, OwnRequest
<1>2. PICK q, n : q = Tail(ctl.asked) /\ n = Head(ctl.asked)
  OBVIOUS
<1>3. q \in Seq(Nodes) /\ n \in Nodes
  BY <1>1, <1>2
<1>4. PICK s : s = [ctl EXCEPT !.asked = q]
  OBVIOUS
<1>5. s = Other(ctl, ctl.graph, ctl.ids, q, ctl.crashed)
  BY <1>1, <1>4, RemadeOther, Zenon
<1>6. s \in Busy /\ s.flows = ctl.flows /\ s.addrs = ctl.addrs
  <2>1. ctl.graph \in Graphs /\ ctl.ids \in Seq(Registered) /\ ctl.crashed \in BOOLEAN
    BY <1>1, BusyHas
  <2> QED BY <1>1, <1>3, <1>5, <2>1, OtherIs
<1>7. Rested(s)
  BY <1>6 DEF Rested
<1>8. ctl' = RequestedFlow(s, n, ControllerFlow) /\ ControllerFlow \in Flows
  BY <1>2, <1>4, ControllerAssumption DEF OwnRequest
<1> QED BY <1>3, <1>7, <1>8, RequestedFlowIs

LEMMA ControlRequestKeeps ==
    ASSUME Rested(ctl), NEW n \in Nodes, NEW a \in Nodes, ControlRequest(n, a) PROVE Rested(ctl')
<1>1. ctl \in Busy /\ Calm(ctl.flows) /\ Calm(ctl.addrs) /\ ctl.graph \in Graphs
  BY BusyHas DEF Rested
<1>2. PICK found : found = ShortestPath(ctl.graph, n, a)
  OBVIOUS
<1>3. found.graph \in Graphs /\ found.route \in Routes
  <2>1. Good(Metrics, {MaxBattery}, ctl.graph) /\ Limits(Metrics, {MaxBattery})
    BY <1>1, GraphsGood
  <2>2. Good(Metrics, {MaxBattery}, found.graph) /\ found.route \in Routes
    BY <1>2, <2>1, ShortestPathIs
  <2> QED BY <2>2, GraphsGood
<1>4. PICK s : s = [ctl EXCEPT !.graph = found.graph]
  OBVIOUS
<1>5. s \in Busy /\ s.flows = ctl.flows /\ s.addrs = ctl.addrs
  <2>1. s = Other(ctl, found.graph, ctl.ids, ctl.asked, ctl.crashed)
    BY <1>1, <1>4, RemadeOther, Zenon
  <2>2. ctl.ids \in Seq(Registered) /\ ctl.asked \in Seq(Nodes) /\ ctl.crashed \in BOOLEAN
    BY <1>1, BusyHas
  <2> QED BY <1>1, <1>3, <2>1, <2>2, OtherIs
<1>6. PICK p : p = found.route
  OBVIOUS
<1>7. PICK r : r = AnswerAddress(s, n, a, p)
  OBVIOUS
<1>8. ASSUME p = <<>> PROVE Rested(r)
  <2>1. PICK l : l = AddEntry(s.addrs, n, a, n, "DROP", 0)
    OBVIOUS
  <2>2. PICK i : i = Find(l, n, a)
    OBVIOUS
  <2>3. PICK t : t = WithAddrs(s, l)
    OBVIOUS
  <2>4. r = TellAddress(t, i)
    BY <1>7, <1>8, <2>1, <2>2, <2>3 DEF AnswerAddress, WithAddrs
  <2>5. PICK act, wt : act = "DROP" /\ wt = 0
    OBVIOUS
  <2>6. act \in Actions /\ wt \in Nat /\ l = AddEntry(s.addrs, n, a, n, act, wt)
    BY <2>1, <2>5 DEF Actions
  <2>7. Turns(s, r, s.flows, r.addrs) /\ Calm(r.addrs)
    BY <1>1, <1>5, <2>2, <2>3, <2>4, <2>6, AddTellAddressIs
  <2> QED BY <1>1, <1>5, <2>7 DEF Turns, Rested
<1>9. ASSUME p # <<>> PROVE Rested(r)
  <2>1. r = SetupAddress(s, p, a, n)
    BY <1>7, <1>9 DEF AnswerAddress
  <2>2. p \in Seq(Hops) /\ Len(p) \in Nat /\ Len(p) >= 1
    BY <1>3, <1>6, <1>9, RouteEnds
  <2>3. r \in CalmAddrs(s)
    BY <1>1, <1>5, <2>1, <2>2, SetupAddressIs
  <2> QED BY <1>1, <1>5, <2>3 DEF CalmAddrs, Turns, Rested
<1>10. Rested(r)
  BY <1>8, <1>9
<1>11. ctl' = IF Find(ctl.addrs, n, a) # 0 THEN ctl ELSE r
  BY <1>2, <1>4, <1>6, <1>7 DEF ControlRequest, AnswerFound
<1> QED BY <1>10, <1>11

LEMMA NeighborReportKeeps ==
    ASSUME Rested(ctl), NEW n \in Nodes, NEW list \in Seq(Nodes \ {n}), NEW metric \in [ToSet(list) -> Metrics],
           NeighborReport(n, list, metric)
    PROVE  Rested(ctl')
<1>1. ctl \in Busy /\ Calm(ctl.flows) /\ Calm(ctl.addrs) /\ ctl.graph \in Graphs /\ ctl.asked \in Seq(Nodes)
  BY BusyHas DEF Rested
<1>2. PICK r : r = ReportedGraph(ctl.graph, n, list, metric)
  OBVIOUS
<1>3. r.graph \in Graphs
  <2>1. Good(Metrics, {MaxBattery}, ctl.graph) /\ Limits(Metrics, {MaxBattery})
    BY <1>1, GraphsGood
  <2>2. Good(Metrics, {MaxBattery}, r.graph)
    BY <1>2, <2>1, ReportedGraphIs
  <2> QED BY <2>2, GraphsGood
<1>4. PICK new : new = NewIn(ctl.graph, n, list)
  OBVIOUS
<1>5. new \in Seq(Nodes)
  <2> DEFINE names == <<n>> \o list
             P == {i \in DOMAIN names : names[i] \notin Vertices(ctl.graph)}
  <2>1. list \in Seq(Nodes)
    OBVIOUS
  <2>2. names \in Seq(Nodes)
    BY <2>1
  <2>3. P \in SUBSET (1..Len(names))
    <3> HIDE DEF names
    <3> QED BY <2>2
  <2>4. new = Among(names, P)
    BY <1>4 DEF NewIn
  <2> HIDE DEF P, names
  <2>5. Thinned(Nodes, names, P, new)
    BY <2>2, <2>3, <2>4, AmongHas
  <2> QED BY <2>5 DEF Thinned
<1>6. PICK q : q = ctl.asked \o new
  OBVIOUS
<1>7. q \in Seq(Nodes)
  BY <1>1, <1>5, <1>6
<1>8. PICK s : s = Learnt(ctl, r, new)
  OBVIOUS
<1>9. s \in Busy /\ s.flows = ctl.flows /\ s.addrs = ctl.addrs
  <2>1. s = [ctl EXCEPT !.graph = r.graph, !.asked = q]
    BY <1>6, <1>8 DEF Learnt
  <2>2. s = Other(ctl, r.graph, ctl.ids, q, ctl.crashed)
    BY <1>1, <2>1, RemadeOther, Zenon
  <2>3. ctl.ids \in Seq(Registered) /\ ctl.crashed \in BOOLEAN
    BY <1>1, BusyHas
  <2> QED BY <1>1, <1>3, <1>7, <2>2, <2>3, OtherIs
<1>10. PICK u : u = UpdateCache(s)
  OBVIOUS
<1>11. Rested(s) /\ Rested(u)
  <2>1. u \in Busy /\ Calm(u.flows) /\ Calm(u.addrs)
    BY <1>1, <1>9, <1>10, UpdateCacheIs
  <2> QED BY <1>1, <1>9, <2>1 DEF Rested
<1>12. ctl' = IF r.changed THEN u ELSE s
  BY <1>2, <1>4, <1>8, <1>10 DEF NeighborReport, Reported, WithReport
<1> QED BY <1>11, <1>12, Zenon

LEMMA RegisterKeeps ==
    ASSUME Rested(ctl), NEW n \in Nodes, NEW k \in Flows, Register(n, k) PROVE Rested(ctl')
<1>1. ctl \in Busy /\ Calm(ctl.flows) /\ Calm(ctl.addrs) /\ ctl.ids \in Seq(Registered)
  BY BusyHas DEF Rested
<1>2. PICK x : x = [flow |-> k, target |-> n]
  OBVIOUS
<1>3. PICK d : d = IF x \in ToSet(ctl.ids) THEN ctl.ids ELSE Append(ctl.ids, x)
  OBVIOUS
<1>4. d \in Seq(Registered)
  <2>1. x \in Registered
    BY <1>2 DEF Registered
  <2> QED BY <1>1, <1>3, <2>1
<1>5. ctl' = [ctl EXCEPT !.ids = d]
  BY <1>2, <1>3 DEF Register
<1>6. ctl' = Other(ctl, ctl.graph, d, ctl.asked, ctl.crashed)
  BY <1>1, <1>5, RemadeOther, Zenon
<1>7. ctl' \in Busy /\ ctl'.flows = ctl.flows /\ ctl'.addrs = ctl.addrs
  <2>1. ctl.graph \in Graphs /\ ctl.asked \in Seq(Nodes) /\ ctl.crashed \in BOOLEAN
    BY <1>1, BusyHas
  <2> QED BY <1>1, <1>4, <1>6, <2>1, OtherIs
<1> QED BY <1>1, <1>7 DEF Rested

\* What a node was told may be confirmed.
LEMMA SetOnlineIs ==
    ASSUME NEW K, NEW w, NEW l, Cached(K, w, l), Calm(l), NEW n, NEW k, NEW hop, NEW act,
           w[<<n, k>>] = [hop |-> hop, action |-> act], NEW r, r = SetOnline(l, n, k, hop, act)
    PROVE  Cached(K, w, r) /\ Calm(r)
<1>1. /\ l \in Seq(Entry(K)) /\ Len(l) \in Nat /\ Single(l)
      /\ \A i \in 1..Len(l) : l[i] \in Entry(K) /\ Apt(w, l[i])
  BY EntriesOf
<1>2. PICK i : i = Find(l, n, k)
  OBVIOUS
<1>3. i # 0 => i \in 1..Len(l) /\ l[i].source = n /\ l[i].key = k
  <2>1. PICK m \in Nat : m = Len(l)
    BY <1>1
  <2> QED BY <1>2, <2>1, FindIs
<1>4. CASE ~(i # 0 /\ l[i].hop = hop /\ l[i].action = act)
  <2>1. r = l
    BY <1>2, <1>4 DEF SetOnline
  <2> QED BY <2>1
<1>5. CASE i # 0 /\ l[i].hop = hop /\ l[i].action = act
  <2>1. PICK d : d = [l[i] EXCEPT !.online = TRUE]
    OBVIOUS
  <2>2. r = [l EXCEPT ![i] = d]
    BY <1>2, <1>5, <2>1 DEF SetOnline
  <2>3. i \in 1..Len(l) /\ l[i].source = n /\ l[i].key = k /\ l[i] \in Entry(K)
    BY <1>1, <1>3, <1>5
  <2>4. /\ d \in Entry(K) /\ d.source = n /\ d.key = k /\ d.changed = l[i].changed
        /\ d.hop = hop /\ d.action = act
    <3>1. PICK e : e = l[i]
      OBVIOUS
    <3>2. e \in Entry(K) /\ d = [e EXCEPT !.online = TRUE]
      BY <2>1, <2>3, <3>1
    <3>3. d \in Entry(K) /\ d.source = e.source /\ d.key = e.key /\ d.changed = e.changed /\ d.hop = e.hop /\ d.action = e.action
      BY <3>2 DEF Entry
    <3> QED BY <1>5, <2>3, <3>1, <3>3
  <2>5. SetupOf(d) = w[<<d.source, d.key>>]
    BY <2>4 DEF SetupOf
  <2>6. ~d.changed
    BY <2>3, <2>4, Zenon DEF Calm
  <2>7. Apt(w, d)
    BY <2>5, <2>6, Zenon DEF Apt
  <2>8. r \in Seq(Entry(K)) /\ Len(r) = Len(l) /\ r[i] = d /\ \A j \in 1..Len(l) : j # i => r[j] = l[j]
    <3> DEFINE T == Entry(K)
    <3>1. l \in Seq(T) /\ d \in T /\ i \in 1..Len(l)
      BY <1>1, <2>3, <2>4
    <3> HIDE DEF T
    <3>2. r \in Seq(T) /\ Len(r) = Len(l) /\ r[i] = d /\ \A j \in 1..Len(l) : j # i => r[j] = l[j]
      BY <2>2, <3>1
    <3> QED BY <3>2 DEF T
  <2>9. ASSUME NEW j \in 1..Len(r) PROVE r[j].source = l[j].source /\ r[j].key = l[j].key /\ Apt(w, r[j]) /\ ~r[j].changed
    <3>1. CASE j = i
      <4>1. r[j] = d
        BY <2>8, <3>1
      <4> QED BY <2>3, <2>4, <2>6, <2>7, <3>1, <4>1
    <3>2. CASE j # i
      <4>1. r[j] = l[j] /\ j \in 1..Len(l)
        BY <2>8, <3>2
      <4>2. ~l[j].changed
        BY <4>1 DEF Calm
      <4> QED BY <1>1, <4>1, <4>2
    <3> QED BY <3>1, <3>2
  <2>10. Single(r)
    BY <1>1, <2>8, <2>9 DEF Single
  <2> QED BY <2>8, <2>9, <2>10 DEF Cached, Calm
<1> QED BY <1>4, <1>5

LEMMA AcknowledgeKeeps ==
    ASSUME Rested(ctl), NEW n \in Nodes, NEW k \in Keys, Acknowledge(n, k) PROVE Rested(ctl')
<1>1. /\ ctl \in Busy /\ Calm(ctl.flows) /\ Calm(ctl.addrs) /\ ctl.told \in Words
      /\ Cached(Flows, ctl.told, ctl.flows) /\ Cached(Nodes, ctl.told, ctl.addrs)
  BY BusyHas DEF Rested
<1>2. PICK x, hop, act : x = ctl.told[<<n, k>>] /\ hop = x.hop /\ act = x.action
  OBVIOUS
<1>3. x # Nil
  BY <1>2 DEF Acknowledge
<1>4. ctl.told[<<n, k>>] = [hop |-> hop, action |-> act]
  <2>1. x \in Setups
    BY <1>1, <1>2, <1>3 DEF Words
  <2> QED BY <1>2, <2>1 DEF Setups
<1>5. PICK f, a : f = SetOnline(ctl.flows, n, k, hop, act) /\ a = SetOnline(ctl.addrs, n, k, hop, act)
  OBVIOUS
<1>6. Cached(Flows, ctl.told, f) /\ Calm(f) /\ Cached(Nodes, ctl.told, a) /\ Calm(a)
  BY <1>1, <1>4, <1>5, SetOnlineIs
<1>7. ctl' = WithFlows(ctl, f) \/ ctl' = WithAddrs(ctl, a)
  BY <1>2, <1>5 DEF Acknowledge, WithFlows, WithAddrs
<1>8. CASE ctl' = WithFlows(ctl, f)
  <2>1. Turns(ctl, ctl', f, ctl.addrs)
    BY <1>1, <1>6, <1>8, WithFlowsIs
  <2> QED BY <1>1, <1>6, <2>1 DEF Turns, Rested
<1>9. CASE ctl' = WithAddrs(ctl, a)
  <2>1. Turns(ctl, ctl', ctl.flows, a)
    BY <1>1, <1>6, <1>9, WithAddrsIs
  <2> QED BY <1>1, <1>6, <2>1 DEF Turns, Rested
<1> QED BY <1>7, <1>8, <1>9

\* The timer sends what is due, and counts.
Waits(s) == {t \in Busy : t.flows = s.flows /\ t.addrs = s.addrs}

LEMMA ResendIs ==
    ASSUME NEW s, NEW t0 \in Waits(s), NEW l, l = s.flows \/ l = s.addrs, NEW r, r = Resend(t0, l)
    PROVE  r \in Waits(s)
<1> DEFINE m == Len(l)
           S == Waits(s)
           start == t0
           Step(t, j) == IF Due(l[j]) THEN SendSetup(t, l[j]) ELSE t
           Rec(h) == h = [i \in 0..m |-> IF i = 0 THEN start ELSE Step(h[i - 1], i)]
<1>1. m \in Nat
  <2>1. t0 \in Busy /\ t0.flows = s.flows /\ t0.addrs = s.addrs
    BY DEF Waits
  <2> QED BY <2>1, LengthsOf
<1>2. start \in S
  OBVIOUS
<1>3. \A j \in 1..m : \A t \in S : Step(t, j) \in S
  <2> SUFFICES ASSUME NEW j \in 1..m, NEW t \in S PROVE Step(t, j) \in S
    OBVIOUS
  <2>1. t \in Busy /\ (l = t.flows \/ l = t.addrs) /\ t.flows = s.flows /\ t.addrs = s.addrs
    BY DEF Waits
  <2>2. PICK u : u = SendSetup(t, l[j])
    OBVIOUS
  <2>3. Turns(t, u, t.flows, t.addrs)
    BY <2>1, <2>2, ResentIs
  <2>4. u \in Waits(s)
    BY <2>1, <2>3 DEF Turns, Waits
  <2>5. Step(t, j) = u \/ Step(t, j) = t
    BY <2>2
  <2> HIDE DEF Step, m
  <2> QED BY <2>4, <2>5
<1>4. PICK z : /\ z \in [0..m -> S] /\ z[0] = start /\ r = z[m]
               /\ \A i \in 1..m : z[i] = Step(z[i - 1], i)
  <2> DEFINE f == [i \in 1..m |-> [t \in S |-> Step(t, i)]]
  <2>1. f \in [1..m -> [S -> S]]
    <3> HIDE DEF Step, m, S
    <3> QED BY <1>3
  <2>0. PICK z : Steps(m, S, start, f, z)
    <3>1. m \in Nat /\ start \in S /\ f \in [1..m -> [S -> S]]
      BY <1>1, <1>2, <2>1
    <3> HIDE DEF f, m, S, Step, Rec, start
    <3> QED BY <3>1, StepsExist
  <2>2. z \in [0..m -> S] /\ z[0] = start /\ \A i \in 1..m : z[i] = f[i][z[i - 1]]
    <3> HIDE DEF f, m, S, Step, Rec, start
    <3> QED BY <2>0 DEF Steps
  <2>3. \A i \in 1..m : z[i] = Step(z[i - 1], i)
    <3> SUFFICES ASSUME NEW i \in 1..m PROVE z[i] = Step(z[i - 1], i)
      OBVIOUS
    <3>1. i - 1 \in 0..m
      BY <1>1
    <3> HIDE DEF m, S, Step, start
    <3> QED BY <2>2, <3>1
  <2>4. Rec(z)
    <3>1. ASSUME NEW i \in 0..m PROVE z[i] = IF i = 0 THEN start ELSE Step(z[i - 1], i)
      <4>1. i = 0 \/ i \in 1..m
        BY <1>1
      <4> HIDE DEF m, S, Step, start
      <4> QED BY <2>2, <2>3, <4>1
    <3> HIDE DEF m, S, Step, start
    <3> QED BY <2>2, <3>1
  <2> DEFINE h == CHOOSE h : Rec(h)
  <2>5. r = h[m]
    BY DEF Resend, Folded
  <2>6. Rec(h)
    <3> HIDE DEF Rec
    <3> QED BY <2>4
  <2> HIDE DEF h
  <2>7. \A i \in 0..m : h[i] = IF i = 0 THEN start ELSE Step(h[i - 1], i)
    <3> HIDE DEF Step, start, m
    <3> QED BY <2>6
  <2>8. h[0] = z[0] /\ \A i \in 1..m : h[i - 1] = z[i - 1] => h[i] = z[i]
    <3>1. 0 \in 0..m /\ \A i \in 1..m : i \in 0..m /\ i # 0
      BY <1>1
    <3> HIDE DEF Step, start, m, S
    <3> QED BY <2>2, <2>3, <2>7, <3>1
  <2>9. h[m] = z[m]
    <3>1. m \in Nat
      BY <1>1
    <3> HIDE DEF m, Step, S, start
    <3> QED BY <2>8, <3>1, SameSteps
  <2> QED BY <2>2, <2>3, <2>5, <2>9
<1>5. r \in S
  <2>1. m \in 0..m
    BY <1>1
  <2> HIDE DEF S, Step, m
  <2> QED BY <1>4, <2>1
<1> QED BY <1>5

LEMMA CountDownIs ==
    ASSUME NEW K, NEW w, NEW e \in Entry(K), Apt(w, e), NEW d, d = CountDown(e)
    PROVE  Fits(K, w, e.source, e.key, d) /\ d.changed = e.changed
<1>1. RetransmitTime \in 1..RetransmitTime /\ RetransmitTime \in Nat
  BY ControllerAssumption
<1>2. PICK x : x = IF e.countdown = 1 THEN RetransmitTime ELSE e.countdown - 1
  OBVIOUS
<1>3. e.countdown \in 1..RetransmitTime /\ x \in 1..RetransmitTime
  BY <1>1, <1>2 DEF Entry
<1>4. d = e \/ d = [e EXCEPT !.countdown = x]
  BY <1>2 DEF CountDown
<1>5. /\ d \in Entry(K) /\ d.source = e.source /\ d.key = e.key /\ d.changed = e.changed /\ d.online = e.online
      /\ d.hop = e.hop /\ d.action = e.action
  BY <1>3, <1>4 DEF Entry
<1>6. SetupOf(d) = SetupOf(e)
  BY <1>5 DEF SetupOf
<1>7. Apt(w, d)
  BY <1>5, <1>6, Zenon DEF Apt
<1> QED BY <1>5, <1>7 DEF Fits

CountedDown(l) == [i \in DOMAIN l |-> CountDown(l[i])]

LEMMA CountedDownIs ==
    ASSUME NEW K, NEW w, NEW l, Cached(K, w, l), Calm(l), NEW r, r = CountedDown(l)
    PROVE  Cached(K, w, r) /\ Calm(r)
<1>1. /\ l \in Seq(Entry(K)) /\ Len(l) \in Nat /\ Single(l)
      /\ \A i \in 1..Len(l) : l[i] \in Entry(K) /\ Apt(w, l[i])
  BY EntriesOf
<1>2. DOMAIN l = 1..Len(l)
  BY <1>1
<1>3. \A i \in 1..Len(l) : r[i] = CountDown(l[i])
  BY <1>2 DEF CountedDown
<1>4. ASSUME NEW i \in 1..Len(l) PROVE Fits(K, w, l[i].source, l[i].key, r[i]) /\ r[i].changed = l[i].changed
  BY <1>1, <1>3, CountDownIs
<1>5. \A i \in 1..Len(l) : r[i] \in Entry(K) /\ r[i].source = l[i].source /\ r[i].key = l[i].key /\ Apt(w, r[i])
  BY <1>4 DEF Fits
<1>6. r = [i \in 1..Len(l) |-> r[i]]
  <2>1. r = [i \in 1..Len(l) |-> CountDown(l[i])]
    BY <1>2 DEF CountedDown
  <2> QED BY <1>3, <2>1
<1>7. r \in Seq(Entry(K)) /\ Len(r) = Len(l)
  <2> DEFINE T == Entry(K)
             k == Len(l)
  <2>1. k \in Nat /\ r = [i \in 1..k |-> r[i]] /\ \A i \in 1..k : r[i] \in T
    BY <1>1, <1>5, <1>6
  <2> HIDE DEF T, k
  <2>2. r \in Seq(T) /\ Len(r) = k
    BY <2>1
  <2> QED BY <2>2 DEF T, k
<1>8. Single(r)
  BY <1>1, <1>5, <1>7 DEF Single
<1>9. Calm(r)
  BY <1>4, <1>7 DEF Calm
<1> QED BY <1>5, <1>7, <1>8, <1>9 DEF Cached

LEMMA TickKeeps == Rested(ctl) /\ Tick => Rested(ctl')
<1> SUFFICES ASSUME Rested(ctl), Tick PROVE Rested(ctl')
  OBVIOUS
<1>1. ctl \in Busy /\ Calm(ctl.flows) /\ Calm(ctl.addrs) /\ ctl \in Waits(ctl)
  BY DEF Rested, Waits
<1>2. PICK t : t = Resend(ctl, ctl.flows)
  OBVIOUS
<1>3. t \in Waits(ctl)
  BY <1>1, <1>2, ResendIs
<1>4. PICK s : s = Resend(t, ctl.addrs)
  OBVIOUS
<1>5. s \in Waits(ctl)
  BY <1>3, <1>4, ResendIs
<1>6. s \in Busy /\ s.flows = ctl.flows /\ s.addrs = ctl.addrs
  BY <1>5 DEF Waits
<1>7. PICK f, a : f = CountedDown(s.flows) /\ a = CountedDown(s.addrs)
  OBVIOUS
<1>8. s.graph \in Graphs /\ s.told \in Words /\ Cached(Flows, s.told, s.flows) /\ Cached(Nodes, s.told, s.addrs)
  BY <1>6, BusyHas
<1>9. Cached(Flows, s.told, f) /\ Calm(f) /\ Cached(Nodes, s.told, a) /\ Calm(a)
  BY <1>1, <1>6, <1>7, <1>8, CountedDownIs
<1>10. ctl' = [s EXCEPT !.flows = f, !.addrs = a]
  BY <1>2, <1>4, <1>7 DEF Tick, CountedDown
<1>11. ctl' = With(s, s.graph, f, a, s.told)
  BY <1>6, <1>10, Remade, Zenon
<1>12. IsWith(s, ctl', s.graph, f, a, s.told)
  BY <1>6, <1>8, <1>9, <1>11, WithIs
<1> QED BY <1>9, <1>12 DEF IsWith, Rested

LEMMA ControllerBegins == Init => Rested(ctl)
<1> SUFFICES ASSUME Init PROVE Rested(ctl)
  OBVIOUS
<1> DEFINE A == Seq(Registered)
           F == Seq(Entry(Flows))
           D == Seq(Entry(Nodes))
           Q == Seq(Nodes)
<1>1. PICK g, d, w : /\ g = GetVertex(EmptyGraph, Own) /\ d = <<[flow |-> ControllerFlow, target |-> Own]>>
                     /\ w = [nk \in Nodes \X Keys |-> Nil]
  OBVIOUS
<1>2. g \in Graphs
  <2> DEFINE E == {MaxBattery}
  <2>1. Limits(Metrics, E) /\ MaxBattery \in E /\ Own \in Nodes
    BY GraphsGood, KeysApart
  <2> HIDE DEF E
  <2>2. Good(Metrics, E, EmptyGraph)
    BY <2>1, EmptyIsGood
  <2>3. Good(Metrics, E, g)
    BY <1>1, <2>1, <2>2, GetVertexIs
  <2> QED BY <2>3, GraphsGood DEF E
<1>3. d \in A
  <2>1. PICK x : x = [flow |-> ControllerFlow, target |-> Own]
    OBVIOUS
  <2>2. x \in Registered
    BY <2>1, ControllerAssumption DEF Registered
  <2> QED BY <1>1, <2>1, <2>2
<1>4. w \in Words
  BY <1>1 DEF Words
<1>5. <<>> \in F /\ <<>> \in D /\ <<>> \in Q /\ Len(<<>>) = 0
  OBVIOUS
<1>6. ctl = [graph |-> g, ids |-> d, flows |-> <<>>, addrs |-> <<>>, asked |-> <<>>, told |-> w, crashed |-> FALSE]
  BY <1>1 DEF Init
<1>7. /\ ctl \in [graph : Graphs, ids : A, flows : F, addrs : D, asked : Q, told : Words, crashed : BOOLEAN]
      /\ ctl.flows = <<>> /\ ctl.addrs = <<>> /\ ctl.told = w
  <2> HIDE DEF A, F, D, Q
  <2> QED BY <1>2, <1>3, <1>4, <1>5, <1>6
<1>8. Calm(<<>>) /\ Single(<<>>) /\ Cached(Flows, w, <<>>) /\ Cached(Nodes, w, <<>>)
  BY <1>5 DEF Calm, Single, Cached
<1> QED BY <1>7, <1>8 DEF Rested, Busy, Ctls

LEMMA ControllerGoesOn == Rested(ctl) /\ [Next]_ctl => Rested(ctl')
<1> SUFFICES ASSUME Rested(ctl), [Next]_ctl PROVE Rested(ctl')
  OBVIOUS
<1>1. ASSUME NEW n \in Askers, NEW k \in Flows, DataRequest(n, k) PROVE Rested(ctl')
  <2>1. n \in Nodes
    BY ControllerAssumption
  <2> QED BY <1>1, <2>1, RequestedFlowIs DEF DataRequest
<1>2. ASSUME OwnRequest PROVE Rested(ctl')
  BY <1>2, OwnRequestKeeps
<1>3. ASSUME NEW n \in Askers, NEW a \in Addresses \ {n}, ControlRequest(n, a) PROVE Rested(ctl')
  <2>1. n \in Nodes /\ a \in Nodes
    BY ControllerAssumption
  <2> QED BY <1>3, <2>1, ControlRequestKeeps
<1>4. ASSUME NEW r \in Reports, NEW metric \in [ToSet(r[2]) -> Metrics], NeighborReport(r[1], r[2], metric) PROVE Rested(ctl')
  <2>1. PICK n, list : n = r[1] /\ list = r[2]
    OBVIOUS
  <2>2. n \in Nodes /\ list \in Seq(Nodes \ {n})
    BY <2>1, ControllerAssumption
  <2>3. metric \in [ToSet(list) -> Metrics] /\ NeighborReport(n, list, metric)
    BY <1>4, <2>1
  <2> QED BY <2>2, <2>3, NeighborReportKeeps
<1>5. ASSUME NEW n \in Owners, NEW k \in Flows, Register(n, k) PROVE Rested(ctl')
  <2>1. n \in Nodes
    BY ControllerAssumption
  <2> QED BY <1>5, <2>1, RegisterKeeps
<1>6. ASSUME NEW n \in Ackers, NEW k \in Keys, Acknowledge(n, k) PROVE Rested(ctl')
  <2>1. n \in Nodes
    BY ControllerAssumption
  <2> QED BY <1>6, <2>1, AcknowledgeKeeps
<1>7. ASSUME Tick PROVE Rested(ctl')
  BY <1>7, TickKeeps
<1>8. ASSUME UNCHANGED ctl PROVE Rested(ctl')
  BY <1>8
<1> QED BY <1>1, <1>2, <1>3, <1>4, <1>5, <1>6, <1>7, <1>8 DEF Next

\* What the predicates of these proofs say in the words of the model
LEMMA RestedIsTold == Rested(ctl) => CachesTold
<1> SUFFICES ASSUME Rested(ctl) PROVE CachesTold
  OBVIOUS
<1>1. /\ ctl.ids \in Seq(Registered) /\ ctl.asked \in Seq(Nodes) /\ ctl.crashed \in BOOLEAN
      /\ Cached(Flows, ctl.told, ctl.flows) /\ Cached(Nodes, ctl.told, ctl.addrs)
      /\ Calm(ctl.flows) /\ Calm(ctl.addrs)
  BY BusyHas DEF Rested
<1>2. ASSUME NEW K, NEW l, Cached(K, ctl.told, l), Calm(l)
      PROVE  /\ DOMAIN l = 1..Len(l) /\ ToSet(l) \subseteq Entry(K)
             /\ \A e \in ToSet(l) : ~e.changed /\ (e.online => ctl.told[<<e.source, e.key>>] = [hop |-> e.hop, action |-> e.action])
             /\ \A i, j \in DOMAIN l : l[i].source = l[j].source /\ l[i].key = l[j].key => i = j
  <2>1. l \in Seq(Entry(K)) /\ Single(l) /\ \A i \in 1..Len(l) : l[i] \in Entry(K) /\ Apt(ctl.told, l[i])
    BY <1>2, EntriesOf
  <2>2. DOMAIN l = 1..Len(l)
    BY <2>1
  <2>3. ASSUME NEW i \in 1..Len(l)
        PROVE  ~l[i].changed /\ (l[i].online => ctl.told[<<l[i].source, l[i].key>>] = [hop |-> l[i].hop, action |-> l[i].action])
    <3>1. ~l[i].changed /\ Apt(ctl.told, l[i])
      BY <1>2, <2>1 DEF Calm
    <3> QED BY <3>1, Zenon DEF Apt, SetupOf
  <2>4. \A e \in ToSet(l) : \E i \in 1..Len(l) : e = l[i]
    BY <2>2 DEF ToSet
  <2>5. \A e \in ToSet(l) : ~e.changed /\ (e.online => ctl.told[<<e.source, e.key>>] = [hop |-> e.hop, action |-> e.action])
    BY <2>3, <2>4, Zenon
  <2>6. ToSet(l) \subseteq Entry(K)
    BY <2>1, <2>4
  <2> QED BY <2>1, <2>2, <2>5, <2>6 DEF Single
<1>3. TypeOK
  <2>1. ToSet(ctl.flows) \subseteq Entry(Flows) /\ ToSet(ctl.addrs) \subseteq Entry(Nodes)
    BY <1>1, <1>2
  <2>2. ToSet(ctl.ids) \subseteq [flow : Flows, target : Nodes]
    <3> DEFINE T == Registered
    <3>1. ctl.ids \in Seq(T)
      BY <1>1
    <3>2. ToSet(ctl.ids) \subseteq T
      <4> HIDE DEF T
      <4> QED BY <3>1 DEF ToSet
    <3> QED BY <3>2 DEF Registered
  <2>3. ToSet(ctl.asked) \subseteq Nodes
    BY <1>1 DEF ToSet
  <2> QED BY <1>1, <2>1, <2>2, <2>3 DEF TypeOK
<1>4. \A e \in Entries : ~e.changed /\ (e.online => ctl.told[<<e.source, e.key>>] = [hop |-> e.hop, action |-> e.action])
  BY <1>1, <1>2, Zenon DEF Entries
<1>5. OneEntry
  <2>1. ASSUME NEW l \in {ctl.flows, ctl.addrs}
        PROVE  \A i, j \in DOMAIN l : l[i].source = l[j].source /\ l[i].key = l[j].key => i = j
    <3>1. CASE l = ctl.flows
      <4>1. Cached(Flows, ctl.told, l) /\ Calm(l)
        BY <1>1, <3>1
      <4> QED BY <1>2, <4>1
    <3>2. CASE l = ctl.addrs
      <4>1. Cached(Nodes, ctl.told, l) /\ Calm(l)
        BY <1>1, <3>2
      <4> QED BY <1>2, <4>1
    <3> QED BY <3>1, <3>2
  <2> QED BY <2>1, Zenon DEF OneEntry
<1> QED BY <1>3, <1>4, <1>5, Zenon DEF CachesTold, NoneLeftMarked, OnlineWasTold

\* sdn-process-packets-controller.c, sdn-flow-table-cache.c: for any nodes, flows,
\* metrics and times, whatever is requested, reported, registered and acknowledged,
\* in any order and whatever cannot be sent: the caches keep their shape, a node has
\* one entry for a key, no handler leaves an entry marked, and an entry that is
\* online is what its node was last sent.
THEOREM CachesStayTold == Spec => []CachesTold
<1>1. Init => Rested(ctl)
  BY ControllerBegins
<1>2. Rested(ctl) /\ [Next]_ctl => Rested(ctl)'
  BY ControllerGoesOn
<1>3. Rested(ctl) => CachesTold
  BY RestedIsTold
<1> QED BY <1>1, <1>2, <1>3, PTL DEF Spec
=============================================================================
