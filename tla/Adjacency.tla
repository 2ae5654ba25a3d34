----------------------------- MODULE Adjacency ------------------------------
(***************************************************************************)
(* What the controller is to know of the network, without the lists of     *)
(* digraph.c: the latest metric of every link, the latest energy of every  *)
(* node, and whether the latest report was news for its routes.            *)
(***************************************************************************)
EXTENDS Integers, FiniteSets

CONSTANTS Nodes, Own, Metrics, Energies, Full, NoLevel, Weight(_, _)

VARIABLES known,     \* the nodes heard of
          metric,    \* the metric of every link, a function on pairs of nodes
          energy,    \* the energy of every node
          news,      \* the latest report changed the routes' graph
          told       \* the latest report

vars == <<known, metric, energy, news, told>>

Lowest(link) == CHOOSE e \in {energy[n] : n \in link} : \A n \in link : e <= energy[n]

\* The graph routes are computed on.
Weighted == [link \in DOMAIN metric |-> Weight(Lowest(link), metric[link])]

Noticed == news' <=> known' # known \/ Weighted' # Weighted

AdjInit ==
    /\ known = {Own}
    /\ metric = <<>>
    /\ energy = [n \in Nodes |-> Full]
    /\ news = FALSE
    /\ told = [from |-> Own, metric |-> <<>>, level |-> NoLevel]

\* A node reports its neighbors: its links are exactly those from now on.
Heard(s, report) ==
    LET others == {link \in DOMAIN metric : s \notin link}
        links  == {{s, n} : n \in DOMAIN report}
    IN  metric' = [link \in others \union links |->
                      IF s \in link THEN report[CHOOSE n \in link \ {s} : TRUE] ELSE metric[link]]

Report(s, report) ==
    /\ told' = [from |-> s, metric |-> report, level |-> NoLevel]
    /\ UNCHANGED energy
    /\ known' = known \union {s} \union DOMAIN report
    /\ Heard(s, report)
    /\ Noticed

Charge(s, level) ==
    /\ told' = [from |-> s, metric |-> <<>>, level |-> level]
    /\ known' = known \union {s}
    /\ energy' = [energy EXCEPT ![s] = level]
    /\ UNCHANGED metric
    /\ Noticed

AdjNext ==
    \E s \in Nodes :
        \/ \E level \in Energies : Charge(s, level)
        \/ \E nbrs \in SUBSET (Nodes \ {s}) : \E report \in [nbrs -> Metrics] : Report(s, report)

AdjSpec == AdjInit /\ [][AdjNext]_vars
=============================================================================
