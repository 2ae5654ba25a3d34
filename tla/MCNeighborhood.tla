--------------------------- MODULE MCNeighborhood ---------------------------
(* What a node does about its neighbors.  In each behavior one part moves.
   "shared" and "again": the SDN stack and collect share the MAC, three frames
   each, so that a send can meet one under way, and its report the next one; in
   "again" collect's callback sends, and the count, of four values, comes round
   with the sends that find it taken for good.  "collect", "metrics" and "naive": the
   neighbor table, two entries for three or four neighbors, and metrics on both
   sides of the limits: 16 and 60 differ by more than the factor and less than
   Delta, 300 and 511 by more than Delta and less than the factor.  "ring" and
   "lossy": the discovery of the controller over one-way links, where what it
   tells goes the other way round than the reports, or it hears one node only. *)
EXTENDS Commutator

CONSTANTS sdn, collect, nobody, c, n1, n2, n3, n4, nowhere,
          TableSize, UintMod, Delta, Factor,         \* of NeighborTable
          Nodes, Controller, Nowhere, Lifetime, Far  \* of NaiveDiscovery

VARIABLES part,   \* what moves; it never changes
          table, taken, collected, steady, due, locked,                 \* NeighborTable
          reported, known, refused, passes, changes,
          list, hop, metric, neighbors, report, graph                   \* NaiveDiscovery

neighborTable == <<table, taken, collected, steady, due, locked,
                   reported, known, refused, passes, changes>>
discovery == <<list, hop, metric, neighbors, report, graph>>
all == <<part, vars, neighborTable, discovery>>

Shared == INSTANCE Commutator WITH Nesting <- {}

\* The neighbor table of a node with so many neighbors, of these metrics, that
\* collect-nd or naive-nd fills
Table(Neighbors, Metrics, Collect, MaxChanges) == INSTANCE NeighborTable

Few == {n1, n2, n3}
Rough == {16, 300}
Two == {n1, n2}
Fine == {0, 16, 60, 300, 511}
Many == {n1, n2, n3, n4}

\* The discovery over given links, with so many blocks, with or without loss
Net(Links, ListSize, MayLose) == INSTANCE NaiveDiscovery

\* One way round, every node in turn, and nothing is lost: three blocks are just
\* enough for the nodes that the controller tells of.
RingLinks == {<<c, n1>>, <<n1, n2>>, <<n2, n3>>, <<n3, c>>}

\* The controller is heard by two nodes, hears one, and anything may be lost.
LossyLinks == {<<c, n1>>, <<c, n2>>, <<n1, n2>>, <<n2, n1>>, <<n1, c>>}

ASSUME Shared!CommutatorAssumption /\ ~MayWrap
ASSUME TableAssumption ==
    /\ Table(Few, Rough, TRUE, 4)!NeighborTableAssumption
    /\ Table(Two, Fine, TRUE, 3)!NeighborTableAssumption
    /\ Table(Many, {16}, FALSE, 0)!NeighborTableAssumption
ASSUME NetAssumption ==
    /\ Net(RingLinks, 3, FALSE)!NaiveDiscoveryAssumption
    /\ Net(LossyLinks, 2, TRUE)!NaiveDiscoveryAssumption

AllInit ==
    /\ part \in {"shared", "again", "collect", "metrics", "naive", "ring", "lossy"}
    /\ Init /\ Table(Few, Rough, TRUE, 4)!Init /\ Net(RingLinks, 3, FALSE)!Init

CommutatorMoves(p) == part = p /\ UNCHANGED <<part, neighborTable, discovery>>
TableMoves(p) == part = p /\ UNCHANGED <<part, vars, discovery>>
DiscoveryMoves(p) == part = p /\ UNCHANGED <<part, vars, neighborTable>>

AllNext ==
    \/ CommutatorMoves("shared") /\ Shared!Next
    \/ CommutatorMoves("again") /\ Next
    \/ TableMoves("collect") /\ Table(Few, Rough, TRUE, 4)!Next
    \/ TableMoves("metrics") /\ Table(Two, Fine, TRUE, 3)!Next
    \/ TableMoves("naive") /\ Table(Many, {16}, FALSE, 0)!Next
    \/ DiscoveryMoves("ring") /\ Net(RingLinks, 3, FALSE)!Next
    \/ DiscoveryMoves("lossy") /\ Net(LossyLinks, 2, TRUE)!Next

\* The fairness of Commutator and of NaiveDiscovery, on the steps of this module
AllFairness ==
    /\ WF_all(CommutatorMoves("shared") /\ \E status \in Statuses : Shared!MacReports(status))
    /\ \A n \in Nodes \union {Controller} :
          /\ WF_all(DiscoveryMoves("ring") /\ Net(RingLinks, 3, FALSE)!Beacon(n))
          /\ WF_all(DiscoveryMoves("ring") /\ Net(RingLinks, 3, FALSE)!Report(n))
          /\ \A m \in Nodes \union {Controller} :
                WF_all(DiscoveryMoves("ring") /\ Net(RingLinks, 3, FALSE)!HearNeighbor(n, m))

AllSpec == AllInit /\ [][AllNext]_all /\ AllFairness

-----------------------------------------------------------------------------
\* protocol-commutator.c: if callbacks do not send, every send is reported in
\* the end, refused ones too, unless the battery is empty; the send layer waits
\* for nothing else.  The count says all along whether the MAC has a frame.
SendsReported == part = "shared" => Shared!EventuallyReported /\ []Shared!OneUnderWay

\* The table keeps one entry and one block for each neighbor, holds what collect
\* knows after two passes, stays close to what it measures, and no change of it
\* is left out of the reports.
TableFollows ==
    /\ part = "collect" => /\ Table(Few, Rough, TRUE, 4)!TypeOK
                           /\ Table(Few, Rough, TRUE, 4)!TableSound
                           /\ Table(Few, Rough, TRUE, 4)!SettledInTwo
                           /\ Table(Few, Rough, TRUE, 4)!EveryChangeTold
    /\ part = "metrics" => /\ Table(Two, Fine, TRUE, 3)!TypeOK
                           /\ Table(Two, Fine, TRUE, 3)!TableSound
                           /\ Table(Two, Fine, TRUE, 3)!MetricsClose
                           /\ Table(Two, Fine, TRUE, 3)!EveryChangeTold
    /\ part = "naive" => /\ Table(Many, {16}, FALSE, 0)!TypeOK
                         /\ Table(Many, {16}, FALSE, 0)!TableSound
                         /\ Table(Many, {16}, FALSE, 0)!EveryChangeTold

\* Over one-way links, with beacons and reports lost, reordered and late, the
\* hop a node takes to the controller is one that hears it.
HopsHear ==
    /\ part = "ring" => Net(RingLinks, 3, FALSE)!TypeOK /\ Net(RingLinks, 3, FALSE)!HopHears
    /\ part = "lossy" => Net(LossyLinks, 2, TRUE)!TypeOK /\ Net(LossyLinks, 2, TRUE)!HopHears

\* Around the ring, with nothing lost, every node a link of which the controller
\* knows finds it, before the entries expire and with no block to spare.
RingFound == part = "ring" => Net(RingLinks, 3, FALSE)!ToldIsFound
=============================================================================
