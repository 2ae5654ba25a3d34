--------------------------- MODULE NaiveDiscovery ---------------------------
(***************************************************************************)
(* How the nodes of a directed network find the controller with naive-nd   *)
(* and naive_directed_cd.  A node that hears a neighbor reports it along   *)
(* the way it already has; the controller PC answers a new link with the   *)
(* news that the neighbor reaches the controller over the node that heard  *)
(* it, and how far that node is.  The controller node and all others hand  *)
(* such entries on in their beacons, a few times each; a node takes the    *)
(* nearest hop it is offered.  The build is that of change_to_naive.sh: a  *)
(* report tells links to its sender only, and naive-nd never forgets one.  *)
(* A beacon is heard by all, or some, of those in reach.  A report follows *)
(* the hops the nodes have when it arrives, or is lost; the routes that    *)
(* the controller PC sets up later are not part of the discovery.          *)
(***************************************************************************)
EXTENDS Lists, FiniteSets

CONSTANTS Nodes,        \* without the controller
          Controller,   \* the node of the controller
          Nowhere,      \* the broadcast address: no hop yet
          Links,        \* pairs <<n, m>>: m hears n
          Lifetime,     \* beacons an entry takes part in, 3 in the code
          ListSize,     \* blocks of ri_memb, 20 in the code
          Far,          \* current_metric without a hop, 0xFF
          MayLose       \* beacons and reports may be lost

NaiveDiscoveryAssumption ==
    /\ IsFiniteSet(Nodes)
    /\ Controller \notin Nodes /\ Nowhere \notin Nodes \union {Controller}
    /\ Links \subseteq (Nodes \union {Controller}) \X (Nodes \union {Controller})
    /\ {Lifetime, ListSize, Far} \subseteq Nat \ {0} /\ MayLose \in BOOLEAN

VARIABLES list,       \* ri_list of each node: who, over which hop, how far, for how long
          hop,        \* current_next_hop; the route to the controller
          metric,     \* current_metric
          neighbors,  \* the neighbor table of each node, in the order heard
          report,     \* "due": should_send_nd; "sent": on its way; or "none"
          graph       \* the links the controller PC knows

vars == <<list, hop, metric, neighbors, report, graph>>

All == Nodes \union {Controller}

Init ==
    /\ list = [n \in All |-> <<>>]
    /\ hop = [n \in Nodes |-> Nowhere] /\ metric = [n \in Nodes |-> Far]
    /\ neighbors = [n \in All |-> <<>>]
    /\ report = [n \in All |-> "none"]
    /\ graph = {}

\* Where a packet to the controller is after k hops
Follow(n, k) ==
    LET at[i \in 0..k] == IF i = 0 THEN n
                          ELSE IF at[i - 1] \in Nodes THEN hop[at[i - 1]] ELSE at[i - 1]
    IN  at[k]

Reaches(n) == Follow(n, Cardinality(All)) = Controller

\* SDN_DEFAULT_TTL - thl when the report of n arrives
Distance(n) == CHOOSE k \in 0..Cardinality(All) :
                   Follow(n, k) = Controller /\ \A j \in 0..(k - 1) : Follow(n, j) # Controller

-----------------------------------------------------------------------------
(* The list of a node *)

Places(l, who) == {i \in DOMAIN l : l[i].who = who}

\* Fault: the last block is never given out.
UpdatedEarly(l, e) ==
    IF Places(l, e.who) # {}
    THEN LET i == CHOOSE i \in Places(l, e.who) : TRUE
         IN  IF l[i].hop = e.hop /\ l[i].metric = e.metric THEN l ELSE [l EXCEPT ![i] = e]
    ELSE IF Len(l) < ListSize - 1 THEN Append(l, e) ELSE l

\* "updates our list": whatever is heard last is kept, and without a free block
\* nothing is.
Updated(l, e) ==
    IF Places(l, e.who) # {}
    THEN LET i == CHOOSE i \in Places(l, e.who) : TRUE
         IN  IF l[i].hop = e.hop /\ l[i].metric = e.metric THEN l ELSE [l EXCEPT ![i] = e]
    ELSE IF Len(l) < ListSize THEN Append(l, e) ELSE l

\* The controller's own entry for a node it hears: it is its hop.
UpdatedDirect(l, source) ==
    IF Places(l, source) # {}
    THEN LET i == CHOOSE i \in Places(l, source) : TRUE
         IN  [l EXCEPT ![i].hop = Controller, ![i].metric = 0]
    ELSE IF Len(l) < ListSize
    THEN Append(l, [who |-> source, hop |-> Controller, metric |-> 0, life |-> Lifetime])
    ELSE l

Alive(l) == Among(l, {i \in DOMAIN l : l[i].life > 0})

Aged(l) == [i \in DOMAIN l |-> [l[i] EXCEPT !.life = IF @ > 0 THEN @ - 1 ELSE 0]]

\* What a beacon hands on and what it leaves of the list.  The controller keeps
\* its entries.  Elsewhere one that has expired is removed while the list is
\* walked, and where the walk goes from there is up to list_remove: it may end
\* there, or go on.
Outcomes(n) ==
    LET l == list[n]
        dead == {i \in DOMAIN l : l[i].life = 0}
        first == CHOOSE i \in dead : \A j \in dead : i <= j
    IN  IF n = Controller \/ dead = {} THEN {[sent |-> Alive(l), left |-> Aged(l)]}
        ELSE {[sent |-> SubSeq(l, 1, first - 1),
               left |-> Aged(SubSeq(l, 1, first - 1)) \o SubSeq(l, first + 1, Len(l))],
              [sent |-> Alive(l), left |-> Aged(Alive(l))]}

-----------------------------------------------------------------------------
(* ndcd_input, for one entry of a message *)

\* "check if there is a entry related to us"
Takes(n, s, e) == e.who = n /\ n # Controller /\ e.hop # s.hop /\ e.metric < s.metric

\* What the entry makes of the node: its list, its hop and its metric
Heard(n, s, e) ==
    LET new == [e EXCEPT !.life = Lifetime]
    IN  IF e.who = Controller /\ n = Controller THEN s
        ELSE IF Takes(n, s, e)
        THEN [list |-> Updated(s.list, new), hop |-> e.hop, metric |-> e.metric]
        ELSE [s EXCEPT !.list = Updated(@, new)]

\* All entries of a message, one after the other
HeardAll(n, l, es) ==
    LET after[i \in 0..Len(es)] ==
            IF i = 0 THEN [list |-> l,
                           hop |-> IF n = Controller THEN Controller ELSE hop[n],
                           metric |-> IF n = Controller THEN 0 ELSE metric[n]]
            ELSE Heard(n, after[i - 1], es[i])
    IN  after[Len(es)]

\* Fault: the hop is taken to be the sender of the beacon.
ReceivedBack(n, source, es) ==
    HeardAll(n, IF n = Controller THEN UpdatedDirect(list[n], source) ELSE list[n],
             [i \in DOMAIN es |-> [es[i] EXCEPT !.hop = source]])

\* ndcd_input of a beacon
Received(n, source, es) ==
    HeardAll(n, IF n = Controller THEN UpdatedDirect(list[n], source) ELSE list[n], es)

-----------------------------------------------------------------------------
(* The reports: nd_event, cd_event and process_neighbor_report *)

\* naive_nd_input of a neighbor that is not in the table.  The controller node
\* hands its report to the serial line, another node needs a hop for it.
HearNeighbor(n, m) ==
    /\ <<m, n>> \in Links /\ \A i \in DOMAIN neighbors[n] : neighbors[n][i] # m
    /\ neighbors' = [neighbors EXCEPT ![n] = Append(@, m)]
    /\ report' = [report EXCEPT
           ![n] = IF n = Controller \/ hop[n] # Nowhere THEN "sent" ELSE "due"]
    /\ UNCHANGED <<list, hop, metric, graph>>

\* "can reach": the entries for the links a report of n is the first to tell
News(n) ==
    LET told == {i \in DOMAIN neighbors[n] : <<neighbors[n][i], n>> \in graph}
        new == Among(neighbors[n], DOMAIN neighbors[n] \ told)
    IN  [i \in DOMAIN new |->
            [who |-> new[i], hop |-> n, metric |-> Distance(n), life |-> Lifetime]]

\* process_neighbor_report, and the custom packets it sends the controller node
Report(n) ==
    /\ report[n] = "sent"
    /\ report' = [report EXCEPT ![n] = "none"]
    /\ \/ /\ Reaches(n)
          /\ graph' = graph \union {<<neighbors[n][i], n>> : i \in DOMAIN neighbors[n]}
          /\ list' = [list EXCEPT ![Controller] = HeardAll(Controller, @, News(n)).list]
       \/ /\ MayLose \/ ~Reaches(n)
          /\ UNCHANGED <<list, graph>>
    /\ UNCHANGED <<hop, metric, neighbors>>

-----------------------------------------------------------------------------
(* The beacons: ndcd_send_beacon, and ndcd_input at those who hear it *)

Hearers(n) == {m \in All : <<n, m>> \in Links}

Beacon(n) ==
    /\ list[n] # <<>>
    /\ \E o \in Outcomes(n), hearers \in SUBSET Hearers(n) :
          /\ MayLose \/ hearers = Hearers(n)
          /\ LET got == IF o.sent = <<>> THEN {} ELSE hearers
                 now == [m \in got |-> Received(m, n, o.sent)]
             IN  /\ list' = [m \in All |-> IF m \in got THEN now[m].list
                                           ELSE IF m = n THEN o.left ELSE list[m]]
                 /\ hop' = [m \in Nodes |-> IF m \in got THEN now[m].hop ELSE hop[m]]
                 /\ metric' = [m \in Nodes |-> IF m \in got THEN now[m].metric ELSE metric[m]]
                 \* cd_event: "Controller found"
                 /\ report' = [m \in All |->
                        IF m \in Nodes /\ hop'[m] # hop[m] /\ report[m] = "due"
                        THEN "sent" ELSE report[m]]
    /\ UNCHANGED <<neighbors, graph>>

Next ==
    \/ \E n, m \in All : HearNeighbor(n, m)
    \/ \E n \in All : Beacon(n) \/ Report(n)

\* The timers of the beacons go on, and a report arrives unless it is lost.
Fairness == \A n \in All :
    /\ WF_vars(Beacon(n)) /\ WF_vars(Report(n))
    /\ \A m \in All : WF_vars(HearNeighbor(n, m))

Spec == Init /\ [][Next]_vars /\ Fairness

-----------------------------------------------------------------------------
(* Properties *)

TypeOK ==
    /\ \A n \in All : /\ Len(list[n]) <= ListSize
                      /\ \A i, j \in DOMAIN list[n] : list[n][i].who = list[n][j].who => i = j
                      /\ \A i \in DOMAIN list[n] :
                            list[n][i] \in [who : All, hop : All, metric : 0..Cardinality(All), life : 0..Lifetime]
    /\ hop \in [Nodes -> All \union {Nowhere}] /\ metric \in [Nodes -> 0..Far]
    /\ \A n \in All : /\ \A i \in DOMAIN neighbors[n] : neighbors[n][i] \in All
                      /\ \A i, j \in DOMAIN neighbors[n] : neighbors[n][i] = neighbors[n][j] => i = j
    /\ report \in [All -> {"none", "due", "sent"}] /\ graph \subseteq Links

\* The hop of a node hears it, although the news came a long way round: the
\* links are directed, and nothing the node receives says who hears it.
HopHears == \A n \in Nodes : hop[n] # Nowhere => <<n, hop[n]>> \in Links

\* The list of a message is "(who, next_hop) to reach controller": whoever took
\* a hop from it reaches the controller, although each hop was taken from what
\* was told at another moment, and no distance told is ever corrected.
\* The code does not keep it: README, section 5.
NoLoop == \A n \in Nodes : hop[n] # Nowhere => Reaches(n)

\* When no beacon and no report is lost, every node a link of which the
\* controller PC knows finds the controller, before the entries expire, even
\* with no more blocks than the controller has nodes to tell of.
ToldIsFound == \A n \in Nodes : (\E m \in All : <<n, m>> \in graph) ~> hop[n] # Nowhere
=============================================================================
