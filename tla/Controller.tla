----------------------------- MODULE Controller -----------------------------
(***************************************************************************)
(* The controller's routing: requests, reports, registrations and          *)
(* acknowledgements (sdn-process-packets-controller.c) over the graph, the *)
(* route computation and the two caches.  Every handler runs to its end.   *)
(* The setups it sends are source routed; whether one can be sent depends  *)
(* on the graph, and what a node was last told is kept in told.  How it    *)
(* gets there is in SourceRoute, and what happens when it does not in      *)
(* RouteSetup.                                                             *)
(***************************************************************************)
EXTENDS DijkstraOps, ReportOps, RouteCache

CONSTANTS Flows,            \* flow ids
          ControllerFlow,   \* SDN_CONTROLLER_FLOW
          Nil,              \* nothing told
          Metrics,          \* the etx values a report can hold
          Reports,          \* bound: the neighbor reports, each a sender and its list
          Askers,           \* bound: the nodes that ask for routes
          Addresses,        \* bound: the addresses they ask for
          Owners,           \* bound: the nodes that register flows
          Ackers            \* bound: the nodes whose acknowledgements arrive

ASSUME ControllerAssumption ==
    /\ Own \in Nodes /\ NoNode \notin Nodes /\ IsFiniteSet(Nodes)
    /\ ControllerFlow \in Flows /\ Flows \intersect Nodes = {}
    /\ \A r \in Reports : r[1] \in Nodes /\ r[2] \in Seq(Nodes \ {r[1]})
    /\ Askers \union Addresses \union Owners \union Ackers \subseteq Nodes
    /\ SrcToNeighbors \in BOOLEAN /\ NeighborsToSrc \in BOOLEAN
    /\ Metrics \subseteq 0..MaxEtx /\ RetransmitTime \in Nat \ {0}

VARIABLE ctl
\* The state of the controller:
\*   graph     the digraph
\*   ids       flow_id_list_table: the targets of the flows, as registered
\*   flows     flow_id_table
\*   addrs     flow_address_table
\*   asked     the requests queued for itself, for nodes it had not known
\*   told      what each node was last sent for each key
\*   crashed   the process ran into a null pointer

Keys == Flows \union Nodes

-----------------------------------------------------------------------------
(* Setups *)

\* send_src_rtd_data_flow_setup, send_src_rtd_control_flow_setup: nothing is
\* sent without a way to the node.
SendAlong(s, e, way) ==
    IF e.source = Own \/ way.route # <<>>
    THEN [s EXCEPT !.told[<<e.source, e.key>>] = [hop |-> e.hop, action |-> e.action]]
    ELSE [s EXCEPT !.graph = way.graph]

SendSetup(s, e) == SendAlong(s, e, ShortestPath(s.graph, Own, e.source))

Sent(cache, i) == [cache EXCEPT ![i].changed = FALSE]

\* An entry goes out, and its mark.
TellFlow(s, i) == [SendSetup(s, s.flows[i]) EXCEPT !.flows = Sent(s.flows, i)]

TellAddress(s, i) == [SendSetup(s, s.addrs[i]) EXCEPT !.addrs = Sent(s.addrs, i)]

\* An entry goes out when its route is new or it is for the node that asked.
TellFlowIf(s, i, asker) ==
    IF s.flows[i].changed \/ s.flows[i].source = asker THEN TellFlow(s, i) ELSE s

TellAddressIf(s, i, asker) ==
    IF s.addrs[i].changed \/ s.addrs[i].source = asker THEN TellAddress(s, i) ELSE s

\* The entry of the hop i of a route
AddHop(cache, route, key, i) ==
    AddEntry(cache, route[i + 1].node, key, route[i].node, "FORWARD", route[i + 1].weight)

HopsOf(route) == [i \in 1..(Len(route) - 1) |-> i]

\* process_data_flow_setup with a route: every hop is cached and told.
SetupFlow(s, route, f, asker) ==
    LET hop(t, i) ==
            LET added == AddHop(t.flows, route, f, i)
            IN  TellFlowIf([t EXCEPT !.flows = added], Find(added, route[i + 1].node, f), asker)
    IN  Folded(hop, s, HopsOf(route))

\* process_control_flow_setup with a route
SetupAddress(s, route, a, asker) ==
    LET hop(t, i) ==
            LET added == AddHop(t.addrs, route, a, i)
            IN  TellAddressIf([t EXCEPT !.addrs = added], Find(added, route[i + 1].node, a), asker)
    IN  Folded(hop, s, HopsOf(route))

\* The setups of every entry that changed.
TellFlows(s) ==
    Folded(LAMBDA t, i : IF t.flows[i].changed THEN TellFlow(t, i) ELSE t,
             s, [i \in DOMAIN s.flows |-> i])

TellAddresses(s) ==
    Folded(LAMBDA t, i : IF t.addrs[i].changed THEN TellAddress(t, i) ELSE t,
             s, [i \in DOMAIN s.addrs |-> i])

-----------------------------------------------------------------------------
(* Routes to a flow: to the nearest of its targets *)

Better(best, route) ==
    IF route # <<>> /\ (best = <<>> \/ route[1].weight < best[1].weight) THEN route ELSE best

\* The next hop of the source, the last of a route that starts at its target.
FirstHop(route) == route[Len(route) - 1].node

\* ROUTE_SENSIBILITY: within a fifth of the weight in the cache.
Similar(weight, cached) == 10 * weight >= 8 * cached /\ 10 * weight <= 12 * cached

\* A target of the flow.  A best route so far with the same next hop as the
\* entry i renews the weight of i.
WithTarget(t, f, source, i, found, best) ==
    LET same == i # 0 /\ best # <<>> /\ FirstHop(best) = t.s.flows[i].hop
    IN  [s |-> [t.s EXCEPT !.graph = found.graph,
                           !.flows = IF same THEN AddEntry(@, source, f, FirstHop(best),
                                                           "FORWARD", best[1].weight)
                                     ELSE @],
         best |-> best, keep |-> t.keep \/ same]

TryTarget(t, f, source, i, found) == WithTarget(t, f, source, i, found, Better(t.best, found.route))

KeepSimilar(r, i) ==
    [r EXCEPT !.keep = @ /\ Similar(r.best[1].weight, r.s.flows[i].weight)]

\* get_flow_id_better_route: i is the entry that is looked at again, 0 for none.
BestFlowRoute(s, source, f, i) ==
    KeepSimilar(
        Folded(LAMBDA t, id :
                     TryTarget(t, f, source, i, ShortestPath(t.s.graph, source, id.target)),
                 [s |-> s, best |-> <<>>, keep |-> FALSE],
                 Among(s.ids, {j \in DOMAIN s.ids : s.ids[j].flow = f})), i)

\* Fault: only the entry that was looked at.
CacheFlowSource(s, route, f) ==
    LET n == Len(route)
    IN  [s EXCEPT !.flows = AddEntry(@, route[n].node, f, route[n - 1].node, "FORWARD", route[n].weight)]

\* A route found anew: all its entries.
CacheFlowRoute(s, route, f) ==
    [s EXCEPT !.flows = Folded(LAMBDA c, i : AddHop(c, route, f, i), @, HopsOf(route))]

\* Fault: an entry without a route stays as it is.
RenewFlowByKept(s, e, r) ==
    IF r.best = <<>> \/ r.keep THEN s ELSE CacheFlowRoute(r.s, r.best, e.key)

\* The entry e with the best route there is now
RenewFlowBy(s, e, r) ==
    CASE r.best = <<>> ->
             [r.s EXCEPT !.flows = AddEntry(@, e.source, e.key, e.source, "DROP", 0)]
      [] r.best # <<>> ->
             IF r.keep THEN r.s ELSE CacheFlowRoute(r.s, r.best, e.key)

RenewFlow(s, i) ==
    LET e == s.flows[i]
    IN  IF e.changed THEN s ELSE RenewFlowBy(s, e, BestFlowRoute(s, e.source, e.key, i))

\* process_flow_id_table_changes.  Entries added on the way are marked, so they
\* are not looked at a second time.
UpdateFlows(s) == TellFlows(Folded(RenewFlow, s, [i \in DOMAIN s.flows |-> i]))

-----------------------------------------------------------------------------
(* Routes to an address *)

\* process_flow_address_table_changes and get_better_route with an entry.  The
\* route goes from one entry to the next: it is only given up when its hops were
\* cached.  The search for the source in it runs over the end of a route of
\* another entry, and into the null pointer when there is no route.
RenewAddressBy(t, e, found, route) ==
    LET at == IF route = <<>> THEN 0 ELSE SelectInSeq(Tail(route), LAMBDA h : h.node = e.source)
        same == route[at].node = e.hop
        fresh == route # t.route
        s == [t.s EXCEPT !.graph = found.graph]
    IN  CASE at = 0 -> [t EXCEPT !.s.crashed = TRUE]
          [] at # 0 /\ same ->
                 [s |-> [s EXCEPT !.addrs = AddEntry(@, e.source, e.key, e.hop, "FORWARD", route[1].weight)],
                  route |-> route, keep |-> TRUE]
          [] at # 0 /\ ~same /\ t.keep /\ ~fresh -> [s |-> s, route |-> route, keep |-> TRUE]
          [] at # 0 /\ ~same /\ ~(t.keep /\ ~fresh) ->
                 [s |-> [s EXCEPT !.addrs = Folded(LAMBDA c, k : AddHop(c, route, e.key, k),
                                                     @, HopsOf(route))],
                  route |-> <<>>, keep |-> FALSE]

TryAddress(t, e, found) == RenewAddressBy(t, e, found, Better(t.route, found.route))

RenewAddress(t, i) ==
    LET e == t.s.addrs[i]
    IN  IF t.s.crashed \/ e.changed THEN t
        ELSE TryAddress(t, e, ShortestPath(t.s.graph, e.source, e.key))

\* What is told once every entry was looked at
TellOrCrash(s, done) == IF done.crashed THEN [s EXCEPT !.crashed = TRUE] ELSE TellAddresses(done)

UpdateAddresses(s) ==
    TellOrCrash(s, Folded(RenewAddress, [s |-> s, route |-> <<>>, keep |-> FALSE],
                            [i \in DOMAIN s.addrs |-> i]).s)

\* update_flow_table_cache
UpdateCache(s) == UpdateAddresses(UpdateFlows(s))

-----------------------------------------------------------------------------
(* Handlers *)

Init ==
    ctl = [graph   |-> GetVertex(EmptyGraph, Own),
           ids     |-> <<[flow |-> ControllerFlow, target |-> Own]>>,
           flows   |-> <<>>,
           addrs   |-> <<>>,
           asked   |-> <<>>,
           told    |-> [nk \in Nodes \X Keys |-> Nil],
           crashed |-> FALSE]

\* process_data_flow_request_packet: a route that is cached is being sent, or
\* was confirmed, already.
AnswerFlow(s, n, f, r) ==
    LET added == AddEntry(r.s.flows, n, f, n, "DROP", 0)
    IN  IF r.best = <<>> THEN TellFlow([r.s EXCEPT !.flows = added], Find(added, n, f))
        ELSE SetupFlow(r.s, r.best, f, n)

RequestedFlow(s, n, f) ==
    IF Find(s.flows, n, f) # 0 THEN s ELSE AnswerFlow(s, n, f, BestFlowRoute(s, n, f, 0))

DataRequest(n, f) == ctl' = RequestedFlow(ctl, n, f)

\* A request the controller queued for a node it had not known is at the head
\* of its send queue.
OwnRequest ==
    /\ ctl.asked # <<>>
    /\ ctl' = RequestedFlow([ctl EXCEPT !.asked = Tail(@)], Head(ctl.asked), ControllerFlow)

AnswerAddress(s, n, a, route) ==
    LET added == AddEntry(s.addrs, n, a, n, "DROP", 0)
    IN  IF route = <<>> THEN TellAddress([s EXCEPT !.addrs = added], Find(added, n, a))
        ELSE SetupAddress(s, route, a, n)

AnswerFound(s, n, a, found) == AnswerAddress([s EXCEPT !.graph = found.graph], n, a, found.route)

\* process_control_flow_request
ControlRequest(n, a) ==
    ctl' = IF Find(ctl.addrs, n, a) # 0 THEN ctl
           ELSE AnswerFound(ctl, n, a, ShortestPath(ctl.graph, n, a))

\* The nodes of a report that were not known
NewIn(g, n, list) ==
    LET names == <<n>> \o list
    IN  Among(names, {i \in DOMAIN names : names[i] \notin Vertices(g)})

Learnt(s, r, new) == [s EXCEPT !.graph = r.graph, !.asked = @ \o new]

WithReport(s, r, new) ==
    IF r.changed THEN UpdateCache(Learnt(s, r, new)) ELSE Learnt(s, r, new)

\* process_neighbor_report
Reported(s, n, list, metric) ==
    WithReport(s, ReportedGraph(s.graph, n, list, metric), NewIn(s.graph, n, list))

NeighborReport(n, list, metric) == ctl' = Reported(ctl, n, list, metric)

\* SDN_PACKET_REGISTER_FLOWID: the flow has one more target; no route is
\* looked at again.
Register(n, f) ==
    ctl' = [ctl EXCEPT !.ids = IF [flow |-> f, target |-> n] \in ToSet(@) THEN @
                               ELSE Append(@, [flow |-> f, target |-> n])]

\* SDN_PACKET_ACK_BY_FLOW_ID: the node returns the setup it was sent.
Acknowledge(n, k) ==
    LET setup == ctl.told[<<n, k>>]
    IN  /\ setup # Nil
        /\ ctl' = IF k \in Flows
                  THEN [ctl EXCEPT !.flows = SetOnline(@, n, k, setup.hop, setup.action)]
                  ELSE [ctl EXCEPT !.addrs = SetOnline(@, n, k, setup.hop, setup.action)]

\* Every entry whose time is up.
Resend(s, cache) ==
    Folded(LAMBDA t, e : IF Due(e) THEN SendSetup(t, e) ELSE t, s, cache)

\* sdn_reliability_timer_event
Tick ==
    LET s == Resend(Resend(ctl, ctl.flows), ctl.addrs)
    IN  ctl' = [s EXCEPT !.flows = [i \in DOMAIN @ |-> CountDown(@[i])],
                         !.addrs = [i \in DOMAIN @ |-> CountDown(@[i])]]

Next ==
    /\ ~ctl.crashed
    /\ \/ \E n \in Askers, f \in Flows : DataRequest(n, f)
       \/ OwnRequest
       \/ \E n \in Askers : \E a \in Addresses \ {n} : ControlRequest(n, a)
       \/ \E r \in Reports : \E metric \in [ToSet(r[2]) -> Metrics] : NeighborReport(r[1], r[2], metric)
       \/ \E n \in Owners, f \in Flows : Register(n, f)
       \/ \E n \in Ackers, k \in Keys : Acknowledge(n, k)
       \/ Tick

Spec == Init /\ [][Next]_ctl

-----------------------------------------------------------------------------
Entry(keys) ==
    [source : Nodes, key : keys, hop : Nodes, action : {"FORWARD", "DROP"}, weight : Nat,
     changed : BOOLEAN, online : BOOLEAN, countdown : 1..RetransmitTime]

TypeOK ==
    /\ ToSet(ctl.ids) \subseteq [flow : Flows, target : Nodes]
    /\ ToSet(ctl.flows) \subseteq Entry(Flows)
    /\ ToSet(ctl.addrs) \subseteq Entry(Nodes)
    /\ ToSet(ctl.asked) \subseteq Nodes
    /\ ctl.crashed \in BOOLEAN

Entries == ToSet(ctl.flows) \union ToSet(ctl.addrs)

\* The handlers print "ERROR: (inconsistency)" for an entry that is still
\* marked when they begin: whatever path marked it has told the node as well.
NoneLeftMarked == \A e \in Entries : ~e.changed

\* A node has one entry for a key, or a request would find the older one only.
OneEntry ==
    \A cache \in {ctl.flows, ctl.addrs} : \A i, j \in DOMAIN cache :
        cache[i].source = cache[j].source /\ cache[i].key = cache[j].key => i = j

\* An entry that differs from what its node was last sent is offline, so that
\* the timer sends it again: neither an acknowledgement of an older route nor a
\* setup that could not be sent leaves the node with another route for good.
OnlineWasTold ==
    \A e \in Entries : e.online => ctl.told[<<e.source, e.key>>] = [hop |-> e.hop, action |-> e.action]

Targets(f) == {t \in Nodes : [flow |-> f, target |-> t] \in ToSet(ctl.ids)}

Hop(n, f) == LET i == Find(ctl.flows, n, f) IN IF i = 0 THEN n ELSE ctl.flows[i].hop

\* Where a packet ends that follows the routes of the cache, however far.
Arrival(n, f) ==
    Folded(LAMBDA m, i : IF m \in Targets(f) THEN m ELSE Hop(m, f), n,
             [i \in 1..Cardinality(Nodes) |-> i])

\* The routes given out for a flow fit together: from every node that forwards,
\* hop by hop over entries made at different times, a target is reached.
RoutesArrive ==
    \A e \in ToSet(ctl.flows) : e.action = "FORWARD" => Arrival(e.source, e.key) \in Targets(e.key)

\* After every handler the flow cache fits the graph as it is now: a node is
\* told to drop exactly when no target can be reached, and forwards over a link
\* that exists.
RoutesCurrent ==
    \A e \in ToSet(ctl.flows) :
        LET near == Distances(ctl.graph, e.source)
            open == \E t \in Targets(e.key) \ {e.source} : near[t] < Infinite
        IN  /\ e.action = "FORWARD" <=> open
            /\ e.action = "FORWARD" => HasEdge(ctl.graph, e.source, e.hop)

\* sdn-process-packets.c: "ACTION_DROP means there is currently no route to the
\* destination."
\* The code does not keep it: README, section 5.
DropMeansNoRoute ==
    \A e \in ToSet(ctl.flows) : e.action = "DROP" =>
        \A t \in Targets(e.key) \ {e.source} : Distances(ctl.graph, e.source)[t] >= Infinite

\* process_flow_address_table_changes has a case for "no routes to address": an
\* update gets through whatever the graph has become.
UpdateCompletes == ~ctl.crashed
=============================================================================
