------------------------------ MODULE SdnNode ------------------------------
(***************************************************************************)
(* A sensor node from sdn_init on.  Every action is one Contiki event run  *)
(* to its end: a frame from the radio, a call of the application, a report *)
(* of the discovery protocols, a posted event, a timer or the MAC's answer *)
(* to a transmission.                                                      *)
(***************************************************************************)
EXTENDS NodeOps

CONSTANTS Node,             \* sdn_node_addr
          Heard,            \* packets the radio may deliver
          AppFlows,         \* flows the application sends to
          OwnFlows,         \* flows the application registers as its own
          CdHops,           \* next hops controller discovery may report
          Beacons,          \* discovery packets the ND and CD protocols send
          NeighborNews      \* what ND may say of the neighbor table: not empty

ASSUME SdnNodeAssumption ==
    /\ Node \in Addrs /\ None \notin Addrs
    /\ Heard \subseteq {p \in WellFormed : p.src \in Addrs \ {Node}}
    /\ AppFlows \subseteq Flows /\ OwnFlows \subseteq Flows
    /\ CdHops \subseteq Addrs
    /\ Beacons \subseteq NotRouted
    /\ NeighborNews \subseteq BOOLEAN

VARIABLE node

\* sdn_init: sdn_controlflow_init enters the node's own address.
UnusedEntry == [key |-> None, hop |-> Node, act |-> "DROP"]

InitialNode ==
    LET send == InitialSend(Node, FALSE)
        more == [lastHop |-> None, keep |-> [i \in Keeps |-> NoPacket],
                 dft |-> EmptyTable(UnusedEntry),
                 cft |-> TableInsert(EmptyTable(UnusedEntry), Node, Node, "RECEIVE"),
                 mode |-> "AWAITING", ndDue |-> FALSE, recvQ |-> <<>>, corePosted |-> 0]
    IN [f \in DOMAIN send \union DOMAIN more |-> IF f \in DOMAIN send THEN send[f] ELSE more[f]]

Init == node = InitialNode

-----------------------------------------------------------------------------
(* From outside *)

RadioReceive(p) == node' = ReceiveFrame(node, p)

AppSend(flow) == node' = Submit(node, MakeData(Node, flow))

AppRegister(flow) == node' = RegisterFlow(node, flow)

EnergyReport == node' = Submit(node, MakeEnergyReport(Node))

Beacon(type) == node' = Submit(node, MakeDiscovery(type, Node))

NeighborChange(some) == node' = NdEvent([node EXCEPT !.nbrs = some])

ControllerFound(hop) == node' = CdEvent(node, hop)

MacReports(res) == node.air # NoPacket /\ node' = SendDoneHandler(node, res)

(* From the node's own processes and timers *)

CoreProcess == node.corePosted > 0 /\ node' = CoreHandler(node)

SendProcess == node.posted > 0 /\ node' = SendHandler(node)

TrickleTimer == node.trickle /\ node' = TrickleTimeCallback(node)

SlotTimer(i) == node.slot[i].timer /\ node' = SldF(node, i)

Next ==
    \/ \E p \in Heard : RadioReceive(p)
    \/ \E flow \in AppFlows : AppSend(flow)
    \/ \E flow \in OwnFlows : AppRegister(flow)
    \/ EnergyReport
    \/ \E type \in Beacons : Beacon(type)
    \/ \E some \in NeighborNews : NeighborChange(some)
    \/ \E hop \in CdHops : ControllerFound(hop)
    \/ \E res \in Results : MacReports(res)
    \/ CoreProcess
    \/ SendProcess
    \/ TrickleTimer
    \/ \E i \in Slots : SlotTimer(i)

Spec == Init /\ [][Next]_node

-----------------------------------------------------------------------------

\* The shape of the node's memory.
TypeOK ==
    /\ SendTyped(node)
    /\ node.lastHop \in Addrs \union {Broadcast, None}
    /\ node.keep \in [Keeps -> Packet]
    /\ node.dft \in Table(Flows \union {None}, Addrs)
    /\ node.cft \in Table(Addrs \union {None}, Addrs)
    /\ node.mode \in {"AWAITING", "STEADY"} /\ node.ndDue \in BOOLEAN
    /\ node.recvQ \in Seq(Packet) /\ node.corePosted \in Nat

Kept == {i \in Keeps : node.keep[i].type # "NONE"}

\* Every buffer of the pool is free, in one of the two queues or kept for a
\* route: over all the paths of sdn_treat_packet and its callers none leaks and
\* none is returned twice.
PoolConserved ==
    node.free + Len(node.queue) + Len(node.recvQ) + Cardinality(Kept) = PoolSize

\* The send queue and the receive queue each have exactly one event under way
\* while they hold a packet: neither process starves and neither runs on an
\* empty queue (sdn-send.c:102-109, sdn-receive.c:75-86, sdn-core.c:186-188).
OneWakeup ==
    /\ DrivenOnce(node)
    /\ node.corePosted = IF node.recvQ = <<>> THEN 0 ELSE 1

\* The retransmission window is consistent across every handler that touches it.
WindowSound == WindowOK(node)

\* A packet is kept only while its route is unknown: each insertion of a route,
\* from a setup, from controller discovery or from the application, frees the
\* packets that wait for it (sdn-unknown-route.c:130-181).
KeptHaveNoRoute == \A i \in Kept : ~HasRoute(node, node.keep[i])

\* A packet kept for a route is not lost when the route comes, unless the send
\* queue is full by then.  It may have one place again after the step if the head
\* of the queue brought the route and is dropped for having done so.
KeptReachesQueue ==
    [][\A i \in Kept : node'.keep[i] = NoPacket =>
          \/ Len(node'.queue) = SendQueueSize
          \/ node.posted > 0 /\ Len(node'.queue) = SendQueueSize - 1
          \/ \E n \in 1..Len(node'.queue) : node'.queue[n] = node.keep[i]]_node

\* Lookups are unambiguous in both tables and no block of their pools leaks,
\* under all the insertions and purges the node makes.
TablesSound ==
    \A t \in {node.dft, node.cft} :
        /\ t.used \subseteq t.linked
        /\ \A b, c \in t.linked : t.blk[b].key = t.blk[c].key => b = c

\* "We should avoid to delete flow to the controller" (data-flow-table.c:111):
\* once it is in the data table, no purge and no reuse of a purged block takes
\* the route to the controller away.
ControllerFlowKept ==
    [][Has(node.dft, ControllerFlow) => Has(node'.dft, ControllerFlow)]_node
=============================================================================
