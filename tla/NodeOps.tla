------------------------------ MODULE NodeOps ------------------------------
(***************************************************************************)
(* The handlers of a node as functions from memory to memory: the receive  *)
(* path (sdn-receive.c), the core process (sdn-core.c), the treatment of   *)
(* packets (sdn-process-packets.c), the packets kept for want of a route   *)
(* (sdn-unknown-route.c) and the two flow tables, on top of the sending    *)
(* layer of SendOps.  The memory of the node adds to the fields of SendOps *)
(*                                                                         *)
(*   lastHop     last_next_hop of the packet at the head of the queue      *)
(*   keep        keep_array                                                *)
(*   dft, cft    the data and the control flow table (FlowTableOps)        *)
(*   mode        sdn_state                                                 *)
(*   ndDue       should_send_nd                                            *)
(*   recvQ       sdn_recv_queue, oldest packet first                       *)
(*   corePosted  SDN_EVENT_NEW_PACKET events posted to sdn_core_process    *)
(***************************************************************************)
EXTENDS SendOps, FlowTableOps

CONSTANTS RecvQueueSize,    \* SDN_RECV_QUEUE_SIZE
          KeepMax           \* SDN_UNKNOWN_ROUTE_KEEP_MAX

ASSUME NodeAssumption == RecvQueueSize \in Nat \ {0} /\ KeepMax \in Nat \ {0}

Keeps == 0..(KeepMax - 1)

-----------------------------------------------------------------------------
(* sdn-unknown-route.c *)

\* store_packet: without an empty place, or a buffer, the packet is lost.
EmptyKeeps(s) == {i \in Keeps : s.keep[i].type = "NONE"}

\* Fault: the pool is not asked.
StoreUnchecked(s, p) ==
    IF EmptyKeeps(s) = {} THEN s
    ELSE [s EXCEPT !.keep[Least(EmptyKeeps(s))] = p, !.free = @ - 1]

StorePacket(s, p) ==
    IF EmptyKeeps(s) = {} \/ s.free = 0 THEN s
    ELSE [s EXCEPT !.keep[Least(EmptyKeeps(s))] = p, !.free = @ - 1]

\* sdn_unknown_flow, sdn_unknown_dest: the packet takes its buffer before the
\* request for its route asks for one.
UnknownRoute(s, p, request) ==
    LET t == StorePacket(s, p) IN
    IF t.mode = "AWAITING" THEN t ELSE Submit(t, MakeRequest(request, t.addr, p.to))

\* sdn_solve_unknown_flow, sdn_solve_unknown_dest: the kept packets of the new
\* route move to the send queue in the order of the array; those it has no room
\* for are discarded.
Waiting(s, class, k) == {i \in Keeps : s.keep[i].type \in class /\ s.keep[i].to = k}

Nth(S, n) == CHOOSE i \in S : Cardinality({j \in S : j < i}) = n - 1

Room(s) == SendQueueSize - Len(s.queue)

\* Fault: one packet per route.
MovedOne(s, S) == IF S = {} \/ Room(s) = 0 THEN 0 ELSE 1

Moved(s, S) == IF Cardinality(S) <= Room(s) THEN Cardinality(S) ELSE Room(s)

\* Fault: the buffers of the discarded packets are not put back.
SolveUnknownLeaking(s, S) ==
    LET t == [s EXCEPT !.queue = @ \o [n \in 1..Moved(s, S) |-> s.keep[Nth(S, n)]],
                       !.keep  = [i \in Keeps |-> IF i \in S THEN NoPacket ELSE s.keep[i]]]
    IN IF Moved(s, S) = 0 THEN t ELSE SendDownOnce(t)

SolveUnknown(s, S) ==
    LET t == [s EXCEPT !.queue = @ \o [n \in 1..Moved(s, S) |-> s.keep[Nth(S, n)]],
                       !.free  = @ + (Cardinality(S) - Moved(s, S)),
                       !.keep  = [i \in Keeps |-> IF i \in S THEN NoPacket ELSE s.keep[i]]]
    IN IF Moved(s, S) = 0 THEN t ELSE SendDownOnce(t)

-----------------------------------------------------------------------------
(* Flow tables of the node *)

\* Fault: the packets that wait for the route are forgotten.
InsertDataFlowOnly(s, k, h, a) ==
    [s EXCEPT !.dft = TableInsert(@, k, h, StoredAction(s.addr, h, a, {"FORWARD"}))]

\* sdn_dataflow_insert
InsertDataFlow(s, k, h, a) ==
    IF ~CanInsert(s.dft, k) THEN s
    ELSE SolveUnknown(
            [s EXCEPT !.dft = TableInsert(@, k, h, StoredAction(s.addr, h, a, {"FORWARD"}))],
            Waiting(s, ByFlow, k))

\* sdn_controlflow_insert
InsertControlFlow(s, k, h, a) ==
    IF ~CanInsert(s.cft, k) THEN s
    ELSE SolveUnknown(
            [s EXCEPT !.cft = TableInsert(@, k, h, StoredAction(s.addr, h, a, Actions))],
            Waiting(s, ByAddress, k))

-----------------------------------------------------------------------------
(* sdn-core.c: what neighbor and controller discovery report *)

\* nd_event
NdEvent(s) ==
    IF s.mode = "STEADY" THEN SendNeighborReport(s) ELSE [s EXCEPT !.ndDue = TRUE]

\* cd_event
CdEvent(s, hop) ==
    LET t == InsertDataFlow([s EXCEPT !.mode = "STEADY"], ControllerFlow, hop, "FORWARD") IN
    IF t.ndDue THEN SendNeighborReport([t EXCEPT !.ndDue = FALSE]) ELSE t

-----------------------------------------------------------------------------
(* sdn_execute_action_receive *)

TreatControlFlowSetup(s, p) ==
    Submit(RcvAddrReq(InsertControlFlow(s, p.key, p.hop, p.act), p.key),
           MakeSetupAck(s.addr, "CONTROL_SETUP", p.key, p.hop))

\* The route to the controller ends the wait for it, inserted or not.
TreatDataFlowSetup(s, p) ==
    LET acked == Submit(RcvFlowReq(s, p.key), MakeSetupAck(s.addr, "DATA_SETUP", p.key, p.hop))
        t     == InsertDataFlow(acked, p.key, p.hop, p.act)
    IN IF t.mode = "AWAITING" /\ p.key = ControllerFlow
       THEN SendNeighborReport([t EXCEPT !.mode = "STEADY"])
       ELSE t

\* treat_src_routed_control_flow_setup, _data_flow_setup and _ack: the packet
\* goes on along its path, has arrived, or, being a setup, goes on by address.
NextAlongPath(p) == [p EXCEPT !.to = p.path[Len(p.path)],
                              !.path = SubSeq(@, 1, Len(@) - 1)]

ByAddressCopy(p, type) == [p EXCEPT !.type = type, !.to = p.real, !.real = None]

TreatSourceRouted(s, p) ==
    IF p.path # <<>> THEN Submit(s, NextAlongPath(p))
    ELSE IF p.real = s.addr
         THEN CASE p.type = "SRC_CONTROL_SETUP" -> TreatControlFlowSetup(s, p)
                [] p.type = "SRC_DATA_SETUP"    -> TreatDataFlowSetup(s, p)
                [] p.type = "SRC_ACK"           -> RcvAck(s, p.act, p.ack)
         ELSE CASE p.type = "SRC_CONTROL_SETUP" -> Submit(s, ByAddressCopy(p, "CONTROL_SETUP"))
                [] p.type = "SRC_DATA_SETUP"    -> Submit(s, ByAddressCopy(p, "DATA_SETUP"))
                [] p.type = "SRC_ACK"           -> s

\* SDN_ND.input and SDN_CD.input belong to the discovery protocols; what they do
\* to the node is to report news.
TreatDiscovery(s, p) ==
    IF p.act # "NEW" THEN s
    ELSE IF p.type = "ND" THEN NdEvent([s EXCEPT !.nbrs = TRUE])
    ELSE CdEvent(s, p.hop)

\* A node expects no request, report or registration for itself; data goes to
\* the application.
ExecuteReceive(s, p) ==
    CASE p.type = "CONTROL_SETUP"  -> TreatControlFlowSetup(s, p)
      [] p.type = "DATA_SETUP"     -> TreatDataFlowSetup(s, p)
      [] p.type = "ACK_BY_ADDRESS" -> RcvAck(s, p.act, p.ack)
      [] p.type \in BySource       -> TreatSourceRouted(s, p)
      [] p.type \in NotRouted      -> TreatDiscovery(s, p)
      [] OTHER                     -> s

-----------------------------------------------------------------------------
(* sdn_treat_packet *)

HasRoute(s, p) ==
    \/ p.type \in ByFlow /\ Has(s.dft, p.to)
    \/ p.type \in ByAddress /\ Has(s.cft, p.to)
    \/ p.type \in BySource \union NotRouted

RouteTo(hop, act) == [hop |-> hop, act |-> act]

Route(s, p) ==
    CASE p.type \in ByFlow    -> RouteTo(Get(s.dft, p.to).hop, Get(s.dft, p.to).act)
      [] p.type \in ByAddress -> RouteTo(Get(s.cft, p.to).hop, Get(s.cft, p.to).act)
      [] p.type \in BySource  -> RouteTo(p.to, IF p.to = s.addr THEN "RECEIVE" ELSE "FORWARD")
      [] p.type \in NotRouted -> RouteTo(Broadcast, IF IsOwn(s, p) THEN "FORWARD" ELSE "RECEIVE")

\* sdn_treat_packet returns a next hop only for a packet to forward.
Forwards(s, p) == HasRoute(s, p) /\ Route(s, p).act = "FORWARD"

\* What it does to the memory; a packet to forward or to drop changes nothing.
TreatPacket(s, p) ==
    IF ~HasRoute(s, p)
    THEN UnknownRoute(s, p, IF p.type \in ByFlow THEN "DATA_REQUEST" ELSE "CONTROL_REQUEST")
    ELSE IF Route(s, p).act = "RECEIVE" THEN ExecuteReceive(s, p)
    ELSE s

-----------------------------------------------------------------------------
(* Events *)

\* sdn_receive, for a packet that is not a duplicate and whose THL is not zero:
\* any other leaves the memory as it is.
ReceiveFrame(s, p) ==
    IF s.free = 0 \/ Len(s.recvQ) = RecvQueueSize THEN s
    ELSE [s EXCEPT !.free = @ - 1, !.recvQ = Append(@, p),
                   !.corePosted = IF s.recvQ = <<>> THEN @ + 1 ELSE @]

\* Fault: nobody looks for the next packet.
CoreHandlerOnce(s) ==
    LET p == Head(s.recvQ)
        t == [s EXCEPT !.recvQ = Tail(@), !.corePosted = @ - 1]
        u == IF Forwards(t, p) THEN Submit(t, p) ELSE TreatPacket(t, p)
    IN [u EXCEPT !.free = @ + 1]

\* sdn_core_process: a packet to forward is copied to a second buffer before
\* its own goes back to the pool.
CoreHandler(s) ==
    LET p == Head(s.recvQ)
        t == [s EXCEPT !.recvQ = Tail(@), !.corePosted = @ - 1]
        u == IF Forwards(t, p) THEN Submit(t, p) ELSE TreatPacket(t, p)
    IN [u EXCEPT !.free = @ + 1, !.corePosted = IF u.recvQ # <<>> THEN @ + 1 ELSE @]

\* sdn_send_process: the head is treated again at every attempt.
SendHandler(s) ==
    LET p == Head(s.queue) IN
    IF Forwards(s, p) THEN [Transmit(s) EXCEPT !.lastHop = Route(s, p).hop]
    ELSE DropHead(TreatPacket(s, p))

\* sdn_send_done: the routes through a neighbor that never acknowledges go when
\* the packet is given up, those to the controller excepted.
SendDoneHandler(s, res) ==
    IF s.air = Head(s.queue) /\ res = "NOACK" /\ GivesUp(s, res)
    THEN [SendDone(s, res) EXCEPT !.dft = TablePurge(@, s.lastHop, {ControllerFlow}),
                                  !.cft = TablePurge(@, s.lastHop, {})]
    ELSE SendDone(s, res)

\* sdn_register_flowid
RegisterFlow(s, flow) ==
    IF ~CanInsert(s.dft, flow) THEN s
    ELSE Submit(InsertDataFlow(s, flow, s.addr, "RECEIVE"), MakeRequest("REGISTER", s.addr, flow))
=============================================================================
