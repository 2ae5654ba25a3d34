------------------------------ MODULE SdnSend ------------------------------
(***************************************************************************)
(* The sending layer of a node by itself.  The layers above it are its     *)
(* environment: they submit packets, take and return buffers of the pool   *)
(* they share with it, tell it which setups and acknowledgements arrived,  *)
(* and decide whether the head of the queue has a next hop.  The MAC       *)
(* answers every transmission with any status.                             *)
(***************************************************************************)
EXTENDS SendOps

CONSTANTS Sender,       \* sdn_node_addr
          Outgoing,     \* packets the layers above submit
          AckedSeqs     \* sequence numbers acknowledgements may carry

ASSUME SdnSendAssumption ==
    /\ Sender \in Addrs
    /\ None \notin Addrs
    /\ Outgoing \subseteq {p \in Packet : p.type # "NONE"}
    /\ AckedSeqs \subseteq 0..(SeqMod - 1)

VARIABLES mem,          \* the layer's memory (SendOps)
          held          \* buffers the layers above hold

vars == <<mem, held>>

LayerInit == mem = InitialSend(Sender, TRUE) /\ held = 0

-----------------------------------------------------------------------------
(* The layers above *)

Send(p) == mem' = Submit(mem, p) /\ UNCHANGED held

ReportNeighbors == mem' = SendNeighborReport(mem) /\ UNCHANGED held

TakeBuffer ==
    /\ mem.free > 0
    /\ mem' = [mem EXCEPT !.free = @ - 1]
    /\ held' = held + 1

ReturnBuffer ==
    /\ held > 0
    /\ mem' = [mem EXCEPT !.free = @ + 1]
    /\ held' = held - 1

FlowSetupArrives(flow) == mem' = RcvFlowReq(mem, flow) /\ UNCHANGED held

AddrSetupArrives(addr) == mem' = RcvAddrReq(mem, addr) /\ UNCHANGED held

AckArrives(type, seq) == mem' = RcvAck(mem, type, seq) /\ UNCHANGED held

-----------------------------------------------------------------------------
(* Events of the layer itself *)

\* sdn_send_process gets SDN_EVENT_NEW_PACKET and finds a next hop, or none.
SendRuns ==
    /\ mem.posted > 0
    /\ mem' \in {Transmit(mem), DropHead(mem)}
    /\ UNCHANGED held

MacAnswers(res) ==
    /\ mem.air # NoPacket
    /\ mem' = SendDone(mem, res)
    /\ UNCHANGED held

TrickleRunsOut == mem.trickle /\ mem' = TrickleTimeCallback(mem) /\ UNCHANGED held

SlotRunsOut(i) == mem.slot[i].timer /\ mem' = SldF(mem, i) /\ UNCHANGED held

LayerNext ==
    \/ \E p \in Outgoing : Send(p)
    \/ ReportNeighbors
    \/ TakeBuffer
    \/ ReturnBuffer
    \/ \E flow \in Flows : FlowSetupArrives(flow)
    \/ \E addr \in Addrs : AddrSetupArrives(addr)
    \/ \E type \in {"NEIGHBOR_REPORT", "REGISTER"}, seq \in AckedSeqs : AckArrives(type, seq)
    \/ SendRuns
    \/ \E res \in Results : MacAnswers(res)
    \/ TrickleRunsOut
    \/ \E i \in Slots : SlotRunsOut(i)

LayerSpec == LayerInit /\ [][LayerNext]_vars

\* Contiki delivers posted events and expired timers, and the MAC calls back
\* after every transmission.  A MAC_TX_COLLISION does not count towards
\* SDN_MAX_RETRANSMIT: that it is not the answer for ever is an assumption.
Fairness ==
    /\ WF_vars(SendRuns)
    /\ WF_vars(TrickleRunsOut)
    /\ WF_vars(\E res \in Results : MacAnswers(res))
    /\ SF_vars(\E res \in Results \ {"COLLISION"} : MacAnswers(res))

FairSpec == LayerSpec /\ Fairness

-----------------------------------------------------------------------------

\* The shape of the layer's memory.
LayerTypeOK == SendTyped(mem) /\ held \in Nat

\* Every buffer of the pool is free, in the send queue or with the layers
\* above: no path through the handlers leaks one or returns it twice.
PoolShared == mem.free + Len(mem.queue) + held = PoolSize /\ Len(mem.queue) <= SendQueueSize

\* Exactly one event drives the queue while it holds a packet, and none while
\* it is empty: the posted event, the MAC's report or the trickle timer, as
\* sdn_send_status says.  Two would send the head twice, none would stall it.
OneDriver == DrivenOnce(mem)

\* sld_count counts only occupied slots, so the search for a vacant one misses
\* none below it, and every packet of the window has its timer running.
WindowKept == WindowOK(mem)

\* The counter is compared with "==", so it must never step over the limit.
RetriesBounded == mem.retx < MaxRetransmit

\* The queue keeps moving: whatever is at its head is sent or given up.
Progress ==
    []<>(mem.queue = <<>>) \/ []<><<Len(mem.queue') < Len(mem.queue)>>_vars

-----------------------------------------------------------------------------
(* What TODO_LIST:3-8 says of the retransmission of requests and reports,
   and the code does not do. *)

LiveRequests(m, flow) == {i \in RequestSlots(m, "DATA_REQUEST", flow) : m.slot[i].live}

\* "set flows serve as ack for flow requests": a setup that arrived now would end
\* the retransmission of a request for its flow, if there is one.
\* The code does not keep it: README, section 5.
SetupAcksRequest ==
    \A flow \in Flows : LiveRequests(mem, flow) # {} =>
        LiveRequests(RcvFlowReq(mem, flow), flow) # LiveRequests(mem, flow)

\* "retransmit packets at every predefined time interval": a packet leaves the
\* window when its timer ends only into the send queue.
\* The code does not keep it: README, section 5.
RetransmissionKept ==
    [][\A i \in Slots : SlotRunsOut(i) => mem'.slot[i].live \/ mem'.queue # mem.queue]_vars

\* "The packet types are ... neighbor report": while the next report is locked
\* out, the one that holds the lock is on its way or will be sent again.
\* The code does not keep it: README, section 5.
LockHasReport ==
    mem.locked =>
        \/ \E i \in Slots : mem.slot[i].live /\ mem.slot[i].pkt.type = "NEIGHBOR_REPORT"
        \/ \E j \in 1..Len(mem.queue) : mem.queue[j].type = "NEIGHBOR_REPORT"
=============================================================================
