------------------------------ MODULE SendOps ------------------------------
(***************************************************************************)
(* The sending layer of a node (contiki-sdn/sdn-send.c over sdn-queue.c,   *)
(* sdn-packetbuf.c and the macros of sdn-common-send.h) as functions from  *)
(* memory to memory.  Contiki runs a process event or a timer callback to  *)
(* its end, so a handler is a composition of these.                        *)
(*                                                                         *)
(* A memory s is a record with at least the fields                         *)
(*                                                                         *)
(*   addr       sdn_node_addr                                              *)
(*   free       buffers left in sdn_packetbuf_pool                         *)
(*   queue      sdn_send_queue, oldest packet first                        *)
(*   status     sdn_send_status                                            *)
(*   posted     SDN_EVENT_NEW_PACKET events posted to sdn_send_process     *)
(*   air        the packet handed to the MAC, until it calls back          *)
(*   trickle    trickle_timer is running                                   *)
(*   retx       count_retransmit                                           *)
(*   seqNo      sdn_seq_no                                                 *)
(*   locked     sdn_neighbor_locked                                        *)
(*   nbrs       the neighbor table is not empty                            *)
(*   slot       the retransmission window: sld_w, sld_l # 0, sld_ct        *)
(*   slotCount  sld_count                                                  *)
(*                                                                         *)
(* SDN_SEND_FULL_WINDOW is left out: sdn_send_done overwrites it with      *)
(* SDN_SEND_IDLE before it returns (its "else" is commented out).          *)
(***************************************************************************)
EXTENDS SdnPackets, FiniteSets

CONSTANTS SendQueueSize,    \* SDN_SEND_QUEUE_SIZE
          PoolSize,         \* SDN_PACKETBUF_POOL_SIZE
          MaxTxWindow,      \* SDN_MAX_TX_WINDOW
          MaxRetransmit     \* SDN_MAX_RETRANSMIT

ASSUME SendAssumption ==
    /\ SendQueueSize \in Nat \ {0} /\ PoolSize \in Nat \ {0}
    /\ MaxTxWindow \in Nat \ {0}   /\ MaxRetransmit \in Nat \ {0}

Slots == 0..(MaxTxWindow - 1)

Slot == [pkt : Packet, live : BOOLEAN, timer : BOOLEAN]

Statuses == {"IDLE", "BUSY", "ACK_WAIT", "TRICKLE_TIME"}

\* What the MAC reports, and the reports that count as a transmission.
Results == {"OK", "COLLISION", "NOACK", "ERR"}
Counted == {"NOACK", "ERR"}

Least(S) == CHOOSE i \in S : \A j \in S : i <= j

-----------------------------------------------------------------------------
(* Queueing *)

\* Fault: the status is not looked at.
SendDownAlways(s) ==
    IF s.queue # <<>> THEN [s EXCEPT !.status = "BUSY", !.posted = @ + 1] ELSE s

SendDownOnce(s) ==
    IF s.status = "IDLE" /\ s.queue # <<>>
    THEN [s EXCEPT !.status = "BUSY", !.posted = @ + 1]
    ELSE s

IsOwn(s, p) == p.src = s.addr

\* INCREMENT_SEQ_NO: only a packet of this node gets a new sequence number.
Stamped(s, p) == IF IsOwn(s, p) THEN [p EXCEPT !.seq = s.seqNo] ELSE p
Ticked(s, p)  == IF IsOwn(s, p) THEN [s EXCEPT !.seqNo = (@ + 1) % SeqMod] ELSE s

\* ALLOC_AND_ENQUEUE, and sdn_packetbuf_pool_get followed by ENQUEUE_AND_SEND:
\* without a buffer nothing happens; with a full queue the buffer goes back but
\* the sequence number is spent.
Submit(s, p) ==
    IF s.free = 0 THEN s
    ELSE IF Len(s.queue) = SendQueueSize THEN Ticked(s, p)
    ELSE SendDownOnce([Ticked(s, p) EXCEPT !.free = @ - 1,
                                           !.queue = Append(@, Stamped(s, p))])

\* sdn_send_neighbor_report: the lock is taken before the queue can refuse.
SendNeighborReport(s) ==
    IF s.locked \/ ~s.nbrs \/ s.free = 0 THEN s
    ELSE Submit([s EXCEPT !.locked = TRUE], MakeNeighborReport(s.addr))

-----------------------------------------------------------------------------
(* The retransmission window *)

\* sld_await_ack: the first slot from sld_count on that is not in use; past the
\* last one the packet is not kept and sld_count stays at the maximum.
Vacant(s) == {i \in Slots : i >= s.slotCount /\ ~s.slot[i].live}

\* Fault: the count goes past the last slot.
AwaitAckPast(s, p) ==
    IF p.type \notin Acknowledged \/ ~IsOwn(s, p) THEN s
    ELSE IF Vacant(s) = {} THEN [s EXCEPT !.slotCount = MaxTxWindow + 1]
    ELSE [s EXCEPT !.slot[Least(Vacant(s))] = [pkt |-> p, live |-> TRUE, timer |-> TRUE],
                   !.slotCount = Least(Vacant(s)) + 1]

AwaitAck(s, p) ==
    IF p.type \notin Acknowledged \/ ~IsOwn(s, p) THEN s
    ELSE IF Vacant(s) = {} THEN [s EXCEPT !.slotCount = MaxTxWindow]
    ELSE [s EXCEPT !.slot[Least(Vacant(s))] = [pkt |-> p, live |-> TRUE, timer |-> TRUE],
                   !.slotCount = Least(Vacant(s)) + 1]

\* Fault: sld_count is not moved down.
RemoveKeepingCount(s, i) == [s EXCEPT !.slot[i].live = FALSE, !.slot[i].timer = FALSE]

\* sld_remove_element: the packet stays in sld_w, where later searches see it.
RemoveElement(s, i) ==
    [s EXCEPT !.slot[i].live = FALSE, !.slot[i].timer = FALSE,
              !.slotCount = IF i < @ THEN i ELSE @]

RemoveFirstOf(s, S) == IF S = {} THEN s ELSE RemoveElement(s, Least(S))

RequestSlots(s, type, key) == {i \in Slots : s.slot[i].pkt.type = type /\ s.slot[i].pkt.key = key}

AckSlots(s, type, seq) == {i \in Slots : s.slot[i].pkt.type = type /\ s.slot[i].pkt.seq = seq}

\* sld_rcv_flow_req, sld_rcv_addr_req
RcvFlowReq(s, flow) == RemoveFirstOf(s, RequestSlots(s, "DATA_REQUEST", flow))
RcvAddrReq(s, addr) == RemoveFirstOf(s, RequestSlots(s, "CONTROL_REQUEST", addr))

\* sld_rcv_ack: the report's lock opens with the slot it matches.
RcvAck(s, type, seq) ==
    LET found == AckSlots(s, type, seq) IN
    RemoveFirstOf([s EXCEPT !.locked = @ /\ (type # "NEIGHBOR_REPORT" \/ found = {})], found)

\* sld_f: the slot's timer ends.  ALLOC_AND_ENQUEUE reports a buffer, not a
\* place in the queue, and it is the buffer that frees the slot.
SldF(s, i) ==
    LET p == s.slot[i].pkt IN
    IF s.free = 0 THEN s
    ELSE RemoveElement([Submit(s, p) EXCEPT !.slot[i].pkt = Stamped(s, p)], i)

-----------------------------------------------------------------------------
(* The send process and the MAC *)

\* sdn_send_process with a next hop: sdn_network_send
Transmit(s) == [s EXCEPT !.posted = @ - 1, !.status = "ACK_WAIT", !.air = Head(s.queue)]

\* The head leaves the queue and its buffer goes back to the pool.
Departed(s) == [s EXCEPT !.queue = Tail(@), !.free = @ + 1, !.status = "IDLE"]

\* Fault: the buffer is not put back.
DropHeadLeaking(s) == SendDownOnce([s EXCEPT !.posted = @ - 1, !.queue = Tail(@),
                                             !.status = "IDLE"])

\* sdn_send_process without one: count_retransmit keeps its value.
DropHead(s) == SendDownOnce(Departed([s EXCEPT !.posted = @ - 1]))

\* sdn_send_done, MAC_TX_OK
SentOK(s) == SendDownOnce([AwaitAck(Departed(s), Head(s.queue)) EXCEPT !.retx = 0])

\* sdn_send_done, any other status
Failures(s, res) == s.retx + (IF res \in Counted THEN 1 ELSE 0)

\* Fault: one attempt too many.
GivesUpLate(s, res) == Failures(s, res) > MaxRetransmit

GivesUp(s, res) == Failures(s, res) = MaxRetransmit

NotSent(s, res) ==
    IF GivesUp(s, res) THEN SendDownOnce([Departed(s) EXCEPT !.retx = 0])
    ELSE [s EXCEPT !.retx = Failures(s, res), !.status = "TRICKLE_TIME", !.trickle = TRUE]

\* A report for anything but the head of the queue is ignored.
SendDone(s, res) ==
    LET t == [s EXCEPT !.air = NoPacket] IN
    IF s.air # Head(s.queue) THEN t
    ELSE IF res = "OK" THEN SentOK(t) ELSE NotSent(t, res)

\* Fault: the callback does not post the event.
TrickleWithoutEvent(s) == [s EXCEPT !.trickle = FALSE, !.status = "IDLE"]

TrickleTimeCallback(s) == SendDownOnce([s EXCEPT !.trickle = FALSE, !.status = "IDLE"])

-----------------------------------------------------------------------------
(* What every handler keeps true of a memory. *)

SendFields == {"addr", "free", "queue", "status", "posted", "air", "trickle", "retx",
               "seqNo", "locked", "nbrs", "slot", "slotCount"}

\* The shape of a memory; it may have more fields.
SendTyped(s) ==
    /\ SendFields \subseteq DOMAIN s
    /\ s.addr \in Addrs            /\ s.free \in Nat
    /\ s.queue \in Seq(Packet)     /\ s.status \in Statuses
    /\ s.posted \in Nat            /\ s.air \in Packet
    /\ s.trickle \in BOOLEAN       /\ s.retx \in Nat
    /\ s.seqNo \in 0..(SeqMod - 1) /\ s.locked \in BOOLEAN
    /\ s.nbrs \in BOOLEAN          /\ s.slot \in [Slots -> Slot]
    /\ s.slotCount \in 0..MaxTxWindow

\* sdn_send_init over zeroed memory; SDN_SEND_IDLE is 0.
InitialSend(addr, nbrs) ==
    [addr |-> addr, free |-> PoolSize, queue |-> <<>>, status |-> "IDLE", posted |-> 0,
     air |-> NoPacket, trickle |-> FALSE, retx |-> 0, seqNo |-> 0, locked |-> FALSE,
     nbrs |-> nbrs, slotCount |-> 0,
     slot |-> [i \in Slots |-> [pkt |-> NoPacket, live |-> FALSE, timer |-> FALSE]]]

\* Exactly one event drives the queue while it holds a packet and none while it
\* is empty: the posted event, the MAC's report or the trickle timer.
DrivenOnce(s) ==
    /\ (s.status = "IDLE") <=> (s.queue = <<>>)
    /\ s.posted = IF s.status = "BUSY" THEN 1 ELSE 0
    /\ s.trickle <=> s.status = "TRICKLE_TIME"
    /\ s.air = IF s.status = "ACK_WAIT" THEN Head(s.queue) ELSE NoPacket

\* sld_count is at most the first vacant slot, and a packet of the window is one
\* whose timer runs.
WindowOK(s) ==
    /\ \A i \in Slots : i < s.slotCount => s.slot[i].live
    /\ \A i \in Slots : s.slot[i].live <=> s.slot[i].timer
=============================================================================
