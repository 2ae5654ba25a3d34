--------------------------- MODULE SdnNodeProofs ---------------------------
(***************************************************************************)
(* First what the functions of SendOps keep and change, for every memory:  *)
(* the lemmas speak of the fields, so that they hold of any memory that    *)
(* has them.  With them, that the sending layer keeps its invariants for   *)
(* every size of its queue, pool and window, every limit of                *)
(* retransmissions and every environment SdnSend allows; and then that the *)
(* whole node does, for every size of its queues, pool, tables, window and *)
(* array of kept packets, and whatever well-formed packets it hears in     *)
(* whatever order.                                                         *)
(***************************************************************************)
EXTENDS SdnNode, SdnSend, WellFoundedInduction, FiniteSetTheorems, SequenceTheorems, TLAPS

-----------------------------------------------------------------------------
(* The functions of the layer *)

\* What holds of a memory between two handlers, and inside a handler while it
\* has not touched the head of the queue.
Sound(s) ==
    /\ SendTyped(s) /\ DrivenOnce(s) /\ WindowOK(s)
    /\ s.retx < MaxRetransmit
    /\ Len(s.queue) <= SendQueueSize

\* What holds when a handler is done with the head and about to look for the next.
Resting(s) ==
    /\ SendTyped(s) /\ WindowOK(s)
    /\ s.retx < MaxRetransmit
    /\ Len(s.queue) <= SendQueueSize
    /\ s.status = "IDLE" /\ s.posted = 0 /\ ~s.trickle /\ s.air = NoPacket

\* The buffers the sending layer answers for.
Buffers(s) == s.free + Len(s.queue)

-----------------------------------------------------------------------------
(* Packets *)

\* Zeroed memory and the packets the layer makes have the shape of packets.
LEMMA NoPacketTyped == NoPacket \in Packet
  BY PacketsAssumption DEF NoPacket, Make, Packet

LEMMA NeighborReportTyped == ASSUME NEW a \in Addrs PROVE MakeNeighborReport(a) \in Packet
  BY PacketsAssumption DEF MakeNeighborReport, Make, Packet, Types, ByFlow

LEMMA StampedTyped ==
    ASSUME NEW s, SendTyped(s), NEW p \in Packet
    PROVE  Stamped(s, p) \in Packet
  BY PacketsAssumption DEF Stamped, SendTyped, Packet

-----------------------------------------------------------------------------
(* Queueing *)

\* sdn_send_down_once ends a handler in a sound state.
LEMMA WakeSound ==
    ASSUME NEW s, Resting(s)
    PROVE  Sound(SendDownOnce(s)) /\ Buffers(SendDownOnce(s)) = Buffers(s)
  <1>1. CASE s.queue = <<>>
    BY <1>1 DEF Resting, Sound, SendDownOnce, DrivenOnce, Buffers
  <1>2. CASE s.queue # <<>>
    <2> DEFINE t == SendDownOnce(s)
    <2>1. t = [s EXCEPT !.status = "BUSY", !.posted = @ + 1]
      BY <1>2 DEF Resting, SendDownOnce
    <2>2. SendTyped(t) /\ WindowOK(t) /\ Buffers(t) = Buffers(s)
      BY <2>1 DEF Resting, SendTyped, SendFields, WindowOK, Statuses, Buffers
    <2>3. DrivenOnce(t)
      BY <2>1, <1>2 DEF Resting, SendTyped, SendFields, DrivenOnce
    <2>4. t.retx = s.retx /\ t.queue = s.queue
      BY <2>1 DEF Resting, SendTyped, SendFields
    <2> QED BY <2>2, <2>3, <2>4 DEF Resting, Sound
  <1> QED BY <1>1, <1>2

\* Spending a sequence number changes nothing else.
LEMMA TickedSound ==
    ASSUME NEW s, Sound(s), NEW p
    PROVE  /\ Sound(Ticked(s, p))
           /\ Ticked(s, p).queue = s.queue /\ Ticked(s, p).free = s.free
           /\ Ticked(s, p).status = s.status
  <1> DEFINE t == Ticked(s, p)
  <1>1. SendTyped(t)
    BY PacketsAssumption DEF Sound, Ticked, SendTyped, SendFields
  <1>2. /\ t.queue = s.queue /\ t.free = s.free /\ t.status = s.status
        /\ t.posted = s.posted /\ t.trickle = s.trickle /\ t.air = s.air
        /\ t.retx = s.retx /\ t.slot = s.slot /\ t.slotCount = s.slotCount
    BY DEF Sound, Ticked, SendTyped, SendFields
  <1> QED BY <1>1, <1>2 DEF Sound, DrivenOnce, WindowOK

\* ALLOC_AND_ENQUEUE keeps the state sound and moves one buffer at most, from
\* the pool to the queue.
LEMMA SubmitSound ==
    ASSUME NEW s, Sound(s), NEW p \in Packet
    PROVE  Sound(Submit(s, p)) /\ Buffers(Submit(s, p)) = Buffers(s)
  <1>1. CASE s.free = 0
    BY <1>1 DEF Submit
  <1>2. CASE s.free # 0 /\ Len(s.queue) = SendQueueSize
    BY <1>2, TickedSound DEF Submit, Buffers
  <1>3. CASE s.free # 0 /\ Len(s.queue) # SendQueueSize
    <2> DEFINE k == Ticked(s, p)
               q == Stamped(s, p)
               t == [k EXCEPT !.free = @ - 1, !.queue = Append(@, q)]
    <2>1. Submit(s, p) = SendDownOnce(t)
      BY <1>3 DEF Submit
    <2>2. Sound(k) /\ k.queue = s.queue /\ k.free = s.free /\ k.status = s.status
      BY TickedSound
    <2>3. q \in Packet
      BY StampedTyped DEF Sound
    <2>4. s.free \in Nat \ {0} /\ s.queue \in Seq(Packet) /\ Len(s.queue) < SendQueueSize
      BY <1>3, SendAssumption DEF Sound, SendTyped
    <2>5. /\ t.free = s.free - 1 /\ t.queue = Append(s.queue, q)
          /\ t.status = k.status /\ t.posted = k.posted /\ t.trickle = k.trickle
          /\ t.air = k.air /\ t.retx = k.retx /\ t.slot = k.slot /\ t.slotCount = k.slotCount
      BY <2>2 DEF Sound, SendTyped, SendFields
    <2>6. SendTyped(t)
      BY <2>2, <2>3, <2>4 DEF Sound, SendTyped, SendFields
    <2>7. Buffers(t) = Buffers(s) /\ Len(t.queue) <= SendQueueSize
      <3>1. Len(t.queue) = Len(s.queue) + 1
        BY <2>3, <2>4, <2>5
      <3>2. t.free = s.free - 1 /\ s.free \in Nat \ {0} /\ Len(s.queue) \in Nat
        BY <2>4, <2>5
      <3> HIDE DEF t
      <3> QED BY <3>1, <3>2, <2>4, SendAssumption DEF Buffers
    <2>8. WindowOK(t) /\ t.retx < MaxRetransmit
      BY <2>2, <2>5 DEF Sound, WindowOK
    <2>9. CASE k.status = "IDLE"
      <3>1. Resting(t)
        BY <2>2, <2>5, <2>6, <2>7, <2>8, <2>9 DEF Resting, Sound, DrivenOnce, SendTyped
      <3> QED BY <3>1, <2>1, <2>7, WakeSound
    <2>10. CASE k.status # "IDLE"
      <3>1. SendDownOnce(t) = t
        BY <2>5, <2>10 DEF SendDownOnce
      <3>2. s.queue # <<>>
        BY <2>2, <2>10 DEF Sound, DrivenOnce
      <3>3. Head(Append(s.queue, q)) = Head(s.queue) /\ Append(s.queue, q) # <<>>
        BY <3>2, <2>3, <2>4
      <3>4. DrivenOnce(t)
        BY <2>2, <2>5, <2>10, <3>2, <3>3 DEF Sound, DrivenOnce
      <3> QED BY <2>1, <2>6, <2>7, <2>8, <3>1, <3>4 DEF Sound
    <2> QED BY <2>9, <2>10
  <1> QED BY <1>1, <1>2, <1>3

\* sdn_send_neighbor_report only adds the lock to that.
LEMMA SendNeighborReportSound ==
    ASSUME NEW s, Sound(s)
    PROVE  Sound(SendNeighborReport(s)) /\ Buffers(SendNeighborReport(s)) = Buffers(s)
  <1>1. CASE s.locked \/ ~s.nbrs \/ s.free = 0
    BY <1>1 DEF SendNeighborReport
  <1>2. CASE ~(s.locked \/ ~s.nbrs \/ s.free = 0)
    <2> DEFINE t == [s EXCEPT !.locked = TRUE]
    <2>1. SendNeighborReport(s) = Submit(t, MakeNeighborReport(s.addr))
      BY <1>2 DEF SendNeighborReport
    <2>2. MakeNeighborReport(s.addr) \in Packet
      BY NeighborReportTyped DEF Sound, SendTyped
    <2>3. Sound(t) /\ Buffers(t) = Buffers(s)
      BY DEF Sound, SendTyped, SendFields, DrivenOnce, WindowOK, Buffers
    <2> QED BY <2>1, <2>2, <2>3, SubmitSound
  <1> QED BY <1>1, <1>2

-----------------------------------------------------------------------------
(* The retransmission window *)

\* The part of the memory the window's functions leave alone.
SameOutsideWindow(s, t) ==
    /\ t.free = s.free /\ t.queue = s.queue /\ t.status = s.status
    /\ t.posted = s.posted /\ t.air = s.air /\ t.trickle = s.trickle /\ t.retx = s.retx

\* Every nonempty set of naturals has the least element the searches return.
LEMMA LeastOf ==
    ASSUME NEW S \in SUBSET Nat, S # {}
    PROVE  Least(S) \in S /\ \A j \in S : Least(S) <= j
  <1> DEFINE R == {ss \in Nat \X Nat : ss[1] < ss[2]}
  <1>1. IsWellFoundedOn(R, Nat)
    BY NatLessThanWellFounded DEF OpToRel
  <1> HIDE DEF R
  <1>2. PICK i \in S : \A j \in S : ~(<<j, i>> \in R)
    BY <1>1, WFMin, Zenon
  <1>3. \A j \in S : j < i => <<j, i>> \in R
    BY DEF R
  <1>4. \A j \in S : ~(j < i)
    BY <1>2, <1>3, Zenon
  <1>5. \A j \in S : i <= j
    BY <1>4
  <1> QED BY <1>5 DEF Least

\* sld_await_ack takes the first slot that is free, so the slots below the new
\* sld_count are all in use.
LEMMA AwaitAckWindow ==
    ASSUME NEW s, SendTyped(s), WindowOK(s), NEW p \in Packet
    PROVE  /\ SendTyped(AwaitAck(s, p)) /\ WindowOK(AwaitAck(s, p))
           /\ SameOutsideWindow(s, AwaitAck(s, p))
  <1> DEFINE t == AwaitAck(s, p)
  <1>1. CASE p.type \notin Acknowledged \/ ~IsOwn(s, p)
    BY <1>1 DEF AwaitAck, SameOutsideWindow
  <1>2. CASE ~(p.type \notin Acknowledged \/ ~IsOwn(s, p)) /\ Vacant(s) = {}
    <2>1. t = [s EXCEPT !.slotCount = MaxTxWindow]
      BY <1>2 DEF AwaitAck
    <2>2. \A i \in Slots : s.slot[i].live
      BY <1>2 DEF Vacant, WindowOK, SendTyped, Slots
    <2> QED BY <2>1, <2>2, SendAssumption
            DEF SendTyped, SendFields, WindowOK, SameOutsideWindow
  <1>3. CASE ~(p.type \notin Acknowledged \/ ~IsOwn(s, p)) /\ Vacant(s) # {}
    <2> DEFINE c == Least(Vacant(s))
               e == [pkt |-> p, live |-> TRUE, timer |-> TRUE]
    <2>1. t = [s EXCEPT !.slot[c] = e, !.slotCount = c + 1]
      BY <1>3 DEF AwaitAck
    <2>2. c \in Vacant(s) /\ \A j \in Vacant(s) : c <= j
      BY <1>3, LeastOf, SendAssumption DEF Vacant, Slots
    <2>3. c \in Slots /\ c + 1 \in 0..MaxTxWindow
      BY <2>2, SendAssumption DEF Vacant, Slots
    <2> HIDE DEF c
    <2>4. ASSUME NEW i \in Slots, i < c PROVE s.slot[i].live
      <3>1. i \notin Vacant(s) /\ i \in Int /\ s.slotCount \in Int
        BY <2>2, <2>3, <2>4, SendAssumption DEF Slots, SendTyped
      <3>2. CASE i < s.slotCount
        BY <3>2 DEF WindowOK
      <3>3. CASE ~(i < s.slotCount)
        BY <3>1, <3>3 DEF Vacant
      <3> QED BY <3>2, <3>3
    <2>5. e \in Slot
      BY DEF Slot
    <2>6. t.slot = [s.slot EXCEPT ![c] = e] /\ t.slotCount = c + 1
      BY <2>1 DEF SendTyped, SendFields
    <2>7. SendTyped(t) /\ SameOutsideWindow(s, t)
      BY <2>1, <2>3, <2>5 DEF SendTyped, SendFields, SameOutsideWindow
    <2> HIDE DEF t
    <2>8. ASSUME NEW i \in Slots
          PROVE  (i < c + 1 => t.slot[i].live) /\ (t.slot[i].live <=> t.slot[i].timer)
      <3>1. CASE i = c
        BY <3>1, <2>6 DEF SendTyped
      <3>2. CASE i # c
        <4>1. t.slot[i] = s.slot[i]
          BY <3>2, <2>6 DEF SendTyped
        <4>2. i < c + 1 => i < c
          BY <3>2, <2>3, SendAssumption DEF Slots
        <4> QED BY <4>1, <4>2, <2>4 DEF WindowOK
      <3> QED BY <3>1, <3>2
    <2>9. WindowOK(t)
      BY <2>6, <2>8 DEF WindowOK
    <2> QED BY <2>7, <2>9 DEF t
  <1> QED BY <1>1, <1>2, <1>3

\* sld_remove_element keeps sld_count at or below the slot it empties.
LEMMA RemoveElementWindow ==
    ASSUME NEW s, SendTyped(s), WindowOK(s), NEW i \in Slots
    PROVE  /\ SendTyped(RemoveElement(s, i)) /\ WindowOK(RemoveElement(s, i))
           /\ SameOutsideWindow(s, RemoveElement(s, i))
  <1> DEFINE t == RemoveElement(s, i)
             e == [s.slot[i] EXCEPT !.live = FALSE, !.timer = FALSE]
  <1>1. t.slot = [s.slot EXCEPT ![i] = e]
    BY DEF RemoveElement, SendTyped, SendFields
  <1>2. t.slotCount = IF i < s.slotCount THEN i ELSE s.slotCount
    BY DEF RemoveElement, SendTyped, SendFields
  <1>3. e \in Slot /\ ~e.live /\ ~e.timer
    BY DEF SendTyped, Slot
  <1>4. SameOutsideWindow(s, t)
    BY DEF RemoveElement, SendTyped, SendFields, SameOutsideWindow
  <1>5. /\ DOMAIN t = DOMAIN s     /\ t.addr = s.addr /\ t.seqNo = s.seqNo
        /\ t.locked = s.locked     /\ t.nbrs = s.nbrs
    BY DEF RemoveElement, SendTyped, SendFields
  <1>6. t.slotCount \in 0..MaxTxWindow /\ t.slotCount <= s.slotCount /\ t.slotCount <= i
    BY <1>2, SendAssumption DEF SendTyped, Slots
  <1> HIDE DEF t, e
  <1>7. t.slot \in [Slots -> Slot]
    BY <1>1, <1>3 DEF SendTyped
  <1>8. SendTyped(t)
    BY <1>4, <1>5, <1>6, <1>7 DEF SendTyped, SameOutsideWindow
  <1>9. ASSUME NEW j \in Slots
        PROVE  (j < t.slotCount => t.slot[j].live) /\ (t.slot[j].live <=> t.slot[j].timer)
    <2>1. CASE j = i
      <3>1. t.slot[j] = e
        BY <2>1, <1>1 DEF SendTyped
      <3>2. ~(j < t.slotCount)
        BY <2>1, <1>6, SendAssumption DEF Slots
      <3> QED BY <3>1, <3>2, <1>3
    <2>2. CASE j # i
      <3>1. t.slot[j] = s.slot[j]
        BY <2>2, <1>1 DEF SendTyped
      <3>2. j < t.slotCount => j < s.slotCount
        BY <1>6, SendAssumption DEF Slots, SendTyped
      <3> QED BY <3>1, <3>2 DEF WindowOK
    <2> QED BY <2>1, <2>2
  <1>10. WindowOK(t)
    BY <1>9 DEF WindowOK
  <1> QED BY <1>4, <1>8, <1>10 DEF t

\* Outside the window a sound state stays sound.
LEMMA WindowChangeSound ==
    ASSUME NEW s, Sound(s), NEW t, SendTyped(t), WindowOK(t), SameOutsideWindow(s, t)
    PROVE  Sound(t) /\ Buffers(t) = Buffers(s)
  BY DEF Sound, DrivenOnce, SameOutsideWindow, Buffers

LEMMA RemoveFirstOfSound ==
    ASSUME NEW s, Sound(s), NEW S \in SUBSET Slots
    PROVE  Sound(RemoveFirstOf(s, S)) /\ Buffers(RemoveFirstOf(s, S)) = Buffers(s)
  <1>1. CASE S = {}
    BY <1>1 DEF RemoveFirstOf
  <1>2. CASE S # {}
    <2>1. S \in SUBSET Nat
      BY SendAssumption DEF Slots
    <2>3. Least(S) \in Slots
      BY <1>2, <2>1, LeastOf
    <2>2. RemoveFirstOf(s, S) = RemoveElement(s, Least(S))
      BY <1>2 DEF RemoveFirstOf
    <2> QED BY <2>3, <2>2, RemoveElementWindow, WindowChangeSound DEF Sound
  <1> QED BY <1>1, <1>2

\* sld_rcv_flow_req, sld_rcv_addr_req
LEMMA RcvRequestSound ==
    ASSUME NEW s, Sound(s), NEW k
    PROVE  /\ Sound(RcvFlowReq(s, k)) /\ Buffers(RcvFlowReq(s, k)) = Buffers(s)
           /\ Sound(RcvAddrReq(s, k)) /\ Buffers(RcvAddrReq(s, k)) = Buffers(s)
  BY RemoveFirstOfSound DEF RcvFlowReq, RcvAddrReq, RequestSlots

\* sld_rcv_ack
LEMMA RcvAckSound ==
    ASSUME NEW s, Sound(s), NEW type, NEW seq
    PROVE  Sound(RcvAck(s, type, seq)) /\ Buffers(RcvAck(s, type, seq)) = Buffers(s)
  <1> DEFINE S == AckSlots(s, type, seq)
             l == s.locked /\ (type # "NEIGHBOR_REPORT" \/ S = {})
             t == [s EXCEPT !.locked = l]
  <1>1. RcvAck(s, type, seq) = RemoveFirstOf(t, S)
    BY DEF RcvAck
  <1>2. S \in SUBSET Slots
    BY DEF AckSlots
  <1>3. l \in BOOLEAN
    OBVIOUS
  <1> HIDE DEF l
  <1>4. Sound(t) /\ Buffers(t) = Buffers(s)
    BY <1>3 DEF Sound, SendTyped, SendFields, DrivenOnce, WindowOK, Buffers
  <1> QED BY <1>1, <1>2, <1>4, RemoveFirstOfSound

\* sld_f moves the packet to the queue before it empties the slot.
LEMMA SldFSound ==
    ASSUME NEW s, Sound(s), NEW i \in Slots
    PROVE  Sound(SldF(s, i)) /\ Buffers(SldF(s, i)) = Buffers(s)
  <1>1. CASE s.free = 0
    BY <1>1 DEF SldF
  <1>2. CASE s.free # 0
    <2> DEFINE p == s.slot[i].pkt
               q == Stamped(s, p)
               u == Submit(s, p)
               v == [u EXCEPT !.slot[i].pkt = q]
    <2>1. SldF(s, i) = RemoveElement(v, i)
      BY <1>2 DEF SldF
    <2>2. p \in Packet
      BY DEF Sound, SendTyped, Slot
    <2>3. q \in Packet
      BY <2>2, StampedTyped DEF Sound
    <2>4. Sound(u) /\ Buffers(u) = Buffers(s)
      BY <2>2, SubmitSound
    <2> HIDE DEF p, q, u
    <2>5. SameOutsideWindow(u, v) /\ v.slotCount = u.slotCount
      BY <2>4 DEF Sound, SendTyped, SendFields, SameOutsideWindow
    <2>6. v.slot = [u.slot EXCEPT ![i].pkt = q]
      BY <2>4 DEF Sound, SendTyped, SendFields
    <2>7. SendTyped(v)
      BY <2>3, <2>4 DEF Sound, SendTyped, SendFields, Slot
    <2> HIDE DEF v
    <2>8. \A j \in Slots : v.slot[j].live = u.slot[j].live /\ v.slot[j].timer = u.slot[j].timer
      BY <2>4, <2>6 DEF Sound, SendTyped, Slot
    <2>9. WindowOK(v)
      BY <2>4, <2>5, <2>8 DEF Sound, WindowOK
    <2>10. Sound(v) /\ Buffers(v) = Buffers(s)
      BY <2>4, <2>5, <2>7, <2>9, WindowChangeSound
    <2> QED BY <2>1, <2>10, RemoveElementWindow, WindowChangeSound DEF Sound
  <1> QED BY <1>1, <1>2

-----------------------------------------------------------------------------
(* The send process and the MAC *)

\* The head may leave the queue once nothing else waits to act on it.
LEMMA DepartedResting ==
    ASSUME NEW s, SendTyped(s), WindowOK(s), s.retx < MaxRetransmit,
           Len(s.queue) <= SendQueueSize, s.queue # <<>>,
           s.posted = 0, ~s.trickle, s.air = NoPacket
    PROVE  Resting(Departed(s)) /\ Buffers(Departed(s)) = Buffers(s)
  <1> DEFINE t == Departed(s)
  <1>1. s.queue \in Seq(Packet) /\ s.free \in Nat
    BY DEF SendTyped
  <1>2. Tail(s.queue) \in Seq(Packet) /\ Len(Tail(s.queue)) = Len(s.queue) - 1
        /\ Len(s.queue) \in Nat
    BY <1>1
  <1>3. /\ t.queue = Tail(s.queue) /\ t.free = s.free + 1 /\ t.status = "IDLE"
        /\ t.posted = s.posted /\ t.trickle = s.trickle /\ t.air = s.air
        /\ t.retx = s.retx /\ t.slot = s.slot /\ t.slotCount = s.slotCount
    BY DEF Departed, SendTyped, SendFields
  <1>4. SendTyped(t)
    BY <1>1, <1>2 DEF Departed, SendTyped, SendFields, Statuses
  <1> HIDE DEF t
  <1>5. Len(t.queue) = Len(s.queue) - 1
    BY <1>2, <1>3
  <1>6. t.free + Len(t.queue) = s.free + Len(s.queue)
    BY <1>1, <1>2, <1>3, <1>5
  <1>7. Len(t.queue) <= SendQueueSize
    BY <1>2, <1>5, SendAssumption
  <1>8. WindowOK(t)
    BY <1>3 DEF WindowOK
  <1> QED BY <1>3, <1>4, <1>6, <1>7, <1>8 DEF Resting, Buffers, t

\* A posted event finds the queue's head waiting and nothing in the air.
LEMMA PostedBusy ==
    ASSUME NEW s, Sound(s), s.posted > 0
    PROVE  s.posted = 1 /\ s.status = "BUSY" /\ s.queue # <<>> /\ s.air = NoPacket /\ ~s.trickle
  BY DEF Sound, DrivenOnce

\* sdn_send_process hands the head to the MAC.
LEMMA TransmitSound ==
    ASSUME NEW s, Sound(s), s.posted > 0
    PROVE  Sound(Transmit(s)) /\ Buffers(Transmit(s)) = Buffers(s)
  <1> DEFINE t == Transmit(s)
  <1>1. s.posted = 1 /\ s.queue # <<>> /\ ~s.trickle
    BY PostedBusy
  <1>2. Head(s.queue) \in Packet
    BY <1>1 DEF Sound, SendTyped
  <1>3. SendTyped(t)
    BY <1>1, <1>2 DEF Transmit, Sound, SendTyped, SendFields, Statuses
  <1>4. /\ t.queue = s.queue /\ t.free = s.free /\ t.status = "ACK_WAIT" /\ t.posted = 0
        /\ t.trickle = s.trickle /\ t.air = Head(s.queue) /\ t.retx = s.retx
        /\ t.slot = s.slot /\ t.slotCount = s.slotCount
    BY <1>1 DEF Transmit, Sound, SendTyped, SendFields
  <1> QED BY <1>1, <1>3, <1>4 DEF Sound, DrivenOnce, WindowOK, Buffers

\* sdn_send_process drops a head without next hop.
LEMMA DropHeadSound ==
    ASSUME NEW s, Sound(s), s.posted > 0
    PROVE  Sound(DropHead(s)) /\ Buffers(DropHead(s)) = Buffers(s)
  <1> DEFINE t == [s EXCEPT !.posted = @ - 1]
  <1>1. s.posted = 1 /\ s.queue # <<>> /\ ~s.trickle /\ s.air = NoPacket
    BY PostedBusy
  <1>2. /\ SendTyped(t) /\ t.posted = 0 /\ t.queue = s.queue /\ ~t.trickle
        /\ t.air = NoPacket /\ t.retx = s.retx /\ WindowOK(t) /\ Buffers(t) = Buffers(s)
    BY <1>1 DEF Sound, SendTyped, SendFields, WindowOK, Buffers
  <1>3. DropHead(s) = SendDownOnce(Departed(t))
    BY DEF DropHead
  <1> HIDE DEF t
  <1>4. Resting(Departed(t)) /\ Buffers(Departed(t)) = Buffers(s)
    BY <1>1, <1>2, DepartedResting DEF Sound
  <1> QED BY <1>3, <1>4, WakeSound

\* What sdn_send_done starts from: the head is no longer in the air.
Landed(s) ==
    /\ SendTyped(s) /\ WindowOK(s) /\ s.retx < MaxRetransmit
    /\ Len(s.queue) <= SendQueueSize /\ s.queue # <<>>
    /\ s.posted = 0 /\ ~s.trickle /\ s.air = NoPacket

\* sdn_send_done, MAC_TX_OK
LEMMA SentOKSound ==
    ASSUME NEW s, Landed(s)
    PROVE  Sound(SentOK(s)) /\ Buffers(SentOK(s)) = Buffers(s)
  <1> DEFINE d == Departed(s)
             w == AwaitAck(d, Head(s.queue))
             t == [w EXCEPT !.retx = 0]
  <1>1. Resting(d) /\ Buffers(d) = Buffers(s)
    BY DepartedResting DEF Landed
  <1>2. Head(s.queue) \in Packet
    BY DEF Landed, SendTyped
  <1>3. SentOK(s) = SendDownOnce(t)
    BY DEF SentOK
  <1> HIDE DEF d
  <1>4. SendTyped(w) /\ WindowOK(w) /\ SameOutsideWindow(d, w)
    BY <1>1, <1>2, AwaitAckWindow DEF Resting
  <1> HIDE DEF w
  <1>5. /\ SendTyped(t) /\ t.retx = 0 /\ t.queue = w.queue /\ t.free = w.free
        /\ t.status = w.status /\ t.posted = w.posted /\ t.trickle = w.trickle
        /\ t.air = w.air /\ t.slot = w.slot /\ t.slotCount = w.slotCount
    BY <1>4 DEF SendTyped, SendFields
  <1> HIDE DEF t
  <1>6. Resting(t) /\ Buffers(t) = Buffers(s)
    BY <1>1, <1>4, <1>5, SendAssumption DEF Resting, SameOutsideWindow, WindowOK, Buffers
  <1> QED BY <1>3, <1>6, WakeSound

\* sdn_send_done, any other status: count_retransmit meets its limit exactly.
LEMMA NotSentSound ==
    ASSUME NEW s, Landed(s), NEW res
    PROVE  Sound(NotSent(s, res)) /\ Buffers(NotSent(s, res)) = Buffers(s)
  <1>1. Failures(s, res) \in Nat /\ Failures(s, res) <= MaxRetransmit
    BY SendAssumption DEF Failures, Landed, SendTyped
  <1>2. CASE GivesUp(s, res)
    <2> DEFINE d == Departed(s)
               t == [d EXCEPT !.retx = 0]
    <2>1. NotSent(s, res) = SendDownOnce(t)
      BY <1>2 DEF NotSent
    <2>2. Resting(d) /\ Buffers(d) = Buffers(s)
      BY DepartedResting DEF Landed
    <2> HIDE DEF d
    <2>3. Resting(t) /\ Buffers(t) = Buffers(s)
      BY <2>2, SendAssumption DEF Resting, SendTyped, SendFields, WindowOK, Buffers
    <2> QED BY <2>1, <2>3, WakeSound
  <1>3. CASE ~GivesUp(s, res)
    <2> DEFINE t == NotSent(s, res)
    <2>1. t = [s EXCEPT !.retx = Failures(s, res), !.status = "TRICKLE_TIME", !.trickle = TRUE]
      BY <1>3 DEF NotSent
    <2>2. Failures(s, res) < MaxRetransmit
      BY <1>1, <1>3, SendAssumption DEF GivesUp
    <2>3. SendTyped(t)
      BY <2>1, <1>1 DEF Landed, SendTyped, SendFields, Statuses
    <2>4. /\ t.queue = s.queue /\ t.free = s.free /\ t.status = "TRICKLE_TIME"
          /\ t.posted = 0 /\ t.trickle = TRUE /\ t.air = NoPacket
          /\ t.retx = Failures(s, res) /\ t.slot = s.slot /\ t.slotCount = s.slotCount
      BY <2>1 DEF Landed, SendTyped, SendFields
    <2> HIDE DEF t
    <2>5. Sound(t) /\ Buffers(t) = Buffers(s)
      BY <2>2, <2>3, <2>4 DEF Landed, Sound, DrivenOnce, WindowOK, Buffers
    <2> QED BY <2>5 DEF t
  <1> QED BY <1>2, <1>3

\* sdn_send_done
LEMMA SendDoneSound ==
    ASSUME NEW s, Sound(s), s.air # NoPacket, NEW res
    PROVE  Sound(SendDone(s, res)) /\ Buffers(SendDone(s, res)) = Buffers(s)
  <1> DEFINE t == [s EXCEPT !.air = NoPacket]
  <1>1. s.status = "ACK_WAIT" /\ s.air = Head(s.queue)
    BY DEF Sound, DrivenOnce
  <1>2. Landed(t) /\ Buffers(t) = Buffers(s)
    BY <1>1, NoPacketTyped DEF Sound, Landed, DrivenOnce, SendTyped, SendFields, WindowOK, Buffers
  <1>3. SendDone(s, res) = IF res = "OK" THEN SentOK(t) ELSE NotSent(t, res)
    BY <1>1 DEF SendDone
  <1> HIDE DEF t
  <1> QED BY <1>2, <1>3, SentOKSound, NotSentSound

\* trickle_time_callback posts the event for the head that is still there.
LEMMA TrickleSound ==
    ASSUME NEW s, Sound(s), s.trickle
    PROVE  Sound(TrickleTimeCallback(s)) /\ Buffers(TrickleTimeCallback(s)) = Buffers(s)
  <1> DEFINE t == [s EXCEPT !.trickle = FALSE, !.status = "IDLE"]
  <1>1. Resting(t) /\ Buffers(t) = Buffers(s)
    BY DEF Sound, Resting, DrivenOnce, SendTyped, SendFields, Statuses, WindowOK, Buffers
  <1> HIDE DEF t
  <1>2. TrickleTimeCallback(s) = SendDownOnce(t)
    BY DEF TrickleTimeCallback, t
  <1> QED BY <1>1, <1>2, WakeSound

-----------------------------------------------------------------------------
(* The beginning *)

\* sdn_send_init leaves an empty queue and an idle layer.
LEMMA InitialSendSound ==
    ASSUME NEW addr \in Addrs, NEW nbrs \in BOOLEAN
    PROVE  Sound(InitialSend(addr, nbrs)) /\ Buffers(InitialSend(addr, nbrs)) = PoolSize
  <1> DEFINE s == InitialSend(addr, nbrs)
  <1>1. /\ s.addr = addr /\ s.free = PoolSize /\ s.queue = <<>> /\ s.status = "IDLE"
        /\ s.posted = 0 /\ s.air = NoPacket /\ s.trickle = FALSE /\ s.retx = 0
        /\ s.seqNo = 0 /\ s.locked = FALSE /\ s.nbrs = nbrs /\ s.slotCount = 0
        /\ s.slot = [i \in Slots |-> [pkt |-> NoPacket, live |-> FALSE, timer |-> FALSE]]
        /\ DOMAIN s = SendFields
    BY DEF InitialSend, SendFields
  <1> HIDE DEF s
  <1>2. SendTyped(s)
    <2>1. [pkt |-> NoPacket, live |-> FALSE, timer |-> FALSE] \in Slot
      BY NoPacketTyped DEF Slot
    <2>2. s.slot \in [Slots -> Slot]
      BY <1>1, <2>1
    <2>3. s.queue \in Seq(Packet) /\ s.air \in Packet
      BY <1>1, NoPacketTyped
    <2>4. s.free \in Nat /\ s.seqNo \in 0..(SeqMod - 1) /\ s.slotCount \in 0..MaxTxWindow
      BY <1>1, PacketsAssumption, SendAssumption
    <2>5. s.status \in Statuses /\ s.posted \in Nat /\ s.retx \in Nat
      BY <1>1 DEF Statuses
    <2>6. s.trickle \in BOOLEAN /\ s.locked \in BOOLEAN /\ s.nbrs \in BOOLEAN
      BY <1>1, Zenon
    <2>7. s.addr \in Addrs /\ SendFields \subseteq DOMAIN s
      BY <1>1, Zenon
    <2> QED BY <2>2, <2>3, <2>4, <2>5, <2>6, <2>7, Zenon DEF SendTyped
  <1>3. DrivenOnce(s) /\ WindowOK(s)
    BY <1>1 DEF DrivenOnce, WindowOK, Slots
  <1>4. s.retx < MaxRetransmit /\ Len(s.queue) = 0
    BY <1>1, SendAssumption
  <1>5. Buffers(s) = PoolSize
    BY <1>1, <1>4, SendAssumption DEF Buffers
  <1> QED BY <1>2, <1>3, <1>4, <1>5, SendAssumption DEF Sound, s

-----------------------------------------------------------------------------
(* What the layers above see of the layer *)

\* The packets that wait, in the queue or for an answer, are packets.
Genuine(s) ==
    /\ \A n \in 1..Len(s.queue) : s.queue[n] \in WellFormed
    /\ \A i \in Slots : s.slot[i].live => s.slot[i].pkt \in WellFormed

\* The layer touches no field of the layers above.
SameAbove(s, t) ==
    /\ DOMAIN t = DOMAIN s /\ t.addr = s.addr
    /\ \A f \in DOMAIN s \ SendFields : t[f] = s[f]

\* What is queued stays at its place, and an event under way stays under way.
Lengthens(s, t) ==
    /\ Len(s.queue) <= Len(t.queue)
    /\ \A n \in 1..Len(s.queue) : t.queue[n] = s.queue[n]
    /\ s.status # "IDLE" => t.status = s.status

\* A new sequence number makes no difference to the layout.
LEMMA StampedWellFormed ==
    ASSUME NEW s, SendTyped(s), NEW p \in WellFormed
    PROVE  Stamped(s, p) \in WellFormed
  <1>1. p \in Packet /\ Stamped(s, p) \in Packet
    BY StampedTyped DEF WellFormed
  <1>2. \A f \in {"type", "to", "real", "key", "hop", "act"} : Stamped(s, p)[f] = p[f]
    BY <1>1 DEF Stamped, Packet
  <1>3. /\ Stamped(s, p).type = p.type /\ Stamped(s, p).to = p.to
        /\ Stamped(s, p).real = p.real /\ Stamped(s, p).key = p.key
        /\ Stamped(s, p).hop = p.hop /\ Stamped(s, p).act = p.act
    BY <1>2
  <1> QED BY <1>1, <1>3 DEF WellFormed

\* sdn_send_down_once concerns the status only.
LEMMA WakeLeaves ==
    ASSUME NEW s, SendTyped(s)
    PROVE  LET t == SendDownOnce(s) IN
           /\ SameAbove(s, t) /\ t.queue = s.queue /\ t.slot = s.slot
           /\ s.status # "IDLE" => t.status = s.status
  BY DEF SendDownOnce, SendTyped, SendFields, SameAbove

\* ALLOC_AND_ENQUEUE puts the packet behind the others.
LEMMA SubmitAdds ==
    ASSUME NEW s, Sound(s), Genuine(s), NEW p \in WellFormed
    PROVE  LET t == Submit(s, p) IN
           SameAbove(s, t) /\ Lengthens(s, t) /\ Genuine(t) /\ t.slot = s.slot
  <1> DEFINE k == Ticked(s, p)
             q == Stamped(s, p)
             u == [k EXCEPT !.free = @ - 1, !.queue = Append(@, q)]
             t == Submit(s, p)
  <1>1. SendTyped(s) /\ s.queue \in Seq(Packet) /\ p \in Packet
    BY DEF Sound, SendTyped, WellFormed
  <1>2. SameAbove(s, k) /\ k.queue = s.queue /\ k.slot = s.slot /\ k.status = s.status
    BY <1>1 DEF Ticked, SendTyped, SendFields, SameAbove
  <1>3. CASE s.free = 0
    BY <1>1, <1>3 DEF Submit, SameAbove, Lengthens
  <1>4. CASE s.free # 0 /\ Len(s.queue) = SendQueueSize
    BY <1>1, <1>2, <1>4 DEF Submit, Lengthens, Genuine
  <1>5. CASE s.free # 0 /\ Len(s.queue) # SendQueueSize
    <2>1. t = SendDownOnce(u)
      BY <1>5 DEF Submit
    <2>2. q \in WellFormed /\ q \in Packet
      BY <1>1, StampedWellFormed DEF WellFormed
    <2>3. Sound(k) /\ k.free = s.free /\ s.free \in Nat \ {0}
      BY <1>1, <1>5, TickedSound DEF SendTyped
    <2> HIDE DEF k, q
    <2>4. /\ SameAbove(k, u) /\ u.queue = Append(k.queue, q) /\ u.slot = k.slot
          /\ u.status = k.status
      BY <2>3 DEF Sound, SendTyped, SendFields, SameAbove
    <2>5. SendTyped(u)
      BY <2>2, <2>3, <1>5, <1>2 DEF Sound, SendTyped, SendFields
    <2> HIDE DEF u
    <2>6. /\ SameAbove(u, t) /\ t.queue = u.queue /\ t.slot = u.slot
          /\ u.status # "IDLE" => t.status = u.status
      BY <2>1, <2>5, WakeLeaves
    <2> HIDE DEF t
    <2>7. SameAbove(s, t)
      BY <1>2, <2>4, <2>6 DEF SameAbove
    <2>8. t.queue = Append(s.queue, q) /\ t.slot = s.slot
          /\ (s.status # "IDLE" => t.status = s.status)
      BY <1>2, <2>4, <2>6
    <2>9. /\ Len(t.queue) = Len(s.queue) + 1 /\ Len(s.queue) \in Nat
          /\ t.queue[Len(s.queue) + 1] = q
          /\ \A n \in 1..Len(s.queue) : t.queue[n] = s.queue[n]
      BY <1>1, <2>2, <2>8
    <2>10. Lengthens(s, t)
      BY <2>8, <2>9 DEF Lengthens
    <2>11. \A n \in 1..Len(t.queue) : n = Len(s.queue) + 1 \/ n \in 1..Len(s.queue)
      BY <2>9
    <2>12. Genuine(t)
      <3>1. \A n \in 1..Len(t.queue) : t.queue[n] \in WellFormed
        BY <2>2, <2>9, <2>11 DEF Genuine
      <3> QED BY <3>1, <2>8 DEF Genuine
    <2> QED BY <2>7, <2>8, <2>10, <2>12 DEF t
  <1> QED BY <1>3, <1>4, <1>5

\* A node's own packets have the layout of their types.
LEMMA OwnPacketsWellFormed ==
    ASSUME NEW a \in Addrs
    PROVE  /\ MakeNeighborReport(a) \in WellFormed /\ MakeEnergyReport(a) \in WellFormed
           /\ \A f \in Flows : MakeData(a, f) \in WellFormed
           /\ \A t \in NotRouted : MakeDiscovery(t, a) \in WellFormed
           /\ \A t \in {"CONTROL_REQUEST", "DATA_REQUEST", "REGISTER"},
                 k \in Addrs \union Flows : MakeRequest(t, a, k) \in WellFormed
           /\ \A t \in ControlSetups \union DataSetups, k \in Addrs \union Flows, h \in Addrs :
                 MakeSetupAck(a, t, k, h) \in WellFormed
  <1>1. \A p \in Packet : p.type \in ByFlow /\ p.to \in Flows => p \in WellFormed
    BY DEF WellFormed, ByFlow, ByAddress, BySource, DataSetups, ControlSetups
  <1>2. \A t \in ByFlow, f \in Flows : Make(t, a, f) \in Packet
    BY PacketsAssumption DEF Make, Packet, Types
  <1>3. MakeNeighborReport(a) \in WellFormed /\ MakeEnergyReport(a) \in WellFormed
    BY <1>1, <1>2, PacketsAssumption DEF MakeNeighborReport, MakeEnergyReport, Make, ByFlow
  <1>4. \A f \in Flows : MakeData(a, f) \in WellFormed
    BY <1>1, <1>2 DEF MakeData, Make, ByFlow
  <1>5. \A t \in NotRouted : MakeDiscovery(t, a) \in WellFormed
    BY PacketsAssumption DEF MakeDiscovery, Make, WellFormed, Packet, Types, ByFlow, ByAddress,
                             BySource, NotRouted, DataSetups, ControlSetups
  <1>6. ASSUME NEW t \in {"CONTROL_REQUEST", "DATA_REQUEST", "REGISTER"},
               NEW k \in Addrs \union Flows
        PROVE  MakeRequest(t, a, k) \in WellFormed
    <2> DEFINE m == Make(t, a, ControllerFlow)
    <2>1. m \in Packet /\ m.type = t /\ m.to = ControllerFlow
      BY <1>2, PacketsAssumption DEF ByFlow, Make
    <2> HIDE DEF m
    <2>2. LET p == [m EXCEPT !.key = k] IN p \in Packet /\ p.type = t /\ p.to = ControllerFlow
      BY <2>1 DEF Packet
    <2> QED BY <1>1, <2>2, PacketsAssumption DEF MakeRequest, m, ByFlow
  <1>7. ASSUME NEW t \in ControlSetups \union DataSetups, NEW k \in Addrs \union Flows,
               NEW h \in Addrs
        PROVE  MakeSetupAck(a, t, k, h) \in WellFormed
    <2> DEFINE m == Make("ACK_BY_FLOW", a, ControllerFlow)
    <2>1. m \in Packet /\ m.type = "ACK_BY_FLOW" /\ m.to = ControllerFlow
      BY <1>2, PacketsAssumption DEF ByFlow, Make
    <2>2. t \in Types
      BY DEF Types, ByAddress, BySource, ControlSetups, DataSetups
    <2> HIDE DEF m
    <2>3. LET p == [m EXCEPT !.act = t, !.key = k, !.hop = h] IN
          p \in Packet /\ p.type = "ACK_BY_FLOW" /\ p.to = ControllerFlow
      BY <2>1, <2>2 DEF Packet
    <2> QED BY <1>1, <2>3, PacketsAssumption DEF MakeSetupAck, m, ByFlow
  <1> QED BY <1>3, <1>4, <1>5, <1>6, <1>7

\* sdn_send_neighbor_report
LEMMA NeighborReportAdds ==
    ASSUME NEW s, Sound(s), Genuine(s)
    PROVE  LET t == SendNeighborReport(s) IN
           SameAbove(s, t) /\ Lengthens(s, t) /\ Genuine(t)
  <1>1. CASE s.locked \/ ~s.nbrs \/ s.free = 0
    <2>1. s.queue \in Seq(Packet)
      BY DEF Sound, SendTyped
    <2> QED BY <1>1, <2>1 DEF SendNeighborReport, SameAbove, Lengthens
  <1>2. CASE ~(s.locked \/ ~s.nbrs \/ s.free = 0)
    <2> DEFINE u == [s EXCEPT !.locked = TRUE]
    <2>1. SendNeighborReport(s) = Submit(u, MakeNeighborReport(s.addr))
      BY <1>2 DEF SendNeighborReport
    <2>2. MakeNeighborReport(s.addr) \in WellFormed
      BY OwnPacketsWellFormed DEF Sound, SendTyped
    <2>3. Sound(u)
      BY DEF Sound, SendTyped, SendFields, DrivenOnce, WindowOK
    <2>4. SameAbove(s, u) /\ u.queue = s.queue /\ u.slot = s.slot /\ u.status = s.status
      BY DEF Sound, SendTyped, SendFields, SameAbove
    <2> HIDE DEF u
    <2>5. Genuine(u)
      BY <2>4 DEF Genuine
    <2>6. LET t == Submit(u, MakeNeighborReport(s.addr)) IN
          SameAbove(u, t) /\ Lengthens(u, t) /\ Genuine(t)
      BY <2>2, <2>3, <2>5, SubmitAdds
    <2> QED BY <2>1, <2>4, <2>6 DEF SameAbove, Lengthens
  <1> QED BY <1>1, <1>2

\* Emptying a slot adds no packet.
LEMMA RemoveElementAdds ==
    ASSUME NEW s, SendTyped(s), Genuine(s), NEW i \in Slots
    PROVE  LET t == RemoveElement(s, i) IN
           SameAbove(s, t) /\ Lengthens(s, t) /\ Genuine(t) /\ t.queue = s.queue
  <1> DEFINE t == RemoveElement(s, i)
             e == [s.slot[i] EXCEPT !.live = FALSE, !.timer = FALSE]
  <1>1. t.slot = [s.slot EXCEPT ![i] = e]
    BY DEF RemoveElement, SendTyped, SendFields
  <1>2. ~e.live
    BY DEF SendTyped, Slot
  <1>3. SameAbove(s, t) /\ t.queue = s.queue /\ t.status = s.status
    BY DEF RemoveElement, SendTyped, SendFields, SameAbove
  <1>4. s.queue \in Seq(Packet)
    BY DEF SendTyped
  <1> HIDE DEF t, e
  <1>5. \A j \in Slots : t.slot[j].live => t.slot[j] = s.slot[j]
    BY <1>1, <1>2 DEF SendTyped
  <1>6. Genuine(t)
    BY <1>3, <1>5 DEF Genuine
  <1> QED BY <1>3, <1>4, <1>6 DEF Lengthens, t

LEMMA RemoveFirstOfAdds ==
    ASSUME NEW s, SendTyped(s), Genuine(s), NEW S \in SUBSET Slots
    PROVE  LET t == RemoveFirstOf(s, S) IN
           SameAbove(s, t) /\ Lengthens(s, t) /\ Genuine(t)
  <1>1. CASE S = {}
    <2>1. s.queue \in Seq(Packet)
      BY DEF SendTyped
    <2> QED BY <1>1, <2>1 DEF RemoveFirstOf, SameAbove, Lengthens
  <1>2. CASE S # {}
    <2>1. S \in SUBSET Nat
      BY SendAssumption DEF Slots
    <2>2. Least(S) \in Slots
      BY <1>2, <2>1, LeastOf
    <2> QED BY <1>2, <2>2, RemoveElementAdds DEF RemoveFirstOf
  <1> QED BY <1>1, <1>2

\* sld_rcv_flow_req, sld_rcv_addr_req, sld_rcv_ack
LEMMA AnswersAdd ==
    ASSUME NEW s, Sound(s), Genuine(s), NEW k, NEW seq
    PROVE  \A t \in {RcvFlowReq(s, k), RcvAddrReq(s, k), RcvAck(s, k, seq)} :
             SameAbove(s, t) /\ Lengthens(s, t) /\ Genuine(t)
  <1> DEFINE u == [s EXCEPT !.locked = @ /\ (k # "NEIGHBOR_REPORT" \/ AckSlots(s, k, seq) = {})]
  <1>1. \A t \in {RcvFlowReq(s, k), RcvAddrReq(s, k)} :
             SameAbove(s, t) /\ Lengthens(s, t) /\ Genuine(t)
    BY RemoveFirstOfAdds DEF RcvFlowReq, RcvAddrReq, RequestSlots, Sound
  <1>2. RcvAck(s, k, seq) = RemoveFirstOf(u, AckSlots(s, k, seq))
    BY DEF RcvAck
  <1>3. /\ SameAbove(s, u) /\ u.queue = s.queue /\ u.slot = s.slot /\ u.status = s.status
        /\ SendTyped(u)
    BY DEF Sound, SendTyped, SendFields, SameAbove
  <1> HIDE DEF u
  <1>4. Genuine(u)
    BY <1>3 DEF Genuine
  <1>5. AckSlots(s, k, seq) \in SUBSET Slots
    BY DEF AckSlots
  <1>6. LET t == RcvAck(s, k, seq) IN SameAbove(u, t) /\ Lengthens(u, t) /\ Genuine(t)
    BY <1>2, <1>3, <1>4, <1>5, RemoveFirstOfAdds
  <1>7. LET t == RcvAck(s, k, seq) IN SameAbove(s, t) /\ Lengthens(s, t) /\ Genuine(t)
    BY <1>3, <1>6 DEF SameAbove, Lengthens
  <1> QED BY <1>1, <1>7

\* sld_f queues the slot's packet, with a new number if it is the node's own.
LEMMA SldFAdds ==
    ASSUME NEW s, Sound(s), Genuine(s), NEW i \in Slots, s.slot[i].timer
    PROVE  LET t == SldF(s, i) IN SameAbove(s, t) /\ Lengthens(s, t) /\ Genuine(t)
  <1>1. CASE s.free = 0
    <2>1. s.queue \in Seq(Packet)
      BY DEF Sound, SendTyped
    <2> QED BY <1>1, <2>1 DEF SldF, SameAbove, Lengthens
  <1>2. CASE s.free # 0
    <2> DEFINE p == s.slot[i].pkt
               q == Stamped(s, p)
               u == Submit(s, p)
               v == [u EXCEPT !.slot[i].pkt = q]
    <2>1. SldF(s, i) = RemoveElement(v, i)
      BY <1>2 DEF SldF
    <2>2. p \in WellFormed
      BY DEF Genuine, Sound, WindowOK
    <2>3. q \in WellFormed /\ q \in Packet
      BY <2>2, StampedWellFormed DEF Sound, WellFormed
    <2>4. SameAbove(s, u) /\ Lengthens(s, u) /\ Genuine(u) /\ Sound(u)
      BY <2>2, SubmitAdds, SubmitSound DEF WellFormed
    <2> HIDE DEF p, q, u
    <2>5. SameAbove(u, v) /\ v.queue = u.queue /\ v.status = u.status
      BY <2>4 DEF Sound, SendTyped, SendFields, SameAbove
    <2>6. v.slot = [u.slot EXCEPT ![i].pkt = q]
      BY <2>4 DEF Sound, SendTyped, SendFields
    <2>7. SendTyped(v)
      BY <2>3, <2>4 DEF Sound, SendTyped, SendFields, Slot
    <2> HIDE DEF v
    <2>8. \A j \in Slots : v.slot[j].live => v.slot[j].pkt \in WellFormed
      <3>1. ASSUME NEW j \in Slots, v.slot[j].live PROVE v.slot[j].pkt \in WellFormed
        <4>1. CASE j = i
          BY <2>3, <2>4, <2>6, <4>1 DEF Sound, SendTyped, Slot
        <4>2. CASE j # i
          BY <2>4, <2>6, <3>1, <4>2 DEF Sound, SendTyped, Genuine
        <4> QED BY <4>1, <4>2
      <3> QED BY <3>1
    <2>9. Genuine(v)
      BY <2>4, <2>5, <2>8 DEF Genuine
    <2> DEFINE t == RemoveElement(v, i)
    <2>10. SameAbove(v, t) /\ Lengthens(v, t) /\ Genuine(t)
      BY <2>7, <2>9, RemoveElementAdds
    <2> HIDE DEF t
    <2>11. SameAbove(s, t)
      BY <2>4, <2>5, <2>10 DEF SameAbove
    <2>12. Len(s.queue) \in Nat /\ Len(u.queue) \in Nat /\ Len(t.queue) \in Nat
      <3>1. Sound(t)
        BY <2>1, SldFSound DEF t
      <3>2. s.queue \in Seq(Packet) /\ u.queue \in Seq(Packet) /\ t.queue \in Seq(Packet)
        BY <2>4, <3>1 DEF Sound, SendTyped
      <3> QED BY <3>2
    <2>13. Lengthens(s, t)
      BY <2>4, <2>5, <2>10, <2>12 DEF Lengthens
    <2> QED BY <2>1, <2>10, <2>11, <2>13 DEF t
  <1> QED BY <1>1, <1>2

\* sdn_network_send
LEMMA TransmitLeaves ==
    ASSUME NEW s, Sound(s), s.posted > 0
    PROVE  LET t == Transmit(s) IN
           SameAbove(s, t) /\ t.queue = s.queue /\ t.slot = s.slot
  BY DEF Transmit, Sound, SendTyped, SendFields, SameAbove

\* The head goes; the others move up.
LEMMA DepartedLeaves ==
    ASSUME NEW s, SendTyped(s)
    PROVE  LET t == Departed(s) IN
           SameAbove(s, t) /\ t.queue = Tail(s.queue) /\ t.slot = s.slot
  BY DEF Departed, SendTyped, SendFields, SameAbove

LEMMA TailGenuine ==
    ASSUME NEW s, SendTyped(s), Genuine(s), s.queue # <<>>,
           NEW t, t.queue = Tail(s.queue), t.slot = s.slot
    PROVE  Genuine(t)
  <1>1. s.queue \in Seq(Packet)
    BY DEF SendTyped
  <1>2. /\ Len(t.queue) = Len(s.queue) - 1 /\ Len(s.queue) \in Nat
        /\ \A n \in 1..Len(t.queue) : t.queue[n] = s.queue[n + 1]
    BY <1>1
  <1>3. \A n \in 1..Len(t.queue) : n + 1 \in 1..Len(s.queue)
    BY <1>2
  <1> QED BY <1>2, <1>3 DEF Genuine

\* sdn_send_process without a next hop
LEMMA DropHeadLeaves ==
    ASSUME NEW s, Sound(s), Genuine(s), s.posted > 0
    PROVE  LET t == DropHead(s) IN
           SameAbove(s, t) /\ t.queue = Tail(s.queue) /\ Genuine(t)
  <1> DEFINE a == [s EXCEPT !.posted = @ - 1]
             b == Departed(a)
             t == DropHead(s)
  <1>1. /\ SendTyped(a) /\ SameAbove(s, a) /\ a.queue = s.queue /\ a.slot = s.slot
        /\ a.queue # <<>>
    BY PostedBusy DEF Sound, SendTyped, SendFields, SameAbove
  <1>2. t = SendDownOnce(b)
    BY DEF DropHead
  <1> HIDE DEF a
  <1>3. SameAbove(a, b) /\ b.queue = Tail(a.queue) /\ b.slot = a.slot
    BY <1>1, DepartedLeaves
  <1>4. SendTyped(b)
    BY <1>1 DEF Departed, SendTyped, SendFields, Statuses
  <1> HIDE DEF b, t
  <1>5. SameAbove(b, t) /\ t.queue = b.queue /\ t.slot = b.slot
    BY <1>2, <1>4, WakeLeaves
  <1>6. SameAbove(s, t) /\ t.queue = Tail(s.queue) /\ t.slot = s.slot
    BY <1>1, <1>3, <1>5 DEF SameAbove
  <1> QED BY <1>1, <1>6, TailGenuine DEF Sound, t

\* sdn_send_done: what is sent moves to the window at most.
LEMMA SendDoneLeaves ==
    ASSUME NEW s, Sound(s), Genuine(s), s.air # NoPacket, NEW res
    PROVE  LET t == SendDone(s, res) IN SameAbove(s, t) /\ Genuine(t)
  <1> DEFINE a == [s EXCEPT !.air = NoPacket]
             b == Departed(a)
             p == Head(a.queue)
             w == AwaitAck(b, p)
             t == SendDone(s, res)
  <1>1. s.air = Head(s.queue) /\ s.queue # <<>>
    BY DEF Sound, DrivenOnce
  <1>2. SendTyped(a) /\ SameAbove(s, a) /\ a.queue = s.queue /\ a.slot = s.slot
    BY NoPacketTyped DEF Sound, SendTyped, SendFields, SameAbove
  <1>3. t = IF res = "OK" THEN SentOK(a) ELSE NotSent(a, res)
    BY <1>1 DEF SendDone
  <1> HIDE DEF a
  <1>4. SameAbove(a, b) /\ b.queue = Tail(a.queue) /\ b.slot = a.slot
    BY <1>2, DepartedLeaves
  <1>5. SendTyped(b)
    <2>1. Tail(a.queue) \in Seq(Packet)
      BY <1>1, <1>2 DEF SendTyped
    <2> QED BY <1>2, <2>1 DEF Departed, SendTyped, SendFields, Statuses
  <1>6. Genuine(a)
    BY <1>2 DEF Genuine
  <1>7. Genuine(b)
    BY <1>1, <1>2, <1>4, <1>6, TailGenuine
  <1>8. p \in WellFormed
    <2>1. a.queue \in Seq(Packet) /\ a.queue # <<>>
      BY <1>1, <1>2 DEF SendTyped
    <2>2. Len(a.queue) \in Nat \ {0} /\ p = a.queue[1]
      BY <2>1
    <2>3. 1 \in 1..Len(a.queue)
      BY <2>2
    <2> QED BY <1>6, <2>2, <2>3 DEF Genuine
  <1> HIDE DEF b, p
  <1>9. CASE res = "OK"
    <2> DEFINE v == [w EXCEPT !.retx = 0]
    <2>1. t = SendDownOnce(v)
      BY <1>3, <1>9 DEF SentOK, b, p
    <2>2. SameAbove(b, w) /\ w.queue = b.queue /\ SendTyped(w)
          /\ \A i \in Slots : w.slot[i] = b.slot[i] \/ w.slot[i].pkt = p
      <3>1. CASE p.type \notin Acknowledged \/ ~IsOwn(b, p) \/ Vacant(b) = {}
        BY <3>1, <1>5, SendAssumption DEF AwaitAck, SendTyped, SendFields, SameAbove
      <3>2. CASE ~(p.type \notin Acknowledged \/ ~IsOwn(b, p) \/ Vacant(b) = {})
        <4> DEFINE c == Least(Vacant(b))
                   e == [pkt |-> p, live |-> TRUE, timer |-> TRUE]
        <4>1. w = [b EXCEPT !.slot[c] = e, !.slotCount = c + 1]
          BY <3>2 DEF AwaitAck
        <4>2. c \in Slots /\ c + 1 \in 0..MaxTxWindow
          <5>1. Vacant(b) \in SUBSET Nat
            BY SendAssumption DEF Vacant, Slots
          <5>2. c \in Vacant(b)
            BY <5>1, <3>2, LeastOf
          <5> QED BY <5>2, SendAssumption DEF Vacant, Slots
        <4>3. e \in Slot
          BY <1>8 DEF Slot, WellFormed
        <4> HIDE DEF c
        <4>4. SameAbove(b, w) /\ w.queue = b.queue /\ SendTyped(w)
          <5>1. SameAbove(b, w) /\ w.queue = b.queue
            BY <4>1, <1>5 DEF SendTyped, SendFields, SameAbove
          <5>2. SendTyped(w)
            BY <4>1, <4>2, <4>3, <1>5 DEF SendTyped, SendFields
          <5> QED BY <5>1, <5>2
        <4>5. w.slot = [b.slot EXCEPT ![c] = e]
          BY <4>1, <1>5 DEF SendTyped, SendFields
        <4> HIDE DEF w
        <4>6. \A i \in Slots : w.slot[i] = b.slot[i] \/ w.slot[i].pkt = p
          BY <4>2, <4>5, <1>5 DEF SendTyped
        <4> QED BY <4>4, <4>6
      <3> QED BY <3>1, <3>2
    <2> HIDE DEF w
    <2>3. SameAbove(w, v) /\ v.queue = w.queue /\ v.slot = w.slot /\ SendTyped(v)
      BY <2>2 DEF SendTyped, SendFields, SameAbove
    <2> HIDE DEF v, t
    <2>4. SameAbove(v, t) /\ t.queue = v.queue /\ t.slot = v.slot
      BY <2>1, <2>3, WakeLeaves
    <2>5. SameAbove(s, t)
      BY <1>2, <1>4, <2>2, <2>3, <2>4 DEF SameAbove
    <2>6. Genuine(t)
      BY <1>7, <1>8, <2>2, <2>3, <2>4 DEF Genuine
    <2> QED BY <2>5, <2>6 DEF t
  <1>10. CASE res # "OK" /\ GivesUp(a, res)
    <2> DEFINE v == [b EXCEPT !.retx = 0]
    <2>1. t = SendDownOnce(v)
      BY <1>3, <1>10 DEF NotSent, b
    <2>2. SameAbove(b, v) /\ v.queue = b.queue /\ v.slot = b.slot /\ SendTyped(v)
      BY <1>5 DEF SendTyped, SendFields, SameAbove
    <2> HIDE DEF v, t
    <2>3. SameAbove(v, t) /\ t.queue = v.queue /\ t.slot = v.slot
      BY <2>1, <2>2, WakeLeaves
    <2>4. SameAbove(s, t)
      BY <1>2, <1>4, <2>2, <2>3 DEF SameAbove
    <2>5. Genuine(t)
      BY <1>7, <2>2, <2>3 DEF Genuine
    <2> QED BY <2>4, <2>5 DEF t
  <1>11. CASE res # "OK" /\ ~GivesUp(a, res)
    <2>1. t = [a EXCEPT !.retx = Failures(a, res), !.status = "TRICKLE_TIME", !.trickle = TRUE]
      BY <1>3, <1>11 DEF NotSent
    <2>2. SameAbove(a, t) /\ t.queue = a.queue /\ t.slot = a.slot
      BY <1>2, <2>1 DEF SendTyped, SendFields, SameAbove
    <2> QED BY <1>2, <1>6, <2>2 DEF SameAbove, Genuine
  <1> QED BY <1>9, <1>10, <1>11

\* trickle_time_callback
LEMMA TrickleLeaves ==
    ASSUME NEW s, Sound(s)
    PROVE  LET t == TrickleTimeCallback(s) IN
           SameAbove(s, t) /\ t.queue = s.queue /\ t.slot = s.slot
  <1> DEFINE a == [s EXCEPT !.trickle = FALSE, !.status = "IDLE"]
  <1>1. SendTyped(a) /\ SameAbove(s, a) /\ a.queue = s.queue /\ a.slot = s.slot
    BY DEF Sound, SendTyped, SendFields, SameAbove, Statuses
  <1>2. TrickleTimeCallback(s) = SendDownOnce(a)
    BY DEF TrickleTimeCallback
  <1> HIDE DEF a
  <1> QED BY <1>1, <1>2, WakeLeaves DEF SameAbove

-----------------------------------------------------------------------------
(* The layer *)

\* Inductive: what every handler keeps, and the buffers the layers above hold.
LayerInv ==
    /\ Sound(mem)
    /\ held \in Nat
    /\ Buffers(mem) + held = PoolSize

\* The layer starts idle with the whole pool.
LEMMA LayerBegins == LayerInit => LayerInv
  <1> SUFFICES ASSUME LayerInit PROVE LayerInv
    OBVIOUS
  <1>1. Sound(mem) /\ Buffers(mem) = PoolSize
    <2>1. mem = InitialSend(Sender, TRUE)
      BY DEF LayerInit
    <2> QED BY <2>1, InitialSendSound, SdnSendAssumption
  <1>2. held = 0 /\ PoolSize \in Nat
    BY SendAssumption DEF LayerInit
  <1>3. Buffers(mem) + held = PoolSize
    BY <1>1, <1>2
  <1> QED BY <1>1, <1>2, <1>3 DEF LayerInv

\* Taking and returning a buffer moves it between the pool and the layers above.
LEMMA BorrowKeeps == LayerInv /\ (TakeBuffer \/ ReturnBuffer) => LayerInv'
  <1> SUFFICES ASSUME LayerInv, TakeBuffer \/ ReturnBuffer PROVE LayerInv'
    OBVIOUS
  <1>1. mem.free \in Nat /\ held \in Nat /\ Len(mem.queue) \in Nat
    BY DEF LayerInv, Sound, SendTyped
  <1>2. PICK n \in Nat : /\ mem' = [mem EXCEPT !.free = n]
                         /\ held' \in Nat /\ n + held' = mem.free + held
    <2>1. CASE TakeBuffer
      <3>1. /\ mem.free - 1 \in Nat /\ mem' = [mem EXCEPT !.free = mem.free - 1]
            /\ held' \in Nat /\ (mem.free - 1) + held' = mem.free + held
        BY <1>1, <2>1 DEF TakeBuffer
      <3> QED BY <3>1
    <2>2. CASE ReturnBuffer
      <3>1. /\ mem.free + 1 \in Nat /\ mem' = [mem EXCEPT !.free = mem.free + 1]
            /\ held' \in Nat /\ (mem.free + 1) + held' = mem.free + held
        BY <1>1, <2>2 DEF ReturnBuffer
      <3> QED BY <3>1
    <2> QED BY <2>1, <2>2
  <1>3. Sound(mem')
    BY <1>2 DEF LayerInv, Sound, SendTyped, SendFields, DrivenOnce, WindowOK
  <1>4. mem'.free = n /\ mem'.queue = mem.queue
    BY <1>2 DEF LayerInv, Sound, SendTyped, SendFields
  <1>5. Buffers(mem') + held' = PoolSize
    <2>1. mem.free + Len(mem.queue) + held = PoolSize
      BY DEF LayerInv, Buffers
    <2>2. Buffers(mem') = n + Len(mem.queue)
      BY <1>4 DEF Buffers
    <2> QED BY <1>1, <1>2, <2>1, <2>2
  <1> QED BY <1>2, <1>3, <1>5 DEF LayerInv

\* A handler of the layer that keeps it sound and its buffers constant keeps LayerInv.
LEMMA HandlerKeeps ==
    ASSUME LayerInv, Sound(mem'), Buffers(mem') = Buffers(mem), UNCHANGED held
    PROVE  LayerInv'
  BY DEF LayerInv, Buffers

\* Every step of the layer and of its environment keeps the invariant.
LEMMA LayerMoves == LayerInv /\ [LayerNext]_vars => LayerInv'
  <1> SUFFICES ASSUME LayerInv, [LayerNext]_vars PROVE LayerInv'
    OBVIOUS
  <1>0. Sound(mem)
    BY DEF LayerInv
  <1>1. ASSUME NEW p \in Outgoing, Send(p) PROVE LayerInv'
    <2>1. p \in Packet
      BY SdnSendAssumption
    <2> QED BY <1>0, <1>1, <2>1, SubmitSound, HandlerKeeps DEF Send
  <1>2. CASE ReportNeighbors
    BY <1>0, <1>2, SendNeighborReportSound, HandlerKeeps DEF ReportNeighbors
  <1>3. CASE TakeBuffer \/ ReturnBuffer
    BY <1>3, BorrowKeeps
  <1>4. ASSUME NEW k, FlowSetupArrives(k) \/ AddrSetupArrives(k) PROVE LayerInv'
    BY <1>0, <1>4, RcvRequestSound, HandlerKeeps DEF FlowSetupArrives, AddrSetupArrives
  <1>5. ASSUME NEW type, NEW seq, AckArrives(type, seq) PROVE LayerInv'
    BY <1>0, <1>5, RcvAckSound, HandlerKeeps DEF AckArrives
  <1>6. CASE SendRuns
    BY <1>0, <1>6, TransmitSound, DropHeadSound, HandlerKeeps DEF SendRuns
  <1>7. ASSUME NEW res, MacAnswers(res) PROVE LayerInv'
    BY <1>0, <1>7, SendDoneSound, HandlerKeeps DEF MacAnswers
  <1>8. CASE TrickleRunsOut
    BY <1>0, <1>8, TrickleSound, HandlerKeeps DEF TrickleRunsOut
  <1>9. ASSUME NEW i \in Slots, SlotRunsOut(i) PROVE LayerInv'
    BY <1>0, <1>9, SldFSound, HandlerKeeps DEF SlotRunsOut
  <1>10. CASE UNCHANGED vars
    BY <1>10 DEF LayerInv, vars
  <1> QED BY <1>1, <1>2, <1>3, <1>4, <1>5, <1>6, <1>7, <1>8, <1>9, <1>10 DEF LayerNext

LEMMA LayerInvHolds == LayerSpec => []LayerInv
  BY LayerBegins, LayerMoves, PTL DEF LayerSpec

-----------------------------------------------------------------------------

\* The handlers of contiki-sdn/sdn-send.c keep the layer's memory well formed.
THEOREM LayerTypeCorrect == LayerSpec => []LayerTypeOK
  <1>1. LayerInv => LayerTypeOK
    BY DEF LayerInv, Sound, LayerTypeOK
  <1> QED BY <1>1, LayerInvHolds, PTL

\* No path through the handlers leaks a buffer of sdn_packetbuf_pool or returns
\* one twice, and sdn_send_queue never outgrows its ring.
THEOREM BuffersShared == LayerSpec => []PoolShared
  <1>1. LayerInv => PoolShared
    BY DEF LayerInv, Sound, SendTyped, Buffers, PoolShared
  <1> QED BY <1>1, LayerInvHolds, PTL

\* sdn_send_status always names the one event that will serve the queue.
THEOREM OneDriverHolds == LayerSpec => []OneDriver
  <1>1. LayerInv => OneDriver
    BY DEF LayerInv, Sound, OneDriver
  <1> QED BY <1>1, LayerInvHolds, PTL

\* sld_count never passes a vacant slot, and packets wait only under a timer.
THEOREM WindowHolds == LayerSpec => []WindowKept
  <1>1. LayerInv => WindowKept
    BY DEF LayerInv, Sound, WindowKept
  <1> QED BY <1>1, LayerInvHolds, PTL

\* count_retransmit meets SDN_MAX_RETRANSMIT and never steps over it, although
\* the path without next hop does not reset it.
THEOREM RetriesHold == LayerSpec => []RetriesBounded
  <1>1. LayerInv => RetriesBounded
    BY DEF LayerInv, Sound, RetriesBounded
  <1> QED BY <1>1, LayerInvHolds, PTL

-----------------------------------------------------------------------------
(* The inductive invariant, in parts that speak of any memory, so that they
   can be followed through the calls of a handler. *)

NodeFields == SendFields \union {"lastHop", "keep", "dft", "cft", "mode", "ndDue",
                                 "recvQ", "corePosted"}

\* What every insertion and purge keeps true of a table: a key in spared is
\* never in a block the pool may hand out.
TableSound(t, keys, spared) ==
    /\ t \in Table(keys, Addrs)
    /\ \A b, c \in t.linked : t.blk[b].key = t.blk[c].key => b = c
    /\ t.used \subseteq t.linked
    /\ \A b \in t.linked : t.blk[b].key \in spared => b \in t.used

\* The memory of a node but for the receive queue and its event.
NodeTyped(s) ==
    /\ Sound(s) /\ Genuine(s)
    /\ NodeFields \subseteq DOMAIN s /\ s.addr = Node
    /\ s.keep \in [Keeps -> WellFormed \union {NoPacket}]
    /\ s.lastHop \in Addrs \union {Broadcast, None}
    /\ TableSound(s.dft, Flows \union {None}, {ControllerFlow})
    /\ TableSound(s.cft, Addrs \union {None}, {})
    /\ s.mode \in {"AWAITING", "STEADY"} /\ s.ndDue \in BOOLEAN

KeptIn(s) == {i \in Keeps : s.keep[i].type # "NONE"}

Unroutable(s, S) == \A i \in S : ~HasRoute(s, s.keep[i])

\* Between two calls of a handler, too, the kept packets have no route.
NodeSound(s) == NodeTyped(s) /\ Unroutable(s, KeptIn(s))

\* The buffers outside the receive queue and outside the handlers.
Load(s) == Buffers(s) + Cardinality(KeptIn(s))

\* A packet that is no longer kept is in the queue behind what was there, or the
\* queue is full.
Delivers(s, t) ==
    \A i \in KeptIn(s) :
        \/ t.keep[i] = s.keep[i]
        \/ Len(t.queue) = SendQueueSize
        \/ \E n \in (Len(s.queue) + 1)..Len(t.queue) : t.queue[n] = s.keep[i]

\* What a call made on the way through a handler does to the memory.
Advances(s, t) ==
    /\ NodeSound(t)
    /\ Load(t) = Load(s)
    /\ t.recvQ = s.recvQ /\ t.corePosted = s.corePosted
    /\ Lengthens(s, t)
    /\ Has(s.dft, ControllerFlow) => Has(t.dft, ControllerFlow)
    /\ Delivers(s, t)

\* Between two events.
Whole(s) ==
    /\ NodeSound(s)
    /\ s.recvQ \in Seq(WellFormed)
    /\ s.corePosted = IF s.recvQ = <<>> THEN 0 ELSE 1
    /\ Load(s) + Len(s.recvQ) = PoolSize

Inv == Whole(node)

\* What becomes of the packets that an event takes out of the array.
Released(s, t) ==
    \A i \in KeptIn(s) : t.keep[i] = NoPacket =>
        \/ Len(t.queue) = SendQueueSize
        \/ s.posted > 0 /\ Len(t.queue) = SendQueueSize - 1
        \/ \E n \in 1..Len(t.queue) : t.queue[n] = s.keep[i]

\* What an event does to the memory.
Steps(s, t) ==
    /\ Whole(t)
    /\ Has(s.dft, ControllerFlow) => Has(t.dft, ControllerFlow)
    /\ Released(s, t)

-----------------------------------------------------------------------------
(* The flow tables *)

\* The block an insertion writes: the key's own, or one that is not in use.
LEMMA BlockForChoice ==
    ASSUME NEW keys, NEW t \in Table(keys, Addrs), NEW k, CanInsert(t, k)
    PROVE  /\ BlockFor(t, k) \in Blocks
           /\ Has(t, k) => BlockFor(t, k) \in Found(t, k)
           /\ ~Has(t, k) => BlockFor(t, k) \notin t.used
  <1>1. CASE Has(t, k)
    <2>1. BlockFor(t, k) \in Found(t, k)
      BY <1>1 DEF Has, BlockFor
    <2> QED BY <1>1, <2>1 DEF Found, Table
  <1>2. CASE ~Has(t, k)
    <2>1. Unused(t) \in SUBSET Nat /\ Unused(t) # {}
      BY <1>2, TableSizeAssumption DEF CanInsert, Unused, Blocks
    <2>2. Least(Unused(t)) \in Unused(t)
      BY <2>1, LeastOf
    <2>3. MembAlloc(t) = Least(Unused(t))
      BY DEF MembAlloc, Least
    <2> QED BY <1>2, <2>2, <2>3 DEF BlockFor, Unused
  <1> QED BY <1>1, <1>2

\* An insertion adds no key but its own and takes no spared one away.
LEMMA InsertKeeps ==
    ASSUME NEW keys, NEW spared, NEW t, TableSound(t, keys, spared),
           NEW k \in keys, NEW h \in Addrs, NEW a \in Actions
    PROVE  LET u == TableInsert(t, k, h, a) IN
           /\ TableSound(u, keys, spared)
           /\ \A j \in spared : Has(t, j) => Has(u, j)
           /\ \A j : Has(u, j) => j = k \/ Has(t, j)
  <1>1. CASE ~CanInsert(t, k)
    BY <1>1 DEF TableInsert
  <1>2. CASE CanInsert(t, k)
    <2> DEFINE b == BlockFor(t, k)
               e == [key |-> k, hop |-> h, act |-> a]
               u == TableInsert(t, k, h, a)
    <2>1. /\ b \in Blocks
          /\ Has(t, k) => b \in Found(t, k)
          /\ ~Has(t, k) => b \notin t.used
      BY <1>2, BlockForChoice DEF TableSound
    <2>2. /\ u.used = IF Has(t, k) THEN t.used ELSE t.used \union {b}
          /\ u.linked = t.linked \union {b}
          /\ u.blk = [t.blk EXCEPT ![b] = e]
          /\ u = [used |-> u.used, linked |-> u.linked, blk |-> u.blk]
      BY <1>2 DEF TableInsert
    <2>3. e \in Entry(keys, Addrs) /\ e.key = k
      BY DEF Entry
    <2> HIDE DEF b, e, u
    <2>4. t.blk \in [Blocks -> Entry(keys, Addrs)] /\ t.used \subseteq Blocks
          /\ t.linked \subseteq Blocks
      BY DEF TableSound, Table
    <2>5. u \in Table(keys, Addrs)
      BY <2>1, <2>2, <2>3, <2>4 DEF Table
    <2>6. u.blk[b] = e /\ \A c \in t.linked \ {b} : u.blk[c] = t.blk[c]
      BY <2>1, <2>2, <2>4
    <2>7. \A c \in t.linked : t.blk[c].key = k => c = b
      <3>1. CASE Has(t, k)
        BY <2>1, <3>1 DEF TableSound, Found
      <3>2. CASE ~Has(t, k)
        BY <3>2 DEF Has, Found
      <3> QED BY <3>1, <3>2
    <2>8. \A c \in u.linked : c = b \/ c \in t.linked \ {b}
      BY <2>2
    <2>9. \A c, d \in u.linked : u.blk[c].key = u.blk[d].key => c = d
      BY <2>3, <2>6, <2>7, <2>8 DEF TableSound
    <2>10. u.used \subseteq u.linked
      BY <2>2 DEF TableSound
    <2>11. ASSUME NEW c \in u.linked, u.blk[c].key \in spared PROVE c \in u.used
      <3>1. CASE c = b /\ Has(t, k)
        BY <2>1, <2>2, <2>3, <2>6, <2>11, <3>1 DEF TableSound, Found
      <3>2. CASE c = b /\ ~Has(t, k)
        BY <2>2, <3>2
      <3>3. CASE c # b
        BY <2>2, <2>6, <2>8, <2>11, <3>3 DEF TableSound
      <3> QED BY <3>1, <3>2, <3>3
    <2>12. ASSUME NEW j \in spared, Has(t, j) PROVE Has(u, j)
      <3>1. PICK c \in t.linked : t.blk[c].key = j
        BY <2>12 DEF Has, Found
      <3>2. CASE c = b
        <4>1. b \in t.used
          BY <3>1, <3>2 DEF TableSound
        <4>2. k = j
          BY <2>1, <3>1, <3>2, <4>1 DEF Found
        <4> QED BY <2>2, <2>3, <2>6, <4>2 DEF Has, Found
      <3>3. CASE c # b
        BY <2>2, <2>6, <3>1, <3>3 DEF Has, Found
      <3> QED BY <3>2, <3>3
    <2>13. ASSUME NEW j, Has(u, j) PROVE j = k \/ Has(t, j)
      <3>1. PICK c \in u.linked : u.blk[c].key = j
        BY <2>13 DEF Has, Found
      <3> QED BY <2>3, <2>6, <2>8, <3>1 DEF Has, Found
    <2> QED BY <2>5, <2>9, <2>10, <2>11, <2>12, <2>13 DEF TableSound, u
  <1> QED BY <1>1, <1>2

\* A purge frees blocks, spared ones excepted, and unlinks none.
LEMMA PurgeKeeps ==
    ASSUME NEW keys, NEW spared, NEW t, TableSound(t, keys, spared), NEW h
    PROVE  LET u == TablePurge(t, h, spared) IN
           TableSound(u, keys, spared) /\ \A j : Has(u, j) <=> Has(t, j)
  <1> DEFINE u == TablePurge(t, h, spared)
  <1>1. /\ u.used = t.used \ Through(t, h, spared) /\ u.linked = t.linked /\ u.blk = t.blk
        /\ u \in Table(keys, Addrs)
    BY DEF TablePurge, TableSound, Table
  <1> HIDE DEF u
  <1>2. \A b \in t.linked : t.blk[b].key \in spared => b \notin Through(t, h, spared)
    BY DEF Through
  <1>3. TableSound(u, keys, spared)
    BY <1>1, <1>2 DEF TableSound
  <1>4. \A j : Has(u, j) <=> Has(t, j)
    BY <1>1 DEF Has, Found
  <1> QED BY <1>3, <1>4 DEF u

\* What a lookup returns can be used as a next hop.
LEMMA GetTyped ==
    ASSUME NEW keys, NEW t \in Table(keys, Addrs), NEW k, Has(t, k)
    PROVE  Get(t, k).hop \in Addrs /\ Get(t, k).act \in Actions
  <1>1. (CHOOSE b \in Found(t, k) : TRUE) \in Found(t, k)
    BY DEF Has
  <1> QED BY <1>1 DEF Get, Found, Table, Entry

-----------------------------------------------------------------------------
(* Counting *)

\* The places of keep_array are finitely many.
LEMMA KeepsFinite ==
    /\ Keeps \in SUBSET Nat
    /\ \A S \in SUBSET Keeps : IsFiniteSet(S) /\ Cardinality(S) \in Nat
  <1>1. Keeps \in SUBSET Nat /\ IsFiniteSet(Keeps)
    BY NodeAssumption, FS_Interval DEF Keeps
  <1>2. ASSUME NEW S \in SUBSET Keeps PROVE IsFiniteSet(S) /\ Cardinality(S) \in Nat
    BY <1>1, FS_Subset, FS_CardinalityType
  <1> QED BY <1>1, <1>2

\* A set of n elements or more has an n-th in the order of the array.
LEMMA NthExists ==
    ASSUME NEW S \in SUBSET Keeps, NEW n \in 1..Cardinality(S)
    PROVE  Nth(S, n) \in S /\ Cardinality({j \in S : j < Nth(S, n)}) = n - 1
  <1> DEFINE Below(i) == {j \in S : j < i}
             Bad == {m \in 1..Cardinality(S) : \A i \in S : Cardinality(Below(i)) # m - 1}
  <1>1. S \in SUBSET Nat /\ IsFiniteSet(S) /\ Cardinality(S) \in Nat
    BY KeepsFinite
  <1>i. \A j \in S : j \in Int
    BY <1>1
  <1>2. Bad = {}
    <2> SUFFICES ASSUME Bad # {} PROVE FALSE
      OBVIOUS
    <2> DEFINE m == Least(Bad)
    <2>1. Bad \in SUBSET Nat
      BY <1>1
    <2>2. m \in Bad /\ \A j \in Bad : m <= j
      BY <2>1, LeastOf
    <2> HIDE DEF m
    <2>3. CASE m = 1
      <3>1. S # {}
        BY <1>1, <2>2, <2>3, FS_EmptySet
      <3>2. Least(S) \in S /\ \A j \in S : Least(S) <= j
        BY <1>1, <3>1, LeastOf
      <3>3. Below(Least(S)) = {}
        BY <1>i, <3>2
      <3>4. Cardinality(Below(Least(S))) = 0
        BY <3>3, FS_EmptySet
      <3> QED BY <2>2, <2>3, <3>2, <3>4
    <2>4. CASE m # 1
      <3>1. m \in Nat /\ m - 1 \in 1..Cardinality(S) /\ m <= Cardinality(S) /\ m - 1 \notin Bad
        BY <1>1, <2>2, <2>4
      <3>2. PICK i \in S : Cardinality(Below(i)) = m - 2
        <4>1. \E i \in S : Cardinality(Below(i)) = (m - 1) - 1
          BY <3>1
        <4>2. (m - 1) - 1 = m - 2
          BY <3>1
        <4> QED BY <4>1, <4>2
      <3>3. i \notin Below(i) /\ Below(i) \in SUBSET S /\ IsFiniteSet(Below(i))
        BY <1>1, FS_Subset
      <3> DEFINE T == Below(i) \union {i}
                 Rest == S \ T
      <3>4. Cardinality(T) = m - 1 /\ T \in SUBSET S
        <4> HIDE DEF Below
        <4>1. Cardinality(Below(i) \union {i}) = Cardinality(Below(i)) + 1
          BY <3>3, FS_AddElement
        <4> QED BY <3>1, <3>2, <3>3, <4>1
      <3>5. Rest # {}
        BY <3>1, <3>4
      <3>6. Least(Rest) \in Rest /\ \A j \in Rest : Least(Rest) <= j
        BY <1>1, <3>5, LeastOf
      <3>7. Below(Least(Rest)) = T
        <4> DEFINE r == Least(Rest)
        <4>1. r \in S /\ r \in Int /\ ~(r < i) /\ r # i /\ i \in Int
          BY <1>i, <3>6
        <4>2. \A j \in S : j \notin T => r <= j
          BY <3>6
        <4> HIDE DEF r
        <4>3. \A j \in T : j \in S /\ j < r
          BY <1>i, <4>1
        <4>4. \A j \in S : j < r => j \in T
          BY <1>i, <4>1, <4>2
        <4>5. Below(r) = T
          BY <4>3, <4>4
        <4> QED BY <4>5 DEF r
      <3> QED BY <2>2, <3>1, <3>4, <3>6, <3>7
    <2> QED BY <2>3, <2>4
  <1>3. \E i \in S : Cardinality(Below(i)) = n - 1
    BY <1>2
  <1> QED BY <1>3 DEF Nth

\* Every element is the n-th for some n.
LEMMA NthOnto ==
    ASSUME NEW S \in SUBSET Keeps, NEW i \in S
    PROVE  \E n \in 1..Cardinality(S) : Nth(S, n) = i
  <1> DEFINE Below(j) == {k \in S : k < j}
             n == Cardinality(Below(i)) + 1
  <1>1. S \in SUBSET Nat /\ IsFiniteSet(S) /\ Cardinality(S) \in Nat
    BY KeepsFinite
  <1>i. \A j \in S : j \in Int
    BY <1>1
  <1>2. \A j : Below(j) \in SUBSET Keeps /\ IsFiniteSet(Below(j))
               /\ Cardinality(Below(j)) \in Nat
    BY KeepsFinite
  <1>3. \A j \in S : Cardinality(Below(j) \union {j}) = Cardinality(Below(j)) + 1
    <2> SUFFICES ASSUME NEW j \in S
                 PROVE  Cardinality(Below(j) \union {j}) = Cardinality(Below(j)) + 1
      OBVIOUS
    <2>1. j \notin Below(j)
      BY <1>1
    <2> HIDE DEF Below
    <2> QED BY <1>2, <2>1, FS_AddElement
  <1>4. n \in 1..Cardinality(S)
    <2>1. Below(i) \union {i} \in SUBSET S
      OBVIOUS
    <2>2. Cardinality(Below(i) \union {i}) <= Cardinality(S)
      BY <1>1, <2>1, FS_Subset
    <2> HIDE DEF Below
    <2> QED BY <1>1, <1>2, <1>3, <2>2
  <1>5. ASSUME NEW j \in S, NEW k \in S, j < k
        PROVE  Cardinality(Below(j)) < Cardinality(Below(k))
    <2>1. Below(j) \union {j} \in SUBSET Below(k)
      BY <1>i, <1>5
    <2>2. Cardinality(Below(j) \union {j}) <= Cardinality(Below(k))
      BY <1>2, <2>1, FS_Subset
    <2> HIDE DEF Below
    <2> QED BY <1>2, <1>3, <2>2
  <1>6. Nth(S, n) \in S /\ Cardinality(Below(Nth(S, n))) = n - 1
    BY <1>4, NthExists
  <1>7. Cardinality(Below(Nth(S, n))) = Cardinality(Below(i))
    BY <1>2, <1>6
  <1>8. ~(i < Nth(S, n)) /\ ~(Nth(S, n) < i)
    BY <1>2, <1>5, <1>6, <1>7
  <1>9. Nth(S, n) = i
    BY <1>i, <1>6, <1>8
  <1> QED BY <1>4, <1>9

-----------------------------------------------------------------------------
(* Calls, one after the other *)

LEMMA QueueTyped ==
    ASSUME NEW s, Sound(s)
    PROVE  s.queue \in Seq(Packet) /\ Len(s.queue) \in Nat /\ Len(s.queue) <= SendQueueSize
  <1>1. s.queue \in Seq(Packet)
    BY DEF Sound, SendTyped
  <1> QED BY <1>1 DEF Sound

\* How many packets are kept is a number.
LEMMA KeptFinite ==
    ASSUME NEW s
    PROVE  /\ KeptIn(s) \in SUBSET Keeps /\ IsFiniteSet(KeptIn(s))
           /\ Cardinality(KeptIn(s)) \in Nat
  <1>1. KeptIn(s) \in SUBSET Keeps
    BY DEF KeptIn
  <1> QED BY <1>1, KeepsFinite

LEMMA AdvancesTrans ==
    ASSUME NEW s, NodeSound(s), NEW t, Advances(s, t), NEW u, Advances(t, u)
    PROVE  Advances(s, u)
  <1>1. /\ Len(s.queue) \in Nat /\ Len(t.queue) \in Nat /\ Len(u.queue) \in Nat
        /\ Len(u.queue) <= SendQueueSize
    BY QueueTyped DEF NodeSound, NodeTyped, Advances
  <1>2. Lengthens(s, u)
    BY <1>1 DEF Advances, Lengthens
  <1>3. ASSUME NEW i \in KeptIn(s)
        PROVE  \/ u.keep[i] = s.keep[i]
               \/ Len(u.queue) = SendQueueSize
               \/ \E n \in (Len(s.queue) + 1)..Len(u.queue) : u.queue[n] = s.keep[i]
    <2>1. CASE t.keep[i] = s.keep[i]
      <3>1. i \in KeptIn(t)
        BY <2>1 DEF KeptIn
      <3>2. CASE \E n \in (Len(t.queue) + 1)..Len(u.queue) : u.queue[n] = t.keep[i]
        <4>1. \A n \in (Len(t.queue) + 1)..Len(u.queue) : n \in (Len(s.queue) + 1)..Len(u.queue)
          BY <1>1 DEF Advances, Lengthens
        <4> QED BY <2>1, <3>2, <4>1
      <3> QED BY <2>1, <3>1, <3>2 DEF Advances, Delivers
    <2>2. CASE Len(t.queue) = SendQueueSize
      BY <1>1, <2>2 DEF Advances, Lengthens
    <2>3. CASE \E n \in (Len(s.queue) + 1)..Len(t.queue) : t.queue[n] = s.keep[i]
      <3>1. PICK n \in (Len(s.queue) + 1)..Len(t.queue) : t.queue[n] = s.keep[i]
        BY <2>3
      <3>2. n \in 1..Len(t.queue) /\ n \in (Len(s.queue) + 1)..Len(u.queue)
        BY <1>1, <3>1 DEF Advances, Lengthens
      <3> QED BY <3>1, <3>2 DEF Advances, Lengthens
    <2> QED BY <2>1, <2>2, <2>3 DEF Advances, Delivers
  <1> QED BY <1>2, <1>3 DEF Advances, Delivers

\* The fields of the layers above, one by one.
LEMMA AboveFields ==
    ASSUME NEW s, NodeFields \subseteq DOMAIN s, NEW t, SameAbove(s, t)
    PROVE  /\ t.lastHop = s.lastHop /\ t.keep = s.keep /\ t.dft = s.dft /\ t.cft = s.cft
           /\ t.mode = s.mode /\ t.ndDue = s.ndDue /\ t.recvQ = s.recvQ
           /\ t.corePosted = s.corePosted /\ t.addr = s.addr /\ NodeFields \subseteq DOMAIN t
  BY DEF SameAbove, NodeFields, SendFields

\* Routes depend on the tables only.
LEMMA SameTables ==
    ASSUME NEW s, NEW t, t.dft = s.dft, t.cft = s.cft
    PROVE  \A p : HasRoute(t, p) <=> HasRoute(s, p)
  BY DEF HasRoute

\* A call of the sending layer that adds to the queue advances the node.
LEMMA LayerAdvances ==
    ASSUME NEW s, NodeSound(s), NEW t, Sound(t), Buffers(t) = Buffers(s),
           SameAbove(s, t), Lengthens(s, t), Genuine(t)
    PROVE  Advances(s, t)
  <1>1. /\ t.lastHop = s.lastHop /\ t.keep = s.keep /\ t.dft = s.dft /\ t.cft = s.cft
        /\ t.mode = s.mode /\ t.ndDue = s.ndDue /\ t.recvQ = s.recvQ
        /\ t.corePosted = s.corePosted /\ t.addr = s.addr /\ NodeFields \subseteq DOMAIN t
    BY AboveFields DEF NodeSound, NodeTyped
  <1>2. NodeTyped(t)
    BY <1>1 DEF NodeSound, NodeTyped
  <1>3. KeptIn(t) = KeptIn(s)
    BY <1>1 DEF KeptIn
  <1>4. Unroutable(t, KeptIn(t))
    BY <1>1, <1>3, SameTables DEF NodeSound, Unroutable
  <1>5. Load(t) = Load(s) /\ Delivers(s, t)
    BY <1>1, <1>3 DEF Load, Delivers
  <1> QED BY <1>1, <1>2, <1>4, <1>5 DEF NodeSound, Advances

LEMMA SubmitAdvances ==
    ASSUME NEW s, NodeSound(s), NEW p \in WellFormed
    PROVE  Advances(s, Submit(s, p))
  <1>1. Sound(s) /\ Genuine(s) /\ p \in Packet
    BY DEF NodeSound, NodeTyped, WellFormed
  <1> QED BY <1>1, SubmitSound, SubmitAdds, LayerAdvances

LEMMA NeighborReportAdvances ==
    ASSUME NEW s, NodeSound(s)
    PROVE  Advances(s, SendNeighborReport(s))
  <1>1. Sound(s) /\ Genuine(s)
    BY DEF NodeSound, NodeTyped
  <1> QED BY <1>1, SendNeighborReportSound, NeighborReportAdds, LayerAdvances

LEMMA AnswersAdvance ==
    ASSUME NEW s, NodeSound(s), NEW k, NEW seq
    PROVE  /\ Advances(s, RcvFlowReq(s, k)) /\ Advances(s, RcvAddrReq(s, k))
           /\ Advances(s, RcvAck(s, k, seq))
  <1>1. Sound(s) /\ Genuine(s)
    BY DEF NodeSound, NodeTyped
  <1>2. \A t \in {RcvFlowReq(s, k), RcvAddrReq(s, k), RcvAck(s, k, seq)} :
             SameAbove(s, t) /\ Lengthens(s, t) /\ Genuine(t)
    BY <1>1, AnswersAdd
  <1>3. \A t \in {RcvFlowReq(s, k), RcvAddrReq(s, k), RcvAck(s, k, seq)} :
             Sound(t) /\ Buffers(t) = Buffers(s)
    BY <1>1, RcvRequestSound, RcvAckSound
  <1> QED BY <1>2, <1>3, LayerAdvances

\* A change of a field that no part of the invariant but its type is about.
LEMMA NoteAdvances ==
    ASSUME NEW s, NodeSound(s), NEW t, DOMAIN t = DOMAIN s,
           \A f \in DOMAIN s \ {"mode", "ndDue", "nbrs"} : t[f] = s[f],
           t.mode \in {"AWAITING", "STEADY"}, t.ndDue \in BOOLEAN, t.nbrs \in BOOLEAN
    PROVE  Advances(s, t)
  <1>1. /\ t.lastHop = s.lastHop /\ t.keep = s.keep /\ t.dft = s.dft /\ t.cft = s.cft
        /\ t.recvQ = s.recvQ /\ t.corePosted = s.corePosted
        /\ t.addr = s.addr /\ t.free = s.free /\ t.queue = s.queue /\ t.status = s.status
        /\ t.posted = s.posted /\ t.air = s.air /\ t.trickle = s.trickle /\ t.retx = s.retx
        /\ t.seqNo = s.seqNo /\ t.locked = s.locked /\ t.slot = s.slot
        /\ t.slotCount = s.slotCount /\ NodeFields \subseteq DOMAIN t
        /\ SendFields \subseteq DOMAIN t
    BY DEF NodeSound, NodeTyped, NodeFields, SendFields
  <1>2. Sound(t) /\ Genuine(t)
    BY <1>1 DEF NodeSound, NodeTyped, Sound, SendTyped, DrivenOnce, WindowOK, Genuine
  <1>3. NodeTyped(t) /\ KeptIn(t) = KeptIn(s)
    BY <1>1, <1>2 DEF NodeSound, NodeTyped, KeptIn
  <1>4. Unroutable(t, KeptIn(t))
    BY <1>1, <1>3, SameTables DEF NodeSound, Unroutable
  <1>5. Load(t) = Load(s) /\ Delivers(s, t) /\ Lengthens(s, t)
    BY <1>1, <1>3, QueueTyped DEF NodeSound, NodeTyped, Load, Buffers, Delivers, Lengthens
  <1> QED BY <1>1, <1>3, <1>4, <1>5 DEF NodeSound, Advances

LEMMA NotesAdvance ==
    ASSUME NEW s, NodeSound(s), NEW b \in BOOLEAN
    PROVE  /\ Advances(s, s)
           /\ Advances(s, [s EXCEPT !.mode = "STEADY"])
           /\ Advances(s, [s EXCEPT !.ndDue = b])
           /\ Advances(s, [s EXCEPT !.nbrs = b])
  <1>1. /\ {"mode", "ndDue", "nbrs"} \subseteq DOMAIN s
        /\ s.mode \in {"AWAITING", "STEADY"} /\ s.ndDue \in BOOLEAN /\ s.nbrs \in BOOLEAN
    BY DEF NodeSound, NodeTyped, NodeFields, Sound, SendTyped, SendFields
  <1>2. Advances(s, s)
    BY <1>1, NoteAdvances
  <1>3. Advances(s, [s EXCEPT !.mode = "STEADY"])
    <2> DEFINE t == [s EXCEPT !.mode = "STEADY"]
    <2>1. /\ DOMAIN t = DOMAIN s /\ \A f \in DOMAIN s \ {"mode", "ndDue", "nbrs"} : t[f] = s[f]
          /\ t.mode = "STEADY" /\ t.ndDue = s.ndDue /\ t.nbrs = s.nbrs
      BY <1>1
    <2> HIDE DEF t
    <2> QED BY <1>1, <2>1, NoteAdvances DEF t
  <1>4. Advances(s, [s EXCEPT !.ndDue = b])
    <2> DEFINE t == [s EXCEPT !.ndDue = b]
    <2>1. /\ DOMAIN t = DOMAIN s /\ \A f \in DOMAIN s \ {"mode", "ndDue", "nbrs"} : t[f] = s[f]
          /\ t.mode = s.mode /\ t.ndDue = b /\ t.nbrs = s.nbrs
      BY <1>1
    <2> HIDE DEF t
    <2> QED BY <1>1, <2>1, NoteAdvances DEF t
  <1>5. Advances(s, [s EXCEPT !.nbrs = b])
    <2> DEFINE t == [s EXCEPT !.nbrs = b]
    <2>1. /\ DOMAIN t = DOMAIN s /\ \A f \in DOMAIN s \ {"mode", "ndDue", "nbrs"} : t[f] = s[f]
          /\ t.mode = s.mode /\ t.ndDue = s.ndDue /\ t.nbrs = b
      BY <1>1
    <2> HIDE DEF t
    <2> QED BY <1>1, <2>1, NoteAdvances DEF t
  <1> QED BY <1>2, <1>3, <1>4, <1>5

-----------------------------------------------------------------------------
(* Packets kept for want of a route *)

\* store_packet: the buffer goes from the pool to the array.
LEMMA StoreAdvances ==
    ASSUME NEW s, NodeSound(s), NEW p \in WellFormed, ~HasRoute(s, p)
    PROVE  Advances(s, StorePacket(s, p))
  <1>1. CASE EmptyKeeps(s) = {} \/ s.free = 0
    BY <1>1, NotesAdvance DEF StorePacket
  <1>2. CASE ~(EmptyKeeps(s) = {} \/ s.free = 0)
    <2> DEFINE i == Least(EmptyKeeps(s))
               t == StorePacket(s, p)
    <2>1. i \in Keeps /\ s.keep[i].type = "NONE"
      <3>1. EmptyKeeps(s) \in SUBSET Nat
        BY KeepsFinite DEF EmptyKeeps
      <3>2. i \in EmptyKeeps(s)
        BY <1>2, <3>1, LeastOf
      <3> QED BY <3>2 DEF EmptyKeeps
    <2>2. t = [s EXCEPT !.keep[i] = p, !.free = @ - 1]
      BY <1>2 DEF StorePacket
    <2> HIDE DEF i, t
    <2>3. NodeFields \subseteq DOMAIN s /\ NodeTyped(s) /\ s.free \in Nat \ {0}
      BY <1>2 DEF NodeSound, NodeTyped, Sound, SendTyped
    <2>4. /\ t.lastHop = s.lastHop /\ t.dft = s.dft /\ t.cft = s.cft /\ t.mode = s.mode
          /\ t.ndDue = s.ndDue /\ t.recvQ = s.recvQ /\ t.corePosted = s.corePosted
          /\ t.keep = [s.keep EXCEPT ![i] = p] /\ DOMAIN t = DOMAIN s
      BY <2>2, <2>3 DEF NodeFields, SendFields
    <2>5. /\ t.addr = s.addr /\ t.free = s.free - 1 /\ t.queue = s.queue
          /\ t.status = s.status /\ t.posted = s.posted /\ t.air = s.air
          /\ t.trickle = s.trickle /\ t.retx = s.retx /\ t.seqNo = s.seqNo
          /\ t.locked = s.locked /\ t.nbrs = s.nbrs /\ t.slot = s.slot
          /\ t.slotCount = s.slotCount
      BY <2>2, <2>3 DEF NodeFields, SendFields
    <2>6. Sound(t) /\ Genuine(t)
      BY <2>3, <2>4, <2>5 DEF NodeTyped, Sound, SendTyped, DrivenOnce, WindowOK, Genuine
    <2>7. /\ t.keep \in [Keeps -> WellFormed \union {NoPacket}] /\ t.keep[i] = p
          /\ \A j \in Keeps \ {i} : t.keep[j] = s.keep[j]
      BY <2>1, <2>3, <2>4 DEF NodeTyped
    <2>8. NodeTyped(t)
      BY <2>3, <2>4, <2>5, <2>6, <2>7 DEF NodeTyped
    <2>9. KeptIn(t) = KeptIn(s) \union {i} /\ i \notin KeptIn(s)
      BY <2>1, <2>7 DEF KeptIn, WellFormed
    <2>10. Cardinality(KeptIn(t)) = Cardinality(KeptIn(s)) + 1
      BY <2>9, KeptFinite, FS_AddElement
    <2>11. Load(t) = Load(s)
      <3>1. Len(s.queue) \in Nat
        BY <2>3, QueueTyped DEF NodeTyped
      <3> QED BY <2>3, <2>5, <2>10, <3>1, KeptFinite DEF Load, Buffers
    <2>12. Unroutable(t, KeptIn(t))
      <3>1. \A j \in KeptIn(s) : t.keep[j] = s.keep[j]
        BY <2>7, <2>9 DEF KeptIn
      <3> QED BY <2>4, <2>7, <2>9, <3>1, SameTables DEF NodeSound, Unroutable
    <2>13. Delivers(s, t)
      BY <2>7, <2>9 DEF Delivers, KeptIn
    <2>14. Lengthens(s, t)
      BY <2>3, <2>5, QueueTyped DEF NodeTyped, Lengthens
    <2> QED BY <2>4, <2>8, <2>11, <2>12, <2>13, <2>14 DEF NodeSound, Advances, t
  <1> QED BY <1>1, <1>2

\* What is kept is a packet.
LEMMA KeptWellFormed ==
    ASSUME NEW s, NodeTyped(s), NEW i \in KeptIn(s)
    PROVE  i \in Keeps /\ s.keep[i] \in WellFormed /\ s.keep[i] \in Packet
  <1>1. i \in Keeps /\ s.keep[i] \in WellFormed \union {NoPacket} /\ s.keep[i].type # "NONE"
    BY DEF NodeTyped, KeptIn
  <1> QED BY <1>1 DEF NoPacket, Make, WellFormed

\* Packets put behind the others, and the event that drives the queue.
LEMMA AppendedSound ==
    ASSUME NEW s, Sound(s), NEW q \in Seq(Packet), q # <<>>,
           NEW u, SendTyped(u), u.queue = s.queue \o q, Len(u.queue) <= SendQueueSize,
           u.status = s.status, u.posted = s.posted, u.air = s.air, u.trickle = s.trickle,
           u.retx = s.retx, u.slot = s.slot, u.slotCount = s.slotCount
    PROVE  /\ Sound(SendDownOnce(u)) /\ Buffers(SendDownOnce(u)) = Buffers(u)
           /\ s.status # "IDLE" => SendDownOnce(u) = u
  <1>1. WindowOK(u) /\ u.retx < MaxRetransmit
    BY DEF Sound, WindowOK
  <1>2. CASE s.status = "IDLE"
    <2>1. Resting(u)
      BY <1>1, <1>2 DEF Resting, Sound, DrivenOnce, SendTyped
    <2> QED BY <1>2, <2>1, WakeSound
  <1>3. CASE s.status # "IDLE"
    <2>1. SendDownOnce(u) = u
      BY <1>3 DEF SendDownOnce
    <2>2. s.queue \in Seq(Packet) /\ s.queue # <<>>
      BY <1>3 DEF Sound, SendTyped, DrivenOnce
    <2>3. Len(s.queue) \in Nat \ {0} /\ Len(q) \in Nat \ {0}
      BY <2>2
    <2>4. /\ u.queue \in Seq(Packet) /\ Len(u.queue) = Len(s.queue) + Len(q)
          /\ u.queue[1] = s.queue[1]
      <3>1. 1 \in 1..(Len(s.queue) + Len(q)) /\ 1 <= Len(s.queue)
        BY <2>3
      <3> QED BY <2>2, <3>1, ConcatProperties
    <2>5. u.queue # <<>> /\ Head(u.queue) = Head(s.queue)
      BY <2>2, <2>3, <2>4
    <2>6. DrivenOnce(u)
      BY <1>3, <2>2, <2>5 DEF Sound, DrivenOnce
    <2> QED BY <1>1, <2>1, <2>6 DEF Sound
  <1> QED BY <1>2, <1>3

\* sdn_solve_unknown_flow, sdn_solve_unknown_dest: the packets of S leave the
\* array, for the queue while it has room, for the pool when it has none.
LEMMA SolveAdvances ==
    ASSUME NEW s, NodeTyped(s), NEW S \in SUBSET KeptIn(s), Unroutable(s, KeptIn(s) \ S)
    PROVE  LET t == SolveUnknown(s, S) IN
           Advances(s, t) /\ t.dft = s.dft /\ t.cft = s.cft
  <1> DEFINE m == Moved(s, S)
             q == [n \in 1..m |-> s.keep[Nth(S, n)]]
             u == [s EXCEPT !.queue = @ \o q,
                            !.free  = @ + (Cardinality(S) - m),
                            !.keep  = [i \in Keeps |-> IF i \in S THEN NoPacket ELSE s.keep[i]]]
             t == SolveUnknown(s, S)
  <1>1. t = IF m = 0 THEN u ELSE SendDownOnce(u)
    BY DEF SolveUnknown
  <1>2. /\ s.queue \in Seq(Packet) /\ Len(s.queue) \in Nat /\ Len(s.queue) <= SendQueueSize
        /\ Sound(s) /\ NodeFields \subseteq DOMAIN s /\ s.free \in Nat
    BY QueueTyped DEF NodeTyped, Sound, SendTyped
  <1>3. S \in SUBSET Keeps /\ Cardinality(S) \in Nat
    BY KeepsFinite, KeptFinite
  <1>4. /\ m \in Nat /\ m <= Cardinality(S) /\ Len(s.queue) + m <= SendQueueSize
        /\ (m = Cardinality(S) \/ Len(s.queue) + m = SendQueueSize)
    BY <1>2, <1>3, SendAssumption DEF Moved, Room
  <1> HIDE DEF m
  <1>5. ASSUME NEW n \in 1..m PROVE Nth(S, n) \in S
    <2>1. n \in 1..Cardinality(S)
      BY <1>3, <1>4
    <2> QED BY <1>3, <2>1, NthExists
  <1>6. \A n \in 1..m : s.keep[Nth(S, n)] \in WellFormed /\ s.keep[Nth(S, n)] \in Packet
    BY <1>5, KeptWellFormed
  <1>7. /\ q \in Seq(Packet) /\ Len(q) = m
        /\ \A n \in 1..m : q[n] = s.keep[Nth(S, n)] /\ q[n] \in WellFormed
    BY <1>4, <1>6
  <1> HIDE DEF q
  <1> DEFINE l == s.queue \o q
  <1>8. /\ l \in Seq(Packet) /\ Len(l) = Len(s.queue) + m
        /\ \A n \in 1..Len(s.queue) : l[n] = s.queue[n]
        /\ \A n \in 1..m : l[Len(s.queue) + n] = q[n]
    <2>1. /\ l \in Seq(Packet) /\ Len(l) = Len(s.queue) + Len(q)
          /\ \A i \in 1..(Len(s.queue) + Len(q)) :
                l[i] = IF i <= Len(s.queue) THEN s.queue[i] ELSE q[i - Len(s.queue)]
      BY <1>2, <1>7, ConcatProperties
    <2> HIDE DEF l
    <2>2. \A n \in 1..Len(s.queue) : n \in 1..(Len(s.queue) + m) /\ n <= Len(s.queue)
      BY <1>2, <1>4
    <2>3. \A n \in 1..m : /\ Len(s.queue) + n \in 1..(Len(s.queue) + m)
                          /\ ~(Len(s.queue) + n <= Len(s.queue))
                          /\ (Len(s.queue) + n) - Len(s.queue) = n
      BY <1>2, <1>4
    <2> QED BY <1>7, <2>1, <2>2, <2>3
  <1>9. m = 0 => l = s.queue
    <2>1. m = 0 => q = <<>>
      BY <1>7
    <2> QED BY <1>2, <2>1, ConcatEmptySeq
  <1>10. /\ u.lastHop = s.lastHop /\ u.dft = s.dft /\ u.cft = s.cft /\ u.mode = s.mode
         /\ u.ndDue = s.ndDue /\ u.recvQ = s.recvQ /\ u.corePosted = s.corePosted
         /\ u.keep = [i \in Keeps |-> IF i \in S THEN NoPacket ELSE s.keep[i]]
         /\ DOMAIN u = DOMAIN s
    BY <1>2 DEF NodeFields, SendFields
  <1>11. /\ u.addr = s.addr /\ u.free = s.free + (Cardinality(S) - m) /\ u.queue = l
         /\ u.status = s.status /\ u.posted = s.posted /\ u.air = s.air
         /\ u.trickle = s.trickle /\ u.retx = s.retx /\ u.seqNo = s.seqNo
         /\ u.locked = s.locked /\ u.nbrs = s.nbrs /\ u.slot = s.slot
         /\ u.slotCount = s.slotCount
    BY <1>2 DEF NodeFields, SendFields
  <1> HIDE DEF l, u
  <1>12. SendTyped(u)
    <2>1. u.free \in Nat /\ SendFields \subseteq DOMAIN u
      BY <1>2, <1>3, <1>4, <1>10, <1>11 DEF NodeFields
    <2> QED BY <1>2, <1>8, <1>11, <2>1 DEF Sound, SendTyped
  <1>13. /\ Sound(t) /\ Buffers(t) = Buffers(u) /\ SameAbove(u, t)
         /\ t.queue = l /\ t.slot = s.slot /\ (s.status # "IDLE" => t.status = s.status)
    <2>1. CASE m = 0
      <3>1. t = u
        BY <1>1, <2>1
      <3>2. Sound(u)
        BY <1>2, <1>9, <1>11, <1>12, <2>1 DEF Sound, DrivenOnce, WindowOK
      <3> QED BY <1>11, <3>1, <3>2 DEF SameAbove
    <2>2. CASE m # 0
      <3>1. t = SendDownOnce(u)
        BY <1>1, <2>2
      <3>2. q # <<>> /\ Len(u.queue) <= SendQueueSize
        BY <1>4, <1>7, <1>8, <1>11, <2>2
      <3>3. /\ Sound(SendDownOnce(u)) /\ Buffers(SendDownOnce(u)) = Buffers(u)
            /\ s.status # "IDLE" => SendDownOnce(u) = u
        BY <1>2, <1>7, <1>11, <1>12, <3>2, AppendedSound DEF l
      <3>4. LET v == SendDownOnce(u) IN
            SameAbove(u, v) /\ v.queue = u.queue /\ v.slot = u.slot
            /\ (u.status # "IDLE" => v.status = u.status)
        BY <1>12, WakeLeaves
      <3> QED BY <1>11, <3>1, <3>3, <3>4
    <2> QED BY <2>1, <2>2
  <1> HIDE DEF t
  <1>14. /\ t.lastHop = s.lastHop /\ t.dft = s.dft /\ t.cft = s.cft /\ t.mode = s.mode
         /\ t.ndDue = s.ndDue /\ t.recvQ = s.recvQ /\ t.corePosted = s.corePosted
         /\ t.keep = [i \in Keeps |-> IF i \in S THEN NoPacket ELSE s.keep[i]]
         /\ t.addr = s.addr /\ NodeFields \subseteq DOMAIN t
    BY <1>2, <1>10, <1>11, <1>13, AboveFields
  <1>15. Genuine(t)
    <2>1. \A n \in 1..Len(l) : n \in 1..Len(s.queue) \/ \E k \in 1..m : n = Len(s.queue) + k
      <3>1. ASSUME NEW n \in 1..Len(l), n \notin 1..Len(s.queue)
            PROVE  n - Len(s.queue) \in 1..m /\ n = Len(s.queue) + (n - Len(s.queue))
        BY <1>2, <1>4, <1>8, <3>1
      <3> QED BY <3>1
    <2>2. \A n \in 1..Len(l) : l[n] \in WellFormed
      BY <1>7, <1>8, <2>1 DEF NodeTyped, Genuine
    <2> QED BY <1>13, <2>2 DEF NodeTyped, Genuine
  <1>16. /\ t.keep \in [Keeps -> WellFormed \union {NoPacket}]
         /\ \A i \in Keeps \ S : t.keep[i] = s.keep[i]
         /\ \A i \in S : t.keep[i] = NoPacket
    BY <1>3, <1>14 DEF NodeTyped
  <1>17. NodeTyped(t)
    BY <1>13, <1>14, <1>15, <1>16 DEF NodeTyped
  <1>18. KeptIn(t) = KeptIn(s) \ S
    BY <1>3, <1>16 DEF KeptIn, NoPacket, Make
  <1>19. Unroutable(t, KeptIn(t))
    <2>1. \A i \in KeptIn(t) : t.keep[i] = s.keep[i]
      BY <1>16, <1>18 DEF KeptIn
    <2> QED BY <1>14, <1>18, <2>1, SameTables DEF Unroutable
  <1>20. Load(t) = Load(s)
    <2>1. Cardinality(KeptIn(t)) = Cardinality(KeptIn(s)) - Cardinality(S)
      <3>1. KeptIn(s) \cap S = S
        OBVIOUS
      <3> QED BY <1>18, <3>1, KeptFinite, FS_Difference
    <2>2. Buffers(t) = (s.free + (Cardinality(S) - m)) + (Len(s.queue) + m)
      BY <1>8, <1>11, <1>13 DEF Buffers
    <2>3. Buffers(s) = s.free + Len(s.queue) /\ Cardinality(KeptIn(s)) \in Nat
      BY KeptFinite DEF Buffers
    <2> QED BY <1>2, <1>3, <1>4, <2>1, <2>2, <2>3 DEF Load
  <1>21. Lengthens(s, t)
    BY <1>2, <1>4, <1>8, <1>13 DEF Lengthens
  <1>22. Delivers(s, t)
    <2> SUFFICES ASSUME NEW i \in KeptIn(s), t.keep[i] # s.keep[i],
                        Len(t.queue) # SendQueueSize
                 PROVE  \E n \in (Len(s.queue) + 1)..Len(t.queue) : t.queue[n] = s.keep[i]
      BY DEF Delivers
    <2>1. i \in S
      BY <1>16 DEF KeptIn
    <2>2. m = Cardinality(S)
      BY <1>4, <1>8, <1>13
    <2>3. PICK n \in 1..m : Nth(S, n) = i
      BY <1>3, <2>1, <2>2, NthOnto
    <2>4. l[Len(s.queue) + n] = s.keep[i]
      BY <1>7, <1>8, <2>3
    <2>5. Len(s.queue) + n \in (Len(s.queue) + 1)..Len(t.queue)
      BY <1>2, <1>4, <1>8, <1>13
    <2> QED BY <1>13, <2>4, <2>5
  <1> QED BY <1>14, <1>17, <1>19, <1>20, <1>21, <1>22 DEF NodeSound, Advances, t

-----------------------------------------------------------------------------
(* New routes *)

\* sdn_dataflow_insert: the packets that wait for the flow are those that the
\* new route would leave without reason to wait.
LEMMA InsertDataAdvances ==
    ASSUME NEW s, NodeSound(s), NEW k \in Flows, NEW h \in Addrs, NEW a \in Actions
    PROVE  Advances(s, InsertDataFlow(s, k, h, a))
  <1>1. CASE ~CanInsert(s.dft, k)
    BY <1>1, NotesAdvance DEF InsertDataFlow
  <1>2. CASE CanInsert(s.dft, k)
    <2> DEFINE b == StoredAction(s.addr, h, a, {"FORWARD"})
               d == TableInsert(s.dft, k, h, b)
               u == [s EXCEPT !.dft = d]
               W == Waiting(s, ByFlow, k)
               t == InsertDataFlow(s, k, h, a)
    <2>1. t = SolveUnknown(u, W)
      BY <1>2 DEF InsertDataFlow
    <2>2. b \in Actions
      BY DEF StoredAction, Actions
    <2>3. TableSound(s.dft, Flows \union {None}, {ControllerFlow}) /\ NodeTyped(s)
          /\ NodeFields \subseteq DOMAIN s
      BY DEF NodeSound, NodeTyped
    <2> HIDE DEF b
    <2>4. /\ TableSound(d, Flows \union {None}, {ControllerFlow})
          /\ Has(s.dft, ControllerFlow) => Has(d, ControllerFlow)
          /\ \A j : Has(d, j) => j = k \/ Has(s.dft, j)
      BY <2>2, <2>3, InsertKeeps
    <2> HIDE DEF d
    <2>5. /\ u.lastHop = s.lastHop /\ u.keep = s.keep /\ u.cft = s.cft /\ u.mode = s.mode
          /\ u.ndDue = s.ndDue /\ u.recvQ = s.recvQ /\ u.corePosted = s.corePosted
          /\ u.dft = d /\ DOMAIN u = DOMAIN s
      BY <2>3 DEF NodeFields, SendFields
    <2>6. /\ u.addr = s.addr /\ u.free = s.free /\ u.queue = s.queue /\ u.status = s.status
          /\ u.posted = s.posted /\ u.air = s.air /\ u.trickle = s.trickle
          /\ u.retx = s.retx /\ u.seqNo = s.seqNo /\ u.locked = s.locked
          /\ u.nbrs = s.nbrs /\ u.slot = s.slot /\ u.slotCount = s.slotCount
      BY <2>3 DEF NodeFields, SendFields
    <2> HIDE DEF u, t
    <2>7. Sound(u) /\ Genuine(u)
      BY <2>3, <2>5, <2>6 DEF NodeTyped, Sound, SendTyped, DrivenOnce, WindowOK, Genuine
    <2>8. NodeTyped(u) /\ KeptIn(u) = KeptIn(s)
      BY <2>3, <2>4, <2>5, <2>6, <2>7 DEF NodeTyped, KeptIn
    <2>9. W \in SUBSET KeptIn(u)
      BY <2>8 DEF Waiting, ByFlow, KeptIn
    <2>10. Unroutable(u, KeptIn(u) \ W)
      <3> SUFFICES ASSUME NEW i \in KeptIn(s) \ W PROVE ~HasRoute(u, s.keep[i])
        BY <2>5, <2>8 DEF Unroutable
      <3>1. ~HasRoute(s, s.keep[i]) /\ i \in Keeps
        BY DEF NodeSound, Unroutable, KeptIn
      <3>2. s.keep[i].type \in ByFlow => s.keep[i].to # k
        BY <3>1 DEF Waiting
      <3> QED BY <2>4, <2>5, <3>1, <3>2 DEF HasRoute
    <2> HIDE DEF W
    <2>11. Advances(u, t) /\ t.dft = u.dft
      BY <2>1, <2>8, <2>9, <2>10, SolveAdvances
    <2>12. Load(u) = Load(s)
      BY <2>6, <2>8 DEF Load, Buffers
    <2>13. Delivers(s, t) /\ Lengthens(s, t)
      BY <2>5, <2>6, <2>8, <2>11 DEF Advances, Delivers, Lengthens
    <2> QED BY <2>4, <2>5, <2>11, <2>12, <2>13 DEF Advances, t
  <1> QED BY <1>1, <1>2

\* sdn_controlflow_insert
LEMMA InsertControlAdvances ==
    ASSUME NEW s, NodeSound(s), NEW k \in Addrs, NEW h \in Addrs, NEW a \in Actions
    PROVE  Advances(s, InsertControlFlow(s, k, h, a))
  <1>1. CASE ~CanInsert(s.cft, k)
    BY <1>1, NotesAdvance DEF InsertControlFlow
  <1>2. CASE CanInsert(s.cft, k)
    <2> DEFINE b == StoredAction(s.addr, h, a, Actions)
               d == TableInsert(s.cft, k, h, b)
               u == [s EXCEPT !.cft = d]
               W == Waiting(s, ByAddress, k)
               t == InsertControlFlow(s, k, h, a)
    <2>1. t = SolveUnknown(u, W)
      BY <1>2 DEF InsertControlFlow
    <2>2. b \in Actions
      BY DEF StoredAction, Actions
    <2>3. TableSound(s.cft, Addrs \union {None}, {}) /\ NodeTyped(s)
          /\ NodeFields \subseteq DOMAIN s
      BY DEF NodeSound, NodeTyped
    <2> HIDE DEF b
    <2>4. /\ TableSound(d, Addrs \union {None}, {})
          /\ \A j : Has(d, j) => j = k \/ Has(s.cft, j)
      <3> DEFINE keys == Addrs \union {None}
                 spared == {}
      <3>1. TableSound(s.cft, keys, spared) /\ k \in keys
        BY <2>3
      <3> HIDE DEF keys, spared
      <3>2. TableSound(d, keys, spared) /\ \A j : Has(d, j) => j = k \/ Has(s.cft, j)
        BY <2>2, <3>1, InsertKeeps
      <3> QED BY <3>2 DEF keys, spared
    <2> HIDE DEF d
    <2>5. /\ u.lastHop = s.lastHop /\ u.keep = s.keep /\ u.dft = s.dft /\ u.mode = s.mode
          /\ u.ndDue = s.ndDue /\ u.recvQ = s.recvQ /\ u.corePosted = s.corePosted
          /\ u.cft = d /\ DOMAIN u = DOMAIN s
      BY <2>3 DEF NodeFields, SendFields
    <2>6. /\ u.addr = s.addr /\ u.free = s.free /\ u.queue = s.queue /\ u.status = s.status
          /\ u.posted = s.posted /\ u.air = s.air /\ u.trickle = s.trickle
          /\ u.retx = s.retx /\ u.seqNo = s.seqNo /\ u.locked = s.locked
          /\ u.nbrs = s.nbrs /\ u.slot = s.slot /\ u.slotCount = s.slotCount
      BY <2>3 DEF NodeFields, SendFields
    <2> HIDE DEF u, t
    <2>7. Sound(u) /\ Genuine(u)
      BY <2>3, <2>5, <2>6 DEF NodeTyped, Sound, SendTyped, DrivenOnce, WindowOK, Genuine
    <2>8. NodeTyped(u) /\ KeptIn(u) = KeptIn(s)
      BY <2>3, <2>4, <2>5, <2>6, <2>7 DEF NodeTyped, KeptIn
    <2>9. W \in SUBSET KeptIn(u)
      BY <2>8 DEF Waiting, ByAddress, KeptIn
    <2>10. Unroutable(u, KeptIn(u) \ W)
      <3> SUFFICES ASSUME NEW i \in KeptIn(s) \ W PROVE ~HasRoute(u, s.keep[i])
        BY <2>5, <2>8 DEF Unroutable
      <3>1. ~HasRoute(s, s.keep[i]) /\ i \in Keeps
        BY DEF NodeSound, Unroutable, KeptIn
      <3>2. s.keep[i].type \in ByAddress => s.keep[i].to # k
        BY <3>1 DEF Waiting
      <3> QED BY <2>4, <2>5, <3>1, <3>2 DEF HasRoute
    <2> HIDE DEF W
    <2>11. Advances(u, t)
      BY <2>1, <2>8, <2>9, <2>10, SolveAdvances
    <2>12. Load(u) = Load(s)
      BY <2>6, <2>8 DEF Load, Buffers
    <2>13. Delivers(s, t) /\ Lengthens(s, t)
      BY <2>5, <2>6, <2>8, <2>11 DEF Advances, Delivers, Lengthens
    <2> QED BY <2>5, <2>11, <2>12, <2>13 DEF Advances, t
  <1> QED BY <1>1, <1>2

\* sdn_unknown_flow, sdn_unknown_dest
LEMMA UnknownRouteAdvances ==
    ASSUME NEW s, NodeSound(s), NEW p \in WellFormed, ~HasRoute(s, p),
           NEW request \in {"CONTROL_REQUEST", "DATA_REQUEST"}
    PROVE  Advances(s, UnknownRoute(s, p, request))
  <1> DEFINE t == StorePacket(s, p)
             r == MakeRequest(request, t.addr, p.to)
  <1>1. Advances(s, t)
    BY StoreAdvances
  <1> HIDE DEF t
  <1>2. NodeSound(t) /\ t.addr = Node /\ Node \in Addrs
    BY <1>1, SdnNodeAssumption DEF Advances, NodeSound, NodeTyped
  <1>3. p.to \in Addrs \union Flows
    BY DEF WellFormed, Packet, Types, HasRoute
  <1>4. r \in WellFormed
    BY <1>2, <1>3, OwnPacketsWellFormed
  <1>5. Advances(t, Submit(t, r))
    BY <1>2, <1>4, SubmitAdvances
  <1>6. Advances(s, Submit(t, r))
    BY <1>1, <1>5, AdvancesTrans
  <1> QED BY <1>1, <1>6 DEF UnknownRoute, t

-----------------------------------------------------------------------------
(* The treatment of a packet *)

\* nd_event
LEMMA NdEventAdvances ==
    ASSUME NEW s, NodeSound(s)
    PROVE  Advances(s, NdEvent(s))
  BY NeighborReportAdvances, NotesAdvance DEF NdEvent

\* cd_event
LEMMA CdEventAdvances ==
    ASSUME NEW s, NodeSound(s), NEW hop \in Addrs
    PROVE  Advances(s, CdEvent(s, hop))
  <1> DEFINE a == [s EXCEPT !.mode = "STEADY"]
             t == InsertDataFlow(a, ControllerFlow, hop, "FORWARD")
             u == [t EXCEPT !.ndDue = FALSE]
  <1>1. Advances(s, a) /\ NodeSound(a)
    BY NotesAdvance DEF Advances
  <1> HIDE DEF a
  <1>2. Advances(a, t) /\ NodeSound(t)
    BY <1>1, PacketsAssumption, InsertDataAdvances DEF Actions, Advances
  <1> HIDE DEF t
  <1>3. Advances(s, t)
    BY <1>1, <1>2, AdvancesTrans
  <1>4. Advances(t, u) /\ NodeSound(u)
    BY <1>2, NotesAdvance DEF Advances
  <1> HIDE DEF u
  <1>5. Advances(u, SendNeighborReport(u))
    BY <1>4, NeighborReportAdvances
  <1>6. Advances(s, SendNeighborReport(u))
    BY <1>2, <1>3, <1>4, <1>5, AdvancesTrans
  <1> QED BY <1>3, <1>6 DEF CdEvent, a, t, u

\* A setup carries what a table can hold, and its acknowledgement is a packet.
LEMMA SetupTyped ==
    ASSUME NEW s, NodeSound(s), NEW p \in WellFormed,
           p.type \in ControlSetups \union DataSetups
    PROVE  /\ p.hop \in Addrs /\ p.act \in Actions
           /\ p.type \in ControlSetups => p.key \in Addrs
           /\ p.type \in DataSetups => p.key \in Flows
           /\ \A t \in {"CONTROL_SETUP", "DATA_SETUP"} :
                 MakeSetupAck(s.addr, t, p.key, p.hop) \in WellFormed
  <1>1. /\ p.hop \in Addrs /\ p.act \in Actions
        /\ p.type \in ControlSetups => p.key \in Addrs
        /\ p.type \in DataSetups => p.key \in Flows
    BY DEF WellFormed, Actions
  <1>2. s.addr \in Addrs /\ p.key \in Addrs \union Flows
    BY <1>1, SdnNodeAssumption DEF NodeSound, NodeTyped
  <1>3. {"CONTROL_SETUP", "DATA_SETUP"} \subseteq ControlSetups \union DataSetups
    BY DEF ControlSetups, DataSetups
  <1> QED BY <1>1, <1>2, <1>3, OwnPacketsWellFormed

LEMMA TreatControlFlowSetupAdvances ==
    ASSUME NEW s, NodeSound(s), NEW p \in WellFormed, p.type \in ControlSetups
    PROVE  Advances(s, TreatControlFlowSetup(s, p))
  <1> DEFINE a == InsertControlFlow(s, p.key, p.hop, p.act)
             b == RcvAddrReq(a, p.key)
             r == MakeSetupAck(s.addr, "CONTROL_SETUP", p.key, p.hop)
  <1>1. p.key \in Addrs /\ p.hop \in Addrs /\ p.act \in Actions /\ r \in WellFormed
    BY SetupTyped
  <1>2. Advances(s, a) /\ NodeSound(a)
    BY <1>1, InsertControlAdvances DEF Advances
  <1> HIDE DEF a, r
  <1>3. Advances(a, b) /\ NodeSound(b)
    BY <1>2, AnswersAdvance DEF Advances
  <1> HIDE DEF b
  <1>4. Advances(b, Submit(b, r))
    BY <1>1, <1>3, SubmitAdvances
  <1>5. Advances(s, b)
    BY <1>2, <1>3, AdvancesTrans
  <1>6. Advances(s, Submit(b, r))
    BY <1>4, <1>5, AdvancesTrans
  <1> QED BY <1>6 DEF TreatControlFlowSetup, a, b, r

LEMMA TreatDataFlowSetupAdvances ==
    ASSUME NEW s, NodeSound(s), NEW p \in WellFormed, p.type \in DataSetups
    PROVE  Advances(s, TreatDataFlowSetup(s, p))
  <1> DEFINE r == MakeSetupAck(s.addr, "DATA_SETUP", p.key, p.hop)
             a == RcvFlowReq(s, p.key)
             b == Submit(a, r)
             t == InsertDataFlow(b, p.key, p.hop, p.act)
             u == [t EXCEPT !.mode = "STEADY"]
  <1>1. p.key \in Flows /\ p.hop \in Addrs /\ p.act \in Actions /\ r \in WellFormed
    BY SetupTyped
  <1>2. Advances(s, a) /\ NodeSound(a)
    BY AnswersAdvance DEF Advances
  <1> HIDE DEF a, r
  <1>3. Advances(a, b) /\ NodeSound(b)
    BY <1>1, <1>2, SubmitAdvances DEF Advances
  <1> HIDE DEF b
  <1>4. Advances(b, t) /\ NodeSound(t)
    BY <1>1, <1>3, InsertDataAdvances DEF Advances
  <1> HIDE DEF t
  <1>5. Advances(s, b)
    BY <1>2, <1>3, AdvancesTrans
  <1>6. Advances(s, t)
    BY <1>4, <1>5, AdvancesTrans
  <1>7. Advances(t, u) /\ NodeSound(u)
    BY <1>4, NotesAdvance DEF Advances
  <1> HIDE DEF u
  <1>8. Advances(u, SendNeighborReport(u))
    BY <1>7, NeighborReportAdvances
  <1>9. Advances(s, u)
    BY <1>6, <1>7, AdvancesTrans
  <1>10. Advances(s, SendNeighborReport(u))
    BY <1>8, <1>9, AdvancesTrans
  <1> QED BY <1>6, <1>10 DEF TreatDataFlowSetup, a, b, r, t, u

\* What goes on along a source route, or by address from its end, is a packet.
LEMMA NextAlongPathWellFormed ==
    ASSUME NEW p \in WellFormed, p.type \in BySource, p.path # <<>>
    PROVE  NextAlongPath(p) \in WellFormed
  <1> DEFINE n == p.path[Len(p.path)]
             r == SubSeq(p.path, 1, Len(p.path) - 1)
             q == NextAlongPath(p)
  <1>1. p \in Packet /\ p.path \in Seq(Addrs)
    BY DEF WellFormed, Packet
  <1>2. n \in Addrs /\ r \in Seq(Addrs)
    BY <1>1
  <1>3. q = [p EXCEPT !.to = n, !.path = r]
    BY DEF NextAlongPath, Packet, WellFormed
  <1> HIDE DEF n, r, q
  <1>4. /\ q \in Packet /\ q.type = p.type /\ q.to = n /\ q.real = p.real /\ q.key = p.key
        /\ q.hop = p.hop /\ q.act = p.act
    BY <1>1, <1>2, <1>3 DEF Packet
  <1>5. q.type \notin ByFlow
    BY <1>4 DEF ByFlow, BySource
  <1> QED BY <1>2, <1>4, <1>5 DEF WellFormed, q

LEMMA ByAddressCopyWellFormed ==
    ASSUME NEW p \in WellFormed
    PROVE  /\ p.type = "SRC_CONTROL_SETUP" => ByAddressCopy(p, "CONTROL_SETUP") \in WellFormed
           /\ p.type = "SRC_DATA_SETUP" => ByAddressCopy(p, "DATA_SETUP") \in WellFormed
  <1>1. ASSUME NEW type \in {"CONTROL_SETUP", "DATA_SETUP"}, p.type \in BySource,
               type \in DataSetups <=> p.type \in DataSetups,
               type \in ControlSetups <=> p.type \in ControlSetups
        PROVE  ByAddressCopy(p, type) \in WellFormed
    <2> DEFINE q == ByAddressCopy(p, type)
    <2>1. p \in Packet /\ p.real \in Addrs /\ type \in Types
      BY <1>1 DEF WellFormed, Types, ByAddress
    <2>2. /\ q \in Packet /\ q.type = type /\ q.to = p.real /\ q.key = p.key
          /\ q.hop = p.hop /\ q.act = p.act
      BY <2>1 DEF ByAddressCopy, Packet
    <2> HIDE DEF q
    <2>3. q.type \notin ByFlow \union BySource \union {"NONE", "CD"}
      BY <2>2 DEF ByFlow, BySource
    <2> QED BY <1>1, <2>1, <2>2, <2>3 DEF WellFormed, q
  <1> QED BY <1>1 DEF BySource, DataSetups, ControlSetups

\* treat_src_routed_control_flow_setup, _data_flow_setup and _ack
LEMMA TreatSourceRoutedAdvances ==
    ASSUME NEW s, NodeSound(s), NEW p \in WellFormed, p.type \in BySource
    PROVE  Advances(s, TreatSourceRouted(s, p))
  <1>1. CASE p.path # <<>>
    BY <1>1, NextAlongPathWellFormed, SubmitAdvances DEF TreatSourceRouted
  <1>2. CASE p.path = <<>> /\ p.type = "SRC_CONTROL_SETUP"
    <2>1. p.type \in ControlSetups
      BY <1>2 DEF ControlSetups
    <2>2. Advances(s, Submit(s, ByAddressCopy(p, "CONTROL_SETUP")))
      BY <1>2, ByAddressCopyWellFormed, SubmitAdvances
    <2> QED BY <1>2, <2>1, <2>2, TreatControlFlowSetupAdvances DEF TreatSourceRouted
  <1>3. CASE p.path = <<>> /\ p.type = "SRC_DATA_SETUP"
    <2>1. p.type \in DataSetups
      BY <1>3 DEF DataSetups
    <2>2. Advances(s, Submit(s, ByAddressCopy(p, "DATA_SETUP")))
      BY <1>3, ByAddressCopyWellFormed, SubmitAdvances
    <2> QED BY <1>3, <2>1, <2>2, TreatDataFlowSetupAdvances DEF TreatSourceRouted
  <1>4. CASE p.path = <<>> /\ p.type = "SRC_ACK"
    BY <1>4, AnswersAdvance, NotesAdvance DEF TreatSourceRouted
  <1> QED BY <1>1, <1>2, <1>3, <1>4 DEF BySource

\* SDN_ND.input, SDN_CD.input
LEMMA TreatDiscoveryAdvances ==
    ASSUME NEW s, NodeSound(s), NEW p \in WellFormed, p.type \in NotRouted
    PROVE  Advances(s, TreatDiscovery(s, p))
  <1>1. CASE p.act # "NEW"
    BY <1>1, NotesAdvance DEF TreatDiscovery
  <1>2. CASE p.act = "NEW" /\ p.type = "ND"
    <2> DEFINE t == [s EXCEPT !.nbrs = TRUE]
    <2>1. Advances(s, t) /\ NodeSound(t)
      BY NotesAdvance DEF Advances
    <2> HIDE DEF t
    <2>2. Advances(s, NdEvent(t))
      BY <2>1, NdEventAdvances, AdvancesTrans
    <2> QED BY <1>2, <2>2 DEF TreatDiscovery, t
  <1>3. CASE p.act = "NEW" /\ p.type = "CD"
    <2>1. p.hop \in Addrs
      BY <1>3 DEF WellFormed
    <2> QED BY <1>3, <2>1, CdEventAdvances DEF TreatDiscovery
  <1> QED BY <1>1, <1>2, <1>3 DEF NotRouted

\* sdn_execute_action_receive
LEMMA ExecuteReceiveAdvances ==
    ASSUME NEW s, NodeSound(s), NEW p \in WellFormed
    PROVE  Advances(s, ExecuteReceive(s, p))
  <1>1. CASE p.type = "CONTROL_SETUP"
    <2>1. ExecuteReceive(s, p) = TreatControlFlowSetup(s, p)
      BY <1>1 DEF ExecuteReceive, BySource, NotRouted
    <2> QED BY <1>1, <2>1, TreatControlFlowSetupAdvances DEF ControlSetups
  <1>2. CASE p.type = "DATA_SETUP"
    <2>1. ExecuteReceive(s, p) = TreatDataFlowSetup(s, p)
      BY <1>2 DEF ExecuteReceive, BySource, NotRouted
    <2> QED BY <1>2, <2>1, TreatDataFlowSetupAdvances DEF DataSetups
  <1>3. CASE p.type = "ACK_BY_ADDRESS"
    <2>1. ExecuteReceive(s, p) = RcvAck(s, p.act, p.ack)
      BY <1>3 DEF ExecuteReceive, BySource, NotRouted
    <2> QED BY <2>1, AnswersAdvance
  <1>4. CASE p.type \in BySource
    <2>1. ExecuteReceive(s, p) = TreatSourceRouted(s, p)
      BY <1>4 DEF ExecuteReceive, BySource, NotRouted
    <2> QED BY <1>4, <2>1, TreatSourceRoutedAdvances
  <1>5. CASE p.type \in NotRouted
    <2>1. ExecuteReceive(s, p) = TreatDiscovery(s, p)
      BY <1>5 DEF ExecuteReceive, NotRouted, BySource
    <2> QED BY <1>5, <2>1, TreatDiscoveryAdvances
  <1>6. CASE p.type \notin {"CONTROL_SETUP", "DATA_SETUP", "ACK_BY_ADDRESS"}
                            \union BySource \union NotRouted
    <2>1. ExecuteReceive(s, p) = s
      BY <1>6 DEF ExecuteReceive
    <2> QED BY <2>1, NotesAdvance
  <1> QED BY <1>1, <1>2, <1>3, <1>4, <1>5, <1>6

\* sdn_treat_packet
LEMMA TreatPacketAdvances ==
    ASSUME NEW s, NodeSound(s), NEW p \in WellFormed
    PROVE  Advances(s, TreatPacket(s, p))
  <1>1. CASE ~HasRoute(s, p)
    BY <1>1, UnknownRouteAdvances DEF TreatPacket
  <1>2. CASE HasRoute(s, p)
    BY <1>2, ExecuteReceiveAdvances, NotesAdvance DEF TreatPacket
  <1> QED BY <1>1, <1>2

\* The next hop of a packet to forward is an address or the broadcast one.
LEMMA RouteTyped ==
    ASSUME NEW s, NodeSound(s), NEW p \in WellFormed, HasRoute(s, p)
    PROVE  Route(s, p).hop \in Addrs \union {Broadcast}
  <1>1. /\ s.dft \in Table(Flows \union {None}, Addrs)
        /\ s.cft \in Table(Addrs \union {None}, Addrs)
    BY DEF NodeSound, NodeTyped, TableSound
  <1>2. CASE p.type \in ByFlow
    <2>1. Has(s.dft, p.to)
      BY <1>2 DEF HasRoute, ByFlow, ByAddress, BySource, NotRouted
    <2>2. Get(s.dft, p.to).hop \in Addrs
      BY <1>1, <2>1, GetTyped
    <2>3. Route(s, p) = RouteTo(Get(s.dft, p.to).hop, Get(s.dft, p.to).act)
      BY <1>2 DEF Route, ByFlow, ByAddress, BySource, NotRouted
    <2> QED BY <2>2, <2>3 DEF RouteTo
  <1>3. CASE p.type \in ByAddress
    <2>1. Has(s.cft, p.to)
      BY <1>3 DEF HasRoute, ByFlow, ByAddress, BySource, NotRouted
    <2>2. Get(s.cft, p.to).hop \in Addrs
      BY <1>1, <2>1, GetTyped
    <2>3. Route(s, p) = RouteTo(Get(s.cft, p.to).hop, Get(s.cft, p.to).act)
      BY <1>3 DEF Route, ByFlow, ByAddress, BySource, NotRouted
    <2> QED BY <2>2, <2>3 DEF RouteTo
  <1>4. CASE p.type \in BySource
    <2>1. p.to \in Addrs
      BY <1>4 DEF WellFormed
    <2>2. Route(s, p) = RouteTo(p.to, IF p.to = s.addr THEN "RECEIVE" ELSE "FORWARD")
      BY <1>4 DEF Route, ByFlow, ByAddress, BySource, NotRouted
    <2> QED BY <2>1, <2>2 DEF RouteTo
  <1>5. CASE p.type \in NotRouted
    <2>1. Route(s, p) = RouteTo(Broadcast, IF IsOwn(s, p) THEN "FORWARD" ELSE "RECEIVE")
      BY <1>5 DEF Route, ByFlow, ByAddress, BySource, NotRouted
    <2> QED BY <2>1 DEF RouteTo
  <1> QED BY <1>2, <1>3, <1>4, <1>5 DEF HasRoute

-----------------------------------------------------------------------------
(* Events *)

\* A handler that is one call, or several, of the kind above.
LEMMA AdvancesSteps ==
    ASSUME NEW s, Whole(s), NEW t, Advances(s, t)
    PROVE  Steps(s, t)
  <1>1. Len(s.queue) \in Nat /\ Len(t.queue) \in Nat
    BY QueueTyped DEF Whole, NodeSound, NodeTyped, Advances
  <1>2. ASSUME NEW i \in KeptIn(s), t.keep[i] = NoPacket
        PROVE  Len(t.queue) = SendQueueSize \/ \E n \in 1..Len(t.queue) : t.queue[n] = s.keep[i]
    <2>1. t.keep[i] # s.keep[i]
      BY <1>2 DEF KeptIn, NoPacket, Make
    <2>2. \A n \in (Len(s.queue) + 1)..Len(t.queue) : n \in 1..Len(t.queue)
      BY <1>1
    <2> QED BY <2>1, <2>2 DEF Advances, Delivers
  <1> QED BY <1>2 DEF Whole, Advances, Steps, Released

\* The layers above do not see what the sending layer does to its own fields.
LEMMA LayerSound ==
    ASSUME NEW s, NodeSound(s), NEW t, Sound(t), SameAbove(s, t), Genuine(t)
    PROVE  /\ NodeSound(t) /\ KeptIn(t) = KeptIn(s)
           /\ t.lastHop = s.lastHop /\ t.keep = s.keep /\ t.dft = s.dft /\ t.cft = s.cft
           /\ t.recvQ = s.recvQ /\ t.corePosted = s.corePosted
  <1>1. /\ t.lastHop = s.lastHop /\ t.keep = s.keep /\ t.dft = s.dft /\ t.cft = s.cft
        /\ t.mode = s.mode /\ t.ndDue = s.ndDue /\ t.recvQ = s.recvQ
        /\ t.corePosted = s.corePosted /\ t.addr = s.addr /\ NodeFields \subseteq DOMAIN t
    BY AboveFields DEF NodeSound, NodeTyped
  <1>2. NodeTyped(t)
    BY <1>1 DEF NodeSound, NodeTyped
  <1>3. KeptIn(t) = KeptIn(s)
    BY <1>1 DEF KeptIn
  <1> QED BY <1>1, <1>2, <1>3, SameTables DEF NodeSound, Unroutable

\* An event that concerns the sending layer alone.
LEMMA LayerSteps ==
    ASSUME NEW s, Whole(s), NEW t, Sound(t), SameAbove(s, t), Genuine(t),
           Buffers(t) = Buffers(s)
    PROVE  Steps(s, t) /\ NodeSound(t) /\ t.keep = s.keep
  <1>1. /\ NodeSound(t) /\ KeptIn(t) = KeptIn(s) /\ t.keep = s.keep /\ t.dft = s.dft
        /\ t.recvQ = s.recvQ /\ t.corePosted = s.corePosted
    BY LayerSound DEF Whole
  <1>2. Load(t) = Load(s)
    BY <1>1 DEF Load
  <1>3. Released(s, t)
    BY <1>1 DEF Released, KeptIn, NoPacket, Make
  <1> QED BY <1>1, <1>2, <1>3 DEF Whole, Steps

\* A change of the receive queue, its event and the free buffers.
LEMMA ReceiveSideSound ==
    ASSUME NEW s, NodeSound(s), NEW t, DOMAIN t = DOMAIN s,
           \A f \in DOMAIN s \ {"free", "recvQ", "corePosted"} : t[f] = s[f],
           t.free \in Nat
    PROVE  /\ NodeSound(t) /\ KeptIn(t) = KeptIn(s) /\ t.keep = s.keep /\ t.dft = s.dft
           /\ t.queue = s.queue /\ Len(s.queue) \in Nat /\ s.free \in Nat
           /\ Load(t) = (Load(s) - s.free) + t.free /\ Load(s) \in Nat
  <1>1. /\ t.lastHop = s.lastHop /\ t.keep = s.keep /\ t.dft = s.dft /\ t.cft = s.cft
        /\ t.mode = s.mode /\ t.ndDue = s.ndDue /\ t.nbrs = s.nbrs
        /\ t.addr = s.addr /\ t.queue = s.queue /\ t.status = s.status
        /\ t.posted = s.posted /\ t.air = s.air /\ t.trickle = s.trickle /\ t.retx = s.retx
        /\ t.seqNo = s.seqNo /\ t.locked = s.locked /\ t.slot = s.slot
        /\ t.slotCount = s.slotCount /\ NodeFields \subseteq DOMAIN t
        /\ SendFields \subseteq DOMAIN t
    BY DEF NodeSound, NodeTyped, NodeFields, SendFields
  <1>2. Sound(t) /\ Genuine(t)
    BY <1>1 DEF NodeSound, NodeTyped, Sound, SendTyped, DrivenOnce, WindowOK, Genuine
  <1>3. NodeTyped(t) /\ KeptIn(t) = KeptIn(s)
    BY <1>1, <1>2 DEF NodeSound, NodeTyped, KeptIn
  <1>4. NodeSound(t)
    BY <1>1, <1>3, SameTables DEF NodeSound, Unroutable
  <1>5. Len(s.queue) \in Nat /\ s.free \in Nat
    BY QueueTyped DEF NodeSound, NodeTyped, Sound, SendTyped
  <1>6. Load(t) = (Load(s) - s.free) + t.free /\ Load(s) \in Nat
    BY <1>1, <1>3, <1>5, KeptFinite DEF Load, Buffers
  <1> QED BY <1>1, <1>3, <1>4, <1>5, <1>6

\* sdn_receive: a buffer of the pool for the frame, an event for an empty queue.
LEMMA ReceiveSteps ==
    ASSUME NEW s, Whole(s), NEW p \in WellFormed
    PROVE  Steps(s, ReceiveFrame(s, p))
  <1>1. CASE s.free = 0 \/ Len(s.recvQ) = RecvQueueSize
    BY <1>1, NotesAdvance, AdvancesSteps DEF ReceiveFrame, Whole
  <1>2. CASE ~(s.free = 0 \/ Len(s.recvQ) = RecvQueueSize)
    <2> DEFINE t == ReceiveFrame(s, p)
    <2>1. /\ NodeSound(s) /\ {"free", "recvQ", "corePosted"} \subseteq DOMAIN s
          /\ s.free \in Nat \ {0} /\ s.recvQ \in Seq(WellFormed)
      BY <1>2 DEF Whole, NodeSound, NodeTyped, NodeFields, SendFields, Sound, SendTyped
    <2>2. t = [s EXCEPT !.free = @ - 1, !.recvQ = Append(@, p),
                        !.corePosted = IF s.recvQ = <<>> THEN @ + 1 ELSE @]
      BY <1>2 DEF ReceiveFrame
    <2>3. /\ DOMAIN t = DOMAIN s
          /\ \A f \in DOMAIN s \ {"free", "recvQ", "corePosted"} : t[f] = s[f]
          /\ t.free = s.free - 1 /\ t.recvQ = Append(s.recvQ, p)
          /\ t.corePosted = IF s.recvQ = <<>> THEN s.corePosted + 1 ELSE s.corePosted
      BY <2>1, <2>2
    <2> HIDE DEF t
    <2>4. t.recvQ \in Seq(WellFormed) /\ Len(t.recvQ) = Len(s.recvQ) + 1 /\ t.recvQ # <<>>
          /\ Len(s.recvQ) \in Nat
      BY <2>1, <2>3
    <2>5. t.corePosted = 1
      BY <2>3 DEF Whole
    <2>6. /\ NodeSound(t) /\ t.keep = s.keep /\ t.dft = s.dft
          /\ Load(t) = (Load(s) - s.free) + t.free /\ Load(s) \in Nat
      BY <2>1, <2>3, ReceiveSideSound
    <2>7. Load(t) + Len(t.recvQ) = PoolSize
      BY <2>1, <2>3, <2>4, <2>6 DEF Whole
    <2>8. Released(s, t)
      BY <2>6 DEF Released, KeptIn, NoPacket, Make
    <2> QED BY <2>4, <2>5, <2>6, <2>7, <2>8 DEF Whole, Steps, t
  <1> QED BY <1>1, <1>2

\* sdn_core_process: the packet's own buffer goes back when all is done.
LEMMA CoreSteps ==
    ASSUME NEW s, Whole(s), s.corePosted > 0
    PROVE  Steps(s, CoreHandler(s))
  <1> DEFINE p == Head(s.recvQ)
             t == [s EXCEPT !.recvQ = Tail(@), !.corePosted = @ - 1]
             u == IF Forwards(t, p) THEN Submit(t, p) ELSE TreatPacket(t, p)
             v == [u EXCEPT !.free = @ + 1, !.corePosted = IF u.recvQ # <<>> THEN @ + 1 ELSE @]
  <1>1. /\ NodeSound(s) /\ {"free", "recvQ", "corePosted"} \subseteq DOMAIN s
        /\ s.recvQ \in Seq(WellFormed) /\ s.recvQ # <<>> /\ s.corePosted = 1
        /\ s.free \in Nat
    BY DEF Whole, NodeSound, NodeTyped, NodeFields, SendFields, Sound, SendTyped
  <1>2. /\ p \in WellFormed /\ Tail(s.recvQ) \in Seq(WellFormed)
        /\ Len(Tail(s.recvQ)) = Len(s.recvQ) - 1 /\ Len(s.recvQ) \in Nat
    BY <1>1
  <1>3. v = CoreHandler(s)
    BY DEF CoreHandler
  <1>4. /\ DOMAIN t = DOMAIN s
        /\ \A f \in DOMAIN s \ {"free", "recvQ", "corePosted"} : t[f] = s[f]
        /\ t.free = s.free /\ t.recvQ = Tail(s.recvQ) /\ t.corePosted = 0
    <2>1. t.corePosted = s.corePosted - 1
      BY <1>1
    <2>2. /\ DOMAIN t = DOMAIN s /\ t.free = s.free /\ t.recvQ = Tail(s.recvQ)
          /\ \A f \in DOMAIN s \ {"free", "recvQ", "corePosted"} : t[f] = s[f]
      BY <1>1
    <2> QED BY <1>1, <2>1, <2>2
  <1> HIDE DEF t, p
  <1>5. /\ NodeSound(t) /\ KeptIn(t) = KeptIn(s) /\ t.keep = s.keep /\ t.dft = s.dft
        /\ t.queue = s.queue /\ Load(t) = Load(s) /\ Load(s) \in Nat
        /\ Len(s.queue) \in Nat
    BY <1>1, <1>4, ReceiveSideSound
  <1>6. Advances(t, u)
    BY <1>2, <1>5, SubmitAdvances, TreatPacketAdvances
  <1> HIDE DEF u
  <1>7. /\ NodeSound(u) /\ Load(u) = Load(s) /\ u.recvQ = Tail(s.recvQ) /\ u.corePosted = 0
        /\ {"free", "recvQ", "corePosted"} \subseteq DOMAIN u /\ u.free \in Nat
    BY <1>4, <1>5, <1>6 DEF Advances, NodeSound, NodeTyped, NodeFields, SendFields, Sound, SendTyped
  <1>8. /\ DOMAIN v = DOMAIN u
        /\ \A f \in DOMAIN u \ {"free", "recvQ", "corePosted"} : v[f] = u[f]
        /\ v.free = u.free + 1 /\ v.recvQ = u.recvQ
        /\ v.corePosted = IF u.recvQ # <<>> THEN 1 ELSE 0
    <2>1. v.corePosted = IF u.recvQ # <<>> THEN u.corePosted + 1 ELSE u.corePosted
      BY <1>7
    <2>2. /\ DOMAIN v = DOMAIN u /\ v.free = u.free + 1 /\ v.recvQ = u.recvQ
          /\ \A f \in DOMAIN u \ {"free", "recvQ", "corePosted"} : v[f] = u[f]
      BY <1>7
    <2> HIDE DEF v
    <2> QED BY <1>7, <2>1, <2>2
  <1> HIDE DEF v
  <1>9. /\ NodeSound(v) /\ v.keep = u.keep /\ v.dft = u.dft /\ v.queue = u.queue
        /\ Load(v) = (Load(u) - u.free) + v.free /\ Len(u.queue) \in Nat
    BY <1>7, <1>8, ReceiveSideSound
  <1>10. Load(v) + Len(v.recvQ) = PoolSize
    BY <1>1, <1>2, <1>5, <1>7, <1>8, <1>9 DEF Whole
  <1>11. Whole(v)
    BY <1>2, <1>7, <1>8, <1>9, <1>10 DEF Whole
  <1>12. Has(s.dft, ControllerFlow) => Has(v.dft, ControllerFlow)
    BY <1>5, <1>6, <1>9 DEF Advances
  <1>13. ASSUME NEW i \in KeptIn(s), v.keep[i] = NoPacket
         PROVE  Len(v.queue) = SendQueueSize
                \/ \E n \in 1..Len(v.queue) : v.queue[n] = s.keep[i]
    <2>1. i \in KeptIn(t) /\ u.keep[i] # t.keep[i]
      BY <1>5, <1>9, <1>13 DEF KeptIn, NoPacket, Make
    <2>2. \A n \in (Len(t.queue) + 1)..Len(u.queue) : n \in 1..Len(u.queue)
      BY <1>5, <1>9
    <2> QED BY <1>5, <1>6, <1>9, <2>1, <2>2 DEF Advances, Delivers
  <1> QED BY <1>3, <1>11, <1>12, <1>13 DEF Steps, Released

\* sdn_send_process with a next hop
LEMMA ForwardSteps ==
    ASSUME NEW s, Whole(s), s.posted > 0, NEW h \in Addrs \union {Broadcast}
    PROVE  Steps(s, [Transmit(s) EXCEPT !.lastHop = h])
  <1> DEFINE a == Transmit(s)
             t == [a EXCEPT !.lastHop = h]
  <1>1. Sound(s) /\ Genuine(s) /\ NodeFields \subseteq DOMAIN s
    BY DEF Whole, NodeSound, NodeTyped
  <1>2. Sound(a) /\ Buffers(a) = Buffers(s) /\ SameAbove(s, a) /\ Genuine(a)
    BY <1>1, TransmitSound, TransmitLeaves DEF Genuine
  <1> HIDE DEF a
  <1>3. Steps(s, a) /\ NodeSound(a) /\ a.keep = s.keep
    BY <1>2, LayerSteps
  <1>4. NodeFields \subseteq DOMAIN a
    BY <1>3 DEF NodeSound, NodeTyped
  <1>5. /\ t.lastHop = h /\ t.keep = a.keep /\ t.dft = a.dft /\ t.cft = a.cft /\ t.mode = a.mode
        /\ t.ndDue = a.ndDue /\ t.recvQ = a.recvQ /\ t.corePosted = a.corePosted
        /\ DOMAIN t = DOMAIN a
    BY <1>4 DEF NodeFields, SendFields
  <1>6. /\ t.addr = a.addr /\ t.free = a.free /\ t.queue = a.queue /\ t.status = a.status
        /\ t.posted = a.posted /\ t.air = a.air /\ t.trickle = a.trickle
        /\ t.retx = a.retx /\ t.seqNo = a.seqNo /\ t.locked = a.locked
        /\ t.nbrs = a.nbrs /\ t.slot = a.slot /\ t.slotCount = a.slotCount
    BY <1>4 DEF NodeFields, SendFields
  <1> HIDE DEF t
  <1>7. Sound(t) /\ Genuine(t)
    BY <1>2, <1>5, <1>6 DEF Sound, SendTyped, DrivenOnce, WindowOK, Genuine
  <1>8. NodeTyped(t) /\ KeptIn(t) = KeptIn(a)
    BY <1>3, <1>5, <1>6, <1>7 DEF NodeSound, NodeTyped, KeptIn
  <1>9. NodeSound(t)
    BY <1>3, <1>5, <1>8, SameTables DEF NodeSound, Unroutable
  <1>10. Load(t) = Load(a)
    BY <1>6, <1>8 DEF Load, Buffers
  <1>11. Whole(t)
    BY <1>3, <1>5, <1>9, <1>10 DEF Steps, Whole
  <1>12. Released(s, t)
    BY <1>3, <1>5 DEF Released, KeptIn, NoPacket, Make
  <1> QED BY <1>3, <1>5, <1>11, <1>12 DEF Steps, t, a

\* sdn_send_process without one: whatever the head of the queue did to the node,
\* it is still the head when it is dropped.
LEMMA DropSteps ==
    ASSUME NEW s, Whole(s), s.posted > 0, NEW u, Advances(s, u)
    PROVE  Steps(s, DropHead(u))
  <1> DEFINE v == DropHead(u)
  <1>1. Sound(s) /\ Sound(u) /\ Genuine(u) /\ NodeSound(u)
    BY DEF Whole, Advances, NodeSound, NodeTyped
  <1>2. s.status = "BUSY" /\ s.queue # <<>>
    BY <1>1, PostedBusy
  <1>3. u.posted > 0
    BY <1>1, <1>2 DEF Advances, Lengthens, Sound, DrivenOnce
  <1>4. /\ Sound(v) /\ Buffers(v) = Buffers(u) /\ SameAbove(u, v)
        /\ v.queue = Tail(u.queue) /\ Genuine(v)
    BY <1>1, <1>3, DropHeadSound, DropHeadLeaves
  <1> HIDE DEF v
  <1>5. /\ NodeSound(v) /\ KeptIn(v) = KeptIn(u) /\ v.keep = u.keep /\ v.dft = u.dft
        /\ v.recvQ = u.recvQ /\ v.corePosted = u.corePosted
    BY <1>1, <1>4, LayerSound
  <1>6. Load(v) = Load(s)
    BY <1>4, <1>5 DEF Load, Advances
  <1>7. Whole(v)
    BY <1>5, <1>6 DEF Whole, Advances
  <1>8. /\ s.queue \in Seq(Packet) /\ u.queue \in Seq(Packet)
        /\ Len(s.queue) \in Nat \ {0} /\ Len(u.queue) \in Nat /\ Len(s.queue) <= Len(u.queue)
    <2>1. s.queue \in Seq(Packet) /\ u.queue \in Seq(Packet)
      BY <1>1, QueueTyped
    <2> QED BY <1>2, <2>1 DEF Advances, Lengthens
  <1>9. /\ Len(v.queue) = Len(u.queue) - 1
        /\ \A n \in 1..Len(v.queue) : v.queue[n] = u.queue[n + 1]
    BY <1>4, <1>8
  <1>10. ASSUME NEW i \in KeptIn(s), v.keep[i] = NoPacket
         PROVE  \/ Len(v.queue) = SendQueueSize - 1
                \/ \E n \in 1..Len(v.queue) : v.queue[n] = s.keep[i]
    <2>1. u.keep[i] # s.keep[i]
      BY <1>5, <1>10 DEF KeptIn, NoPacket, Make
    <2>2. CASE Len(u.queue) = SendQueueSize
      BY <1>9, <2>2
    <2>3. CASE \E n \in (Len(s.queue) + 1)..Len(u.queue) : u.queue[n] = s.keep[i]
      <3>1. PICK n \in (Len(s.queue) + 1)..Len(u.queue) : u.queue[n] = s.keep[i]
        BY <2>3
      <3>2. n - 1 \in 1..Len(v.queue) /\ (n - 1) + 1 = n
        BY <1>8, <1>9
      <3> QED BY <1>9, <3>1, <3>2
    <2> QED BY <2>1, <2>2, <2>3 DEF Advances, Delivers
  <1>11. Has(s.dft, ControllerFlow) => Has(v.dft, ControllerFlow)
    BY <1>5 DEF Advances
  <1> QED BY <1>7, <1>10, <1>11 DEF Steps, Released, v

LEMMA SendSteps ==
    ASSUME NEW s, Whole(s), s.posted > 0
    PROVE  Steps(s, SendHandler(s))
  <1> DEFINE p == Head(s.queue)
  <1>1. Sound(s) /\ Genuine(s) /\ NodeSound(s)
    BY DEF Whole, NodeSound, NodeTyped
  <1>2. p \in WellFormed
    <2>1. s.queue \in Seq(Packet) /\ s.queue # <<>>
      BY <1>1, PostedBusy, QueueTyped
    <2>2. p = s.queue[1] /\ 1 \in 1..Len(s.queue)
      BY <2>1
    <2> QED BY <1>1, <2>2 DEF Genuine
  <1> HIDE DEF p
  <1>3. CASE Forwards(s, p)
    <2>1. Route(s, p).hop \in Addrs \union {Broadcast}
      BY <1>1, <1>2, <1>3, RouteTyped DEF Forwards
    <2>2. SendHandler(s) = [Transmit(s) EXCEPT !.lastHop = Route(s, p).hop]
      BY <1>3 DEF SendHandler, p
    <2> QED BY <2>1, <2>2, ForwardSteps
  <1>4. CASE ~Forwards(s, p)
    <2>1. SendHandler(s) = DropHead(TreatPacket(s, p))
      BY <1>4 DEF SendHandler, p
    <2> QED BY <1>1, <1>2, <2>1, TreatPacketAdvances, DropSteps
  <1> QED BY <1>3, <1>4

\* sdn_send_done: a purge frees blocks of the tables, it takes no route away.
LEMMA SendDoneSteps ==
    ASSUME NEW s, Whole(s), s.air # NoPacket, NEW res
    PROVE  Steps(s, SendDoneHandler(s, res))
  <1> DEFINE a == SendDone(s, res)
             d == TablePurge(a.dft, s.lastHop, {ControllerFlow})
             c == TablePurge(a.cft, s.lastHop, {})
             t == [a EXCEPT !.dft = d, !.cft = c]
  <1>1. Sound(s) /\ Genuine(s)
    BY DEF Whole, NodeSound, NodeTyped
  <1>2. Sound(a) /\ Buffers(a) = Buffers(s) /\ SameAbove(s, a) /\ Genuine(a)
    BY <1>1, SendDoneSound, SendDoneLeaves
  <1>3. SendDoneHandler(s, res) \in {a, t}
    BY DEF SendDoneHandler
  <1> HIDE DEF a
  <1>4. Steps(s, a) /\ NodeSound(a) /\ a.keep = s.keep
    BY <1>2, LayerSteps
  <1>5. /\ NodeFields \subseteq DOMAIN a
        /\ TableSound(a.dft, Flows \union {None}, {ControllerFlow})
        /\ TableSound(a.cft, Addrs \union {None}, {})
    BY <1>4 DEF NodeSound, NodeTyped
  <1>6. /\ TableSound(d, Flows \union {None}, {ControllerFlow})
        /\ \A j : Has(d, j) <=> Has(a.dft, j)
    BY <1>5, PurgeKeeps
  <1>7. /\ TableSound(c, Addrs \union {None}, {})
        /\ \A j : Has(c, j) <=> Has(a.cft, j)
    BY <1>5, PurgeKeeps
  <1> HIDE DEF c, d
  <1>8. /\ t.lastHop = a.lastHop /\ t.keep = a.keep /\ t.dft = d /\ t.cft = c /\ t.mode = a.mode
        /\ t.ndDue = a.ndDue /\ t.recvQ = a.recvQ /\ t.corePosted = a.corePosted
        /\ DOMAIN t = DOMAIN a
    BY <1>5 DEF NodeFields, SendFields
  <1>9. /\ t.addr = a.addr /\ t.free = a.free /\ t.queue = a.queue /\ t.status = a.status
        /\ t.posted = a.posted /\ t.air = a.air /\ t.trickle = a.trickle
        /\ t.retx = a.retx /\ t.seqNo = a.seqNo /\ t.locked = a.locked
        /\ t.nbrs = a.nbrs /\ t.slot = a.slot /\ t.slotCount = a.slotCount
    BY <1>5 DEF NodeFields, SendFields
  <1> HIDE DEF t
  <1>10. Sound(t) /\ Genuine(t)
    BY <1>2, <1>8, <1>9 DEF Sound, SendTyped, DrivenOnce, WindowOK, Genuine
  <1>11. NodeTyped(t) /\ KeptIn(t) = KeptIn(a)
    BY <1>4, <1>6, <1>7, <1>8, <1>9, <1>10 DEF NodeSound, NodeTyped, KeptIn
  <1>12. \A p : HasRoute(t, p) <=> HasRoute(a, p)
    BY <1>6, <1>7, <1>8 DEF HasRoute
  <1>13. NodeSound(t)
    BY <1>4, <1>8, <1>11, <1>12 DEF NodeSound, Unroutable
  <1>14. Load(t) = Load(a)
    BY <1>9, <1>11 DEF Load, Buffers
  <1>15. Whole(t)
    BY <1>4, <1>8, <1>13, <1>14 DEF Steps, Whole
  <1>16. Released(s, t)
    BY <1>4, <1>8 DEF Released, KeptIn, NoPacket, Make
  <1>17. Steps(s, t)
    BY <1>4, <1>6, <1>8, <1>15, <1>16 DEF Steps
  <1> QED BY <1>3, <1>4, <1>17

\* sdn_register_flowid
LEMMA RegisterSteps ==
    ASSUME NEW s, Whole(s), NEW flow \in Flows
    PROVE  Steps(s, RegisterFlow(s, flow))
  <1> DEFINE t == InsertDataFlow(s, flow, s.addr, "RECEIVE")
             r == MakeRequest("REGISTER", s.addr, flow)
  <1>1. NodeSound(s) /\ s.addr \in Addrs
    BY SdnNodeAssumption DEF Whole, NodeSound, NodeTyped
  <1>2. Advances(s, t) /\ NodeSound(t)
    BY <1>1, InsertDataAdvances DEF Actions, Advances
  <1>3. r \in WellFormed
    BY <1>1, OwnPacketsWellFormed
  <1> HIDE DEF t, r
  <1>4. Advances(t, Submit(t, r))
    BY <1>2, <1>3, SubmitAdvances
  <1>5. Advances(s, Submit(t, r)) /\ Advances(s, s)
    BY <1>1, <1>2, <1>4, AdvancesTrans, NotesAdvance
  <1> QED BY <1>5, AdvancesSteps DEF RegisterFlow, t, r

-----------------------------------------------------------------------------
(* The theorems *)

\* sdn_init
LEMMA InitInv == Init => Inv
  <1> SUFFICES ASSUME Init PROVE Inv
    OBVIOUS
  <1> DEFINE send == InitialSend(Node, FALSE)
             e == UnusedEntry
             d == EmptyTable(e)
             c == TableInsert(d, Node, Node, "RECEIVE")
  <1>1. /\ node.addr = Node /\ node.free = send.free /\ node.queue = send.queue
        /\ node.status = send.status /\ node.posted = send.posted /\ node.air = send.air
        /\ node.trickle = send.trickle /\ node.retx = send.retx /\ node.seqNo = send.seqNo
        /\ node.locked = send.locked /\ node.nbrs = send.nbrs /\ node.slot = send.slot
        /\ node.slotCount = send.slotCount
    BY DEF Init, InitialNode, InitialSend
  <1>2. /\ node.lastHop = None /\ node.keep = [i \in Keeps |-> NoPacket] /\ node.dft = d
        /\ node.cft = c /\ node.mode = "AWAITING" /\ node.ndDue = FALSE
        /\ node.recvQ = <<>> /\ node.corePosted = 0 /\ NodeFields \subseteq DOMAIN node
    BY DEF Init, InitialNode, InitialSend, NodeFields, SendFields
  <1>3. Sound(send) /\ Buffers(send) = PoolSize /\ send.queue = <<>>
        /\ \A i \in Slots : ~send.slot[i].live
    BY InitialSendSound, SdnNodeAssumption DEF InitialSend
  <1>4. send.addr = Node
    BY DEF InitialSend
  <1> HIDE DEF send
  <1>5. Sound(node) /\ Genuine(node) /\ Buffers(node) = PoolSize
    <2>1. SendFields \subseteq DOMAIN node
      BY <1>2 DEF NodeFields
    <2>2. Sound(node)
      BY <1>1, <1>3, <1>4, <2>1 DEF Sound, SendTyped, DrivenOnce, WindowOK
    <2>3. Genuine(node)
      BY <1>1, <1>3 DEF Genuine
    <2> QED BY <1>1, <1>3, <2>2, <2>3 DEF Buffers
  <1>6. \A keys, spared : e \in Entry(keys, Addrs) => TableSound(d, keys, spared)
    BY DEF EmptyTable, TableSound, Table
  <1>7. e \in Entry(Flows \union {None}, Addrs) /\ e \in Entry(Addrs \union {None}, Addrs)
    BY SdnNodeAssumption DEF UnusedEntry, Entry, Actions
  <1> HIDE DEF d, e
  <1>8. TableSound(d, Flows \union {None}, {ControllerFlow})
    BY <1>6, <1>7
  <1>9. TableSound(c, Addrs \union {None}, {})
    <2> DEFINE keys == Addrs \union {None}
               spared == {}
    <2>1. TableSound(d, keys, spared) /\ Node \in keys
      BY <1>6, <1>7, SdnNodeAssumption
    <2> HIDE DEF keys, spared
    <2>2. TableSound(c, keys, spared)
      BY <2>1, InsertKeeps, SdnNodeAssumption DEF Actions
    <2> QED BY <2>2 DEF keys, spared
  <1> HIDE DEF c
  <1>10. NodeTyped(node)
    BY <1>1, <1>2, <1>5, <1>8, <1>9 DEF NodeTyped
  <1>11. KeptIn(node) = {}
    BY <1>2 DEF KeptIn, NoPacket, Make
  <1>12. Load(node) + Len(node.recvQ) = PoolSize
    <2>1. Cardinality(KeptIn(node)) = 0 /\ Len(node.recvQ) = 0
      BY <1>2, <1>11, FS_EmptySet
    <2> QED BY <1>5, <2>1, SendAssumption DEF Load
  <1> QED BY <1>2, <1>10, <1>11, <1>12 DEF Inv, Whole, NodeSound, Unroutable

\* Every event keeps the invariant, keeps the route to the controller and loses
\* no kept packet while the send queue has room.
LEMMA NextSteps ==
    ASSUME Inv, Next
    PROVE  Steps(node, node')
  <1>1. Whole(node) /\ NodeSound(node) /\ Sound(node) /\ Genuine(node) /\ Node \in Addrs
    BY SdnNodeAssumption DEF Inv, Whole, NodeSound, NodeTyped
  <1>2. ASSUME NEW p \in Heard, RadioReceive(p) PROVE Steps(node, node')
    BY <1>1, <1>2, ReceiveSteps, SdnNodeAssumption DEF RadioReceive
  <1>3. ASSUME NEW flow \in AppFlows, AppSend(flow) PROVE Steps(node, node')
    <2>1. MakeData(Node, flow) \in WellFormed
      BY <1>1, OwnPacketsWellFormed, SdnNodeAssumption
    <2> QED BY <1>1, <1>3, <2>1, SubmitAdvances, AdvancesSteps DEF AppSend
  <1>4. ASSUME NEW flow \in OwnFlows, AppRegister(flow) PROVE Steps(node, node')
    BY <1>1, <1>4, RegisterSteps, SdnNodeAssumption DEF AppRegister
  <1>5. CASE EnergyReport
    <2>1. MakeEnergyReport(Node) \in WellFormed
      BY <1>1, OwnPacketsWellFormed
    <2> QED BY <1>1, <1>5, <2>1, SubmitAdvances, AdvancesSteps DEF EnergyReport
  <1>6. ASSUME NEW type \in Beacons, Beacon(type) PROVE Steps(node, node')
    <2>1. MakeDiscovery(type, Node) \in WellFormed
      BY <1>1, OwnPacketsWellFormed, SdnNodeAssumption
    <2> QED BY <1>1, <1>6, <2>1, SubmitAdvances, AdvancesSteps DEF Beacon
  <1>7. ASSUME NEW some \in NeighborNews, NeighborChange(some) PROVE Steps(node, node')
    <2> DEFINE t == [node EXCEPT !.nbrs = some]
    <2>1. Advances(node, t) /\ NodeSound(t)
      BY <1>1, NotesAdvance, SdnNodeAssumption DEF Advances
    <2> HIDE DEF t
    <2>2. Advances(t, NdEvent(t))
      BY <2>1, NdEventAdvances
    <2>3. Advances(node, NdEvent(t))
      BY <1>1, <2>1, <2>2, AdvancesTrans
    <2> QED BY <1>1, <1>7, <2>3, AdvancesSteps DEF NeighborChange, t
  <1>8. ASSUME NEW hop \in CdHops, ControllerFound(hop) PROVE Steps(node, node')
    <2>1. Advances(node, CdEvent(node, hop))
      BY <1>1, CdEventAdvances, SdnNodeAssumption
    <2> QED BY <1>1, <1>8, <2>1, AdvancesSteps DEF ControllerFound
  <1>9. ASSUME NEW res \in Results, MacReports(res) PROVE Steps(node, node')
    BY <1>1, <1>9, SendDoneSteps DEF MacReports
  <1>10. CASE CoreProcess
    BY <1>1, <1>10, CoreSteps DEF CoreProcess
  <1>11. CASE SendProcess
    BY <1>1, <1>11, SendSteps DEF SendProcess
  <1>12. CASE TrickleTimer
    <2> DEFINE t == TrickleTimeCallback(node)
    <2>1. /\ Sound(t) /\ Buffers(t) = Buffers(node)
          /\ SameAbove(node, t) /\ t.queue = node.queue /\ t.slot = node.slot
      BY <1>1, <1>12, TrickleSound, TrickleLeaves DEF TrickleTimer
    <2> HIDE DEF t
    <2>2. Genuine(t)
      BY <1>1, <2>1 DEF Genuine
    <2> QED BY <1>1, <1>12, <2>1, <2>2, LayerSteps DEF TrickleTimer, t
  <1>13. ASSUME NEW i \in Slots, SlotTimer(i) PROVE Steps(node, node')
    <2>1. LET t == SldF(node, i) IN
          Sound(t) /\ Buffers(t) = Buffers(node) /\ SameAbove(node, t) /\ Genuine(t)
      BY <1>1, <1>13, SldFSound, SldFAdds DEF SlotTimer
    <2> QED BY <1>1, <1>13, <2>1, LayerSteps DEF SlotTimer
  <1> QED BY <1>2, <1>3, <1>4, <1>5, <1>6, <1>7, <1>8, <1>9, <1>10, <1>11, <1>12, <1>13
          DEF Next

LEMMA NextInv == Inv /\ [Next]_node => Inv'
  <1> SUFFICES ASSUME Inv, [Next]_node PROVE Inv'
    OBVIOUS
  <1>1. CASE Next
    <2>1. Whole(node')
      BY <1>1, NextSteps DEF Steps
    <2> QED BY <2>1 DEF Inv
  <1>2. CASE UNCHANGED node
    BY <1>2 DEF Inv
  <1> QED BY <1>1, <1>2

LEMMA SpecInv == Spec => []Inv
  BY InitInv, NextInv, PTL DEF Spec

\* The memory has its shape after any events, for every size of its parts.
THEOREM TypeCorrect == Spec => []TypeOK
  <1>1. Inv => TypeOK
    <2> SUFFICES ASSUME Inv PROVE TypeOK
      OBVIOUS
    <2>1. WellFormed \subseteq Packet /\ NoPacket \in Packet
      BY NoPacketTyped DEF WellFormed
    <2>2. node.recvQ \in Seq(Packet)
      <3>1. node.recvQ \in Seq(WellFormed)
        BY DEF Inv, Whole
      <3>2. \A n \in 1..Len(node.recvQ) : node.recvQ[n] \in Packet
        BY <2>1, <3>1
      <3> QED BY <3>1, <3>2
    <2> QED BY <2>1, <2>2 DEF Inv, Whole, NodeSound, NodeTyped, TableSound, Sound, TypeOK
  <1> QED BY SpecInv, <1>1, PTL

\* No buffer leaks and none is returned twice, on any path of sdn_treat_packet and
\* its callers, for pools, queues and arrays of any size.
THEOREM BuffersBalance == Spec => []PoolConserved
  <1>1. Inv => PoolConserved
    <2> SUFFICES ASSUME Inv PROVE PoolConserved
      OBVIOUS
    <2>1. Kept = KeptIn(node)
      BY DEF Kept, KeptIn
    <2>2. node.free \in Nat /\ Len(node.queue) \in Nat /\ Len(node.recvQ) \in Nat
      BY QueueTyped DEF Inv, Whole, NodeSound, NodeTyped, Sound, SendTyped
    <2> QED BY <2>1, <2>2, KeptFinite DEF Inv, Whole, Load, Buffers, PoolConserved
  <1> QED BY SpecInv, <1>1, PTL

\* Each of the two processes has exactly one event under way while its queue holds
\* a packet, whatever handler filled or emptied the queue.
THEOREM WokenOnce == Spec => []OneWakeup
  <1>1. Inv => OneWakeup
    BY DEF Inv, Whole, NodeSound, NodeTyped, Sound, OneWakeup
  <1> QED BY SpecInv, <1>1, PTL

\* The window stays consistent under transmissions, answers, setups and timeouts in
\* any order, for windows of any size.
THEOREM WindowConsistent == Spec => []WindowSound
  <1>1. Inv => WindowSound
    BY DEF Inv, Whole, NodeSound, NodeTyped, Sound, WindowSound
  <1> QED BY SpecInv, <1>1, PTL

\* No packet stays behind when its route is entered, whoever enters it: a setup,
\* controller discovery, or the application that registers a flow.
THEOREM KeptWaitForRoutes == Spec => []KeptHaveNoRoute
  <1>1. Inv => KeptHaveNoRoute
    BY DEF Inv, Whole, NodeSound, Unroutable, Kept, KeptIn, KeptHaveNoRoute
  <1> QED BY SpecInv, <1>1, PTL

\* Both tables stay without double keys and without lost blocks under the
\* insertions and purges of the whole node, for tables of any size.
THEOREM TablesConsistent == Spec => []TablesSound
  <1>1. Inv => TablesSound
    BY DEF Inv, Whole, NodeSound, NodeTyped, TableSound, TablesSound
  <1> QED BY SpecInv, <1>1, PTL

\* The route to the controller outlives every purge: its block is never handed out.
THEOREM ControllerFlowStays == Spec => ControllerFlowKept
  <1>1. Inv /\ [Next]_node =>
           [Has(node.dft, ControllerFlow) => Has(node'.dft, ControllerFlow)]_node
    BY NextSteps DEF Steps
  <1> QED BY SpecInv, <1>1, PTL DEF Spec, ControllerFlowKept

\* A packet that waits for a route is in the send queue when it waits no longer, or
\* there was no room for it, for queues and arrays of any size.
THEOREM KeptDelivered == Spec => KeptReachesQueue
  <1>1. Inv /\ [Next]_node =>
           [\A i \in Kept : node'.keep[i] = NoPacket =>
               \/ Len(node'.queue) = SendQueueSize
               \/ node.posted > 0 /\ Len(node'.queue) = SendQueueSize - 1
               \/ \E n \in 1..Len(node'.queue) : node'.queue[n] = node.keep[i]]_node
    <2>1. Kept = KeptIn(node)
      BY DEF Kept, KeptIn
    <2> QED BY <2>1, NextSteps DEF Steps, Released
  <1> QED BY SpecInv, <1>1, PTL DEF Spec, KeptReachesQueue
=============================================================================
