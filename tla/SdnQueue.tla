------------------------------ MODULE SdnQueue ------------------------------
(***************************************************************************)
(* The ring of sdn-queue.c.  sdn_send_queue and sdn_recv_queue are the     *)
(* same ring: slots in an array, a head, a tail and a count that is kept   *)
(* beside them rather than computed.  They differ in the slot (the send    *)
(* queue's also holds last_next_hop) and in what they give out when they   *)
(* are empty.  Callers run to completion, one operation at a time.         *)
(***************************************************************************)
EXTENDS Integers, Sequences

CONSTANTS QueueSize,    \* max_size
          Data,         \* the buffers that are queued
          Hops,         \* the values of last_next_hop
          NoData,       \* NULL
          NoHop,        \* last_next_hop of zeroed memory
          Receiving     \* the queue is sdn_recv_queue

\* head, tail, size and max_size are uint8_t.
ASSUME QueueAssumption ==
    /\ QueueSize \in 1..255
    /\ NoData \notin Data
    /\ NoHop \in Hops
    /\ Receiving \in BOOLEAN

VARIABLES head,    \* index of the oldest packet
          tail,    \* index of the first place after the newest
          size,    \* how many packets there are
          slot,    \* the array
          in,      \* the buffer the last enqueue took
          out      \* the buffer the last dequeue gave out

queueVars == <<head, tail, size, slot, in, out>>

RingPlaces == 0..(QueueSize - 1)

Entry == [data : Data \union {NoData}, hop : Hops]

QueueTyped ==
    /\ head \in RingPlaces /\ tail \in RingPlaces
    /\ size \in 0..QueueSize
    /\ slot \in [RingPlaces -> Entry]
    /\ in \in Data \union {NoData} /\ out \in Data \union {NoData}

Wrap(i) == IF i + 1 = QueueSize THEN 0 ELSE i + 1

\* Fault: the place after the newest packet, not the newest packet's.
NewestIsTail == tail

\* sdn_send_queue_tail: the newest packet's place.
Newest == IF tail = 0 THEN QueueSize - 1 ELSE tail - 1

-----------------------------------------------------------------------------
QueueInit ==
    /\ head = 0 /\ tail = 0 /\ size = 0
    /\ slot = [i \in RingPlaces |-> [data |-> NoData, hop |-> NoHop]]
    /\ in = NoData /\ out = NoData

\* The packet goes to the tail and last_next_hop stays what it was there.
Put(d) ==
    /\ size < QueueSize
    /\ slot' = [slot EXCEPT ![tail].data = d]
    /\ tail' = Wrap(tail)
    /\ size' = size + 1
    /\ in' = d
    /\ UNCHANGED <<head, out>>

SendEnqueue(d) == ~Receiving /\ Put(d)

RecvEnqueue(d) == Receiving /\ Put(d)

\* The controller node queues a packet of the serial line and marks the
\* newest packet with the neighbor the controller chose.
EnqueueFor(d, h) ==
    /\ ~Receiving
    /\ size < QueueSize
    /\ LET put == [slot EXCEPT ![tail].data = d]
       IN  /\ tail' = Wrap(tail)
           /\ slot' = [put EXCEPT ![Newest'].hop = h]
    /\ size' = size + 1
    /\ in' = d
    /\ UNCHANGED <<head, out>>

\* The send process notes the neighbor it hands the oldest packet to.
MarkHead(h) ==
    /\ ~Receiving
    /\ size > 0
    /\ slot' = [slot EXCEPT ![head].hop = h]
    /\ UNCHANGED <<head, tail, size, in, out>>

Remove ==
    /\ size > 0
    /\ out' = slot[head].data
    /\ head' = Wrap(head)
    /\ size' = size - 1
    /\ UNCHANGED <<tail, slot, in>>

\* An empty send queue gives out the head's place all the same: a buffer that
\* was given out before, or NULL in a place never used.
SendDequeue ==
    /\ ~Receiving
    /\ \/ Remove
       \/ /\ size = 0
          /\ out' = slot[head].data
          /\ UNCHANGED <<head, tail, size, slot, in>>

RecvDequeue ==
    /\ Receiving
    /\ \/ Remove
       \/ /\ size = 0
          /\ out' = NoData
          /\ UNCHANGED <<head, tail, size, slot, in>>

QueueNext ==
    \/ \E d \in Data : SendEnqueue(d) \/ RecvEnqueue(d) \/ \E h \in Hops : EnqueueFor(d, h)
    \/ \E h \in Hops : MarkHead(h)
    \/ SendDequeue
    \/ RecvDequeue

QueueSpec == QueueInit /\ [][QueueNext]_queueVars

-----------------------------------------------------------------------------
\* The place i places after place h.
Place(h, i) == IF h + i < QueueSize THEN h + i ELSE h + i - QueueSize

\* The ring is consistent: the tail is where head and size say it is, and the
\* places in use hold packets.
RingSound ==
    /\ tail = Place(head, size)
    /\ \A i \in 0..(size - 1) : slot[Place(head, i)].data # NoData

\* The packets queued, oldest first.
Queued == [i \in 1..size |-> slot[Place(head, i - 1)]]

F == INSTANCE Fifo WITH Capacity <- QueueSize, items <- Queued

\* The ring is a bounded first-in first-out queue: sdn_send_queue_enqueue and
\* sdn_send_queue_dequeue (and the receive queue's) lose, repeat and reorder
\* nothing across the wrap of head and tail, and a mark lands on the packet it
\* is meant for.
RefinesFifo == F!FifoSpec
=============================================================================
