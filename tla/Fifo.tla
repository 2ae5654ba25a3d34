-------------------------------- MODULE Fifo --------------------------------
(***************************************************************************)
(* What sdn-queue.h promises of sdn_send_queue and sdn_recv_queue, without *)
(* the ring that implements them: a bounded first-in first-out queue whose *)
(* oldest and newest packets can be marked with the neighbor they go to.   *)
(***************************************************************************)
EXTENDS Integers, Sequences

CONSTANTS Capacity,    \* SDN_SEND_QUEUE_SIZE or SDN_RECV_QUEUE_SIZE
          Data,        \* the buffers that are queued
          Hops,        \* the values of last_next_hop
          NoData,      \* NULL
          Receiving    \* the queue is sdn_recv_queue

VARIABLES items,       \* the packets queued, oldest first
          in,          \* the buffer the last addition took
          out          \* the buffer the last removal gave out

vars == <<items, in, out>>

Item == [data : Data, hop : Hops]

FifoInit == items = <<>> /\ in = NoData /\ out = NoData

\* A packet is queued with whatever neighbor its place was last marked with.
Put(d) ==
    /\ Len(items) < Capacity
    /\ \E h \in Hops : items' = Append(items, [data |-> d, hop |-> h])
    /\ in' = d
    /\ UNCHANGED out

\* A packet is queued together with its mark.
PutFor(d, h) ==
    /\ Len(items) < Capacity
    /\ items' = Append(items, [data |-> d, hop |-> h])
    /\ in' = d
    /\ UNCHANGED out

Mark(h) ==
    /\ items # <<>>
    /\ items' = [items EXCEPT ![1].hop = h]
    /\ UNCHANGED <<in, out>>

Take ==
    /\ items # <<>>
    /\ items' = Tail(items)
    /\ out' = Head(items).data
    /\ UNCHANGED in

\* The receive queue answers NULL when it is empty; the send queue promises
\* nothing of what it gives out then.
TakeNothing ==
    /\ items = <<>>
    /\ out' \in IF Receiving THEN {NoData} ELSE Data \union {NoData}
    /\ UNCHANGED <<items, in>>

FifoNext ==
    \/ \E d \in Data : Put(d) \/ \E h \in Hops : PutFor(d, h)
    \/ \E h \in Hops : Mark(h)
    \/ Take
    \/ TakeNothing

FifoSpec == FifoInit /\ [][FifoNext]_vars
=============================================================================
