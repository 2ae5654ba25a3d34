----------------------------- MODULE RouteCache -----------------------------
(***************************************************************************)
(* The routes the controller remembers to have given                       *)
(* (controller-server/sdn-flow-table-cache.c).  The list by flow id and    *)
(* the list by address are twins: a cache is a sequence of entries, oldest *)
(* first, and the key of an entry is a flow or an address.  Hop counts are *)
(* only printed and left out.                                              *)
(***************************************************************************)
EXTENDS Integers, Sequences, SequencesExt

CONSTANTS Own,           \* sdn_node_addr, the controller's own address
          RetransmitTime \* SDN_RETRANSMIT_TIME_S, in ticks of the timer

\* The entry of a node for a key, or 0.
Find(cache, source, key) ==
    SelectInSeq(cache, LAMBDA e : e.source = source /\ e.key = key)

NewEntry(source, key, hop, action, weight) ==
    [source |-> source, key |-> key, hop |-> hop, action |-> action, weight |-> weight,
     changed |-> TRUE, online |-> FALSE, countdown |-> RetransmitTime]

\* Fault: what the node confirmed of the old route stands.
RenewedOnline(e, hop, action) ==
    IF e.hop = hop /\ e.action = action THEN e
    ELSE [e EXCEPT !.hop = hop, !.action = action, !.changed = TRUE]

\* A route that is the same keeps its state, another one starts anew.
Renewed(e, hop, action) ==
    IF e.hop = hop /\ e.action = action THEN e
    ELSE [e EXCEPT !.hop = hop, !.action = action,
                   !.changed = TRUE, !.online = FALSE, !.countdown = RetransmitTime]

\* The controller needs no acknowledgement from itself.
Settled(e) == [e EXCEPT !.online = @ \/ e.source = Own]

\* sdn_flow_id_table_add, sdn_flow_address_table_add
AddEntry(cache, source, key, hop, action, weight) ==
    LET i == Find(cache, source, key)
    IN  IF i = 0
        THEN Append(cache, Settled(NewEntry(source, key, hop, action, weight)))
        ELSE [cache EXCEPT ![i] = Settled([Renewed(@, hop, action) EXCEPT !.weight = weight])]

\* sdn_flow_id_table_set_online, sdn_flow_address_table_set_online
SetOnline(cache, source, key, hop, action) ==
    LET i == Find(cache, source, key)
    IN  IF i # 0 /\ cache[i].hop = hop /\ cache[i].action = action
        THEN [cache EXCEPT ![i].online = TRUE]
        ELSE cache

\* One second of sdn_reliability_timer_event.
CountDown(e) ==
    IF e.online \/ e.countdown = 0 THEN e
    ELSE [e EXCEPT !.countdown = IF @ = 1 THEN RetransmitTime ELSE @ - 1]

\* Whose time is up in this second.
Due(e) == ~e.online /\ e.countdown = 1
=============================================================================
