----------------------------- MODULE RouteSetup -----------------------------
(***************************************************************************)
(* One entry of the controller's flow cache and the node it is for.  The   *)
(* setup is sent when the route changes and again while the node has not   *)
(* confirmed it.  Each setup takes the way the graph gives when it is      *)
(* sent, and acknowledgements the way of the tables: packets get lost, are *)
(* repeated, and overtake each other, so a channel is the set of the       *)
(* routes under way.  The node acknowledges a setup before it looks for    *)
(* room in its table, loses the route when the next hop fails, and asks    *)
(* for it then.  Routes are numbered in the order in which they first come *)
(* up.                                                                     *)
(***************************************************************************)
EXTENDS Integers

CONSTANTS MaxRoute,        \* bound: the routes there are, 1..MaxRoute
          RetransmitTime,  \* SDN_RETRANSMIT_TIME_S, in ticks
          MayBeFull        \* the node's table may have no room for the flow

ASSUME SetupAssumption ==
    MaxRoute \in Nat \ {0} /\ RetransmitTime \in Nat \ {0} /\ MayBeFull \in BOOLEAN

VARIABLES current,     \* next_hop of the entry
          online,      \* confirmed by node ack
          countdown,   \* ticks until the setup is sent again
          setups,      \* the routes with a setup on its way to the node
          acks,        \* the routes with an acknowledgement on its way back
          table,       \* the route in the node's flow table, NoRoute for none
          asked        \* a flow request is on its way to the controller

\* For the properties
VARIABLES had,         \* what the node's table has held
          wentBack     \* the entry has a route of before, or since it has its
                       \* route the table went back to an earlier one or to
                       \* none, or did not store a setup

vars == <<current, online, countdown, setups, acks, table, asked, had, wentBack>>
controller == <<current, online, countdown>>
history == <<had, wentBack>>

NoRoute == 0
Routes == 1..MaxRoute

\* What is under way once a packet of route r is there: another packet of the
\* route, or a repetition of the same, may still follow.
Taken(channel, r) == {channel, channel \ {r}}

\* A route that comes up for the first time is later than all there were.
Fresh(r) == \A x \in setups \union acks \union had \union {current} : x < r

\* The node asked for the first time, and the controller just answered.
Init ==
    /\ current = 1 /\ online = FALSE /\ countdown = RetransmitTime
    /\ setups = {1} /\ acks = {}
    /\ table = NoRoute /\ asked = FALSE
    /\ had = {NoRoute} /\ wentBack = FALSE

\* Fault: an entry once confirmed needs no confirmation for its next route.
ChangeOnline(r) ==
    /\ r # current
    /\ current' = r /\ countdown' = RetransmitTime
    /\ setups' = setups \union {r}
    /\ wentBack' = ~Fresh(r)
    /\ UNCHANGED <<online, acks, table, asked, had>>

\* An update of the cache finds another next hop.
Change(r) ==
    /\ r # current
    /\ current' = r /\ online' = FALSE /\ countdown' = RetransmitTime
    /\ setups' = setups \union {r}
    /\ wentBack' = ~Fresh(r)
    /\ UNCHANGED <<acks, table, asked, had>>

\* Fault: the setup is not sent again.
TickSilent ==
    /\ ~online /\ countdown > 0
    /\ countdown' = IF countdown = 1 THEN RetransmitTime ELSE countdown - 1
    /\ UNCHANGED <<current, online, setups, acks, table, asked, history>>

\* sdn_reliability_timer_event
Tick ==
    /\ ~online /\ countdown > 0
    /\ countdown' = IF countdown = 1 THEN RetransmitTime ELSE countdown - 1
    /\ setups' = IF countdown = 1 THEN setups \union {current} ELSE setups
    /\ UNCHANGED <<current, online, acks, table, asked, history>>

\* A route replaces the one of the same flow; only a new entry needs room.
Stored(r) == IF MayBeFull /\ table = NoRoute THEN {r, NoRoute} ELSE {r}

\* treat_data_flow_setup: acknowledged first, then inserted if there is room.
ReceiveSetup(r) ==
    /\ r \in setups
    /\ setups' \in Taken(setups, r)
    /\ acks' = acks \union {r}
    /\ table' \in Stored(r)
    /\ had' = had \union {table'}
    /\ wentBack' = (wentBack \/ table' < table \/ table' # r)
    /\ UNCHANGED <<controller, asked>>

\* SDN_PACKET_ACK_BY_FLOW_ID: it counts when it returns the route of the entry.
ReceiveAck(r) ==
    /\ r \in acks
    /\ acks' \in Taken(acks, r)
    /\ online' = (online \/ r = current)
    /\ UNCHANGED <<current, countdown, setups, table, asked, history>>

LoseSetup(r) ==
    /\ r \in setups
    /\ setups' = setups \ {r}
    /\ UNCHANGED <<controller, acks, table, asked, history>>

LoseAck(r) ==
    /\ r \in acks
    /\ acks' = acks \ {r}
    /\ UNCHANGED <<controller, setups, table, asked, history>>

\* sdn_dataflow_remove_next_hop
FailHop ==
    /\ table # NoRoute
    /\ table' = NoRoute
    /\ wentBack' = TRUE
    /\ UNCHANGED <<controller, setups, acks, asked, had>>

\* A packet of the flow finds no route and the node asks.
Ask ==
    /\ table = NoRoute /\ ~asked
    /\ asked' = TRUE
    /\ UNCHANGED <<controller, setups, acks, table, history>>

\* process_data_flow_request_packet: the entry exists, so nothing is sent.
ReceiveRequest ==
    /\ asked
    /\ asked' = FALSE
    /\ UNCHANGED <<controller, setups, acks, table, history>>

Next ==
    \/ \E r \in Routes : Change(r)
    \/ Tick
    \/ \E r \in setups : ReceiveSetup(r) \/ LoseSetup(r)
    \/ \E r \in acks : ReceiveAck(r) \/ LoseAck(r)
    \/ FailHop \/ Ask \/ ReceiveRequest

\* The timer goes on; of the setups and acknowledgements of one route that are
\* sent again and again some arrive; a node without a route goes on asking, and
\* its requests are treated.
Fairness ==
    /\ WF_vars(Tick)
    /\ SF_vars(ReceiveSetup(current)) /\ SF_vars(ReceiveAck(current))
    /\ WF_vars(Ask) /\ WF_vars(ReceiveRequest)

Spec == Init /\ [][Next]_vars

FairSpec == Spec /\ Fairness

-----------------------------------------------------------------------------
TypeOK ==
    /\ current \in Routes /\ online \in BOOLEAN /\ countdown \in 1..RetransmitTime
    /\ setups \subseteq Routes /\ acks \subseteq Routes
    /\ table \in Routes \union {NoRoute} /\ asked \in BOOLEAN
    /\ had \subseteq Routes \union {NoRoute} /\ wentBack \in BOOLEAN

\* Nothing is sent again for an entry that is online (sdn-reliability.c:21), so
\* its node must have had the route if there was room for it, and has it still,
\* whatever was lost, repeated or overtaken before, unless one of these happened:
\* the entry returned to an earlier route; or, since it has its route, a setup
\* arrived after one of a later route, the table was full, or the next hop failed.
OnlineIsInstalled ==
    online => /\ ~MayBeFull => current \in had
              /\ table = current \/ wentBack

\* sdn-flow-table-cache.h: online is "confirmed by node ack".  If not at once,
\* the node has the route in the end, or the entry is no longer online.
\* The code does not keep it: README, section 5.
OnlineIsConfirmed == online ~> (table = current \/ ~online)

\* Whatever is lost, and whatever fails at the node, an entry whose route no
\* longer changes is confirmed in the end; and the node has the route then, if
\* neither the entry nor, since then, the table went back.
FinallyInstalled ==
    \A r \in Routes : <>[](current = r) => <>[](online /\ (table = r \/ wentBack))

\* TODO_LIST: "while set flows serve as ack for flow requests."  A node that
\* asks has a route in the end.
\* The code does not keep it: README, section 5.
RequestsServed == asked ~> table # NoRoute
=============================================================================
