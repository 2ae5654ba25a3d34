---------------------------- MODULE SourceRoute ----------------------------
(***************************************************************************)
(* Packets that carry their route: setups and acknowledgements with a list *)
(* of addresses, and multiple setups, which at the end of that list leave  *)
(* one action at each node of a walk.  Both lists are consumed from their  *)
(* end; every node shortens the packet by what it used.                    *)
(***************************************************************************)
EXTENDS Naturals, SequencesExt

CONSTANTS Nodes,       \* the nodes, without the one that sends the packets
          Orders,      \* what may be sent: records [kind, route, cut, walk]
          MaxOrders,   \* bound: how many packets are sent
          AddressHop,  \* [Nodes -> [Nodes -> Nodes]]: the address tables
          MayLose,     \* a packet may be lost
          None, Garbage \* no route; what a read beyond the packet finds

\* The end of a multiple setup's route is the start of its walk.
SourceRouteAssumption ==
    /\ MaxOrders \in Nat /\ MayLose \in BOOLEAN
    /\ {None, Garbage} \cap Nodes = {}
    /\ AddressHop \in [Nodes -> [Nodes -> Nodes]]
    /\ Orders \subseteq [kind : {"setup", "ack", "multData", "multControl"},
                          route : Seq(Nodes), cut : BOOLEAN, walk : Seq(Nodes)]
    /\ \A o \in Orders :
          /\ o.route # <<>> /\ IsInjective(o.route)
          /\ o.walk # <<>> <=> o.kind \in {"multData", "multControl"}
          /\ o.walk # <<>> => Head(o.walk) = Last(o.route)
          /\ o.cut => o.kind = "setup" /\ Len(o.route) > 1

VARIABLES air,    \* packets on their way to the node p.to
          seen,   \* received_seqnos: the last number each node registered
          table,  \* the action each node has for the flow or address
          \* For the properties:
          orders, \* what was sent; a packet's number is its place here
          done,   \* pairs <<number, node>>: the packet was treated there
          lost    \* numbers of packets that were lost

vars == <<air, seen, table, orders, done, lost>>

Init ==
    /\ air = {} /\ orders = <<>> /\ done = {} /\ lost = {}
    /\ seen = [n \in Nodes |-> 0]
    /\ table = [n \in Nodes |-> None]

-----------------------------------------------------------------------------
(* What is sent *)

Packet(o, seq, path, elems) ==
    [kind |-> o.kind, seq |-> seq, to |-> Head(o.route), real |-> Last(o.route),
     path |-> path, pathLen |-> Len(path), elems |-> elems, setLen |-> Len(elems)]

\* The route without its first hop, the target first.
PathOf(route) == Reverse(Tail(route))

\* send_src_rtd_data_flow_setup, send_src_rtd_control_flow_setup
SetupPacket(o, seq) == Packet(o, seq, PathOf(o.route), <<>>)

\* test_send_src_rt_csf_incomplete: the list ends before the target.
CutPacket(o, seq) == Packet(o, seq, PathOf(Front(o.route)), <<>>)

\* send_src_rtd_ack
AckPacket(o, seq) == Packet(o, seq, PathOf(o.route), <<>>)

\* The action of the node at place i of a walk: on to the next, or receive.
ActionOn(walk, i) == IF i = Len(walk) THEN walk[i] ELSE walk[i + 1]

\* test_send_mult_dsf, test_send_mult_csf: the actions of the walk, last first.
MultPacket(o, seq) ==
    Packet(o, seq, PathOf(o.route),
           Reverse([i \in DOMAIN o.walk |-> ActionOn(o.walk, i)]))

Send(o) ==
    /\ Len(orders) < MaxOrders /\ orders' = Append(orders, o)
    /\ LET seq == Len(orders) + 1
       IN  air' = air \union {CASE o.kind = "ack" -> AckPacket(o, seq)
                                [] o.kind = "setup" -> IF o.cut THEN CutPacket(o, seq)
                                                       ELSE SetupPacket(o, seq)
                                [] OTHER -> MultPacket(o, seq)}
    /\ UNCHANGED <<seen, table, done, lost>>

-----------------------------------------------------------------------------
(* What a node does with a packet *)

\* check_packet_len: the lists are as long as the packet says.
LengthOK(p) == p.pathLen <= Len(p.path) /\ p.setLen <= Len(p.elems)

\* sdn_seqno_is_duplicate, for the one sender there is here
New(p) == seen[p.to] # p.seq

\* The node p.to takes the packet and sends those in out.
Take(p, out) ==
    /\ New(p) /\ LengthOK(p)
    /\ air' = (air \ {p}) \union out
    /\ seen' = [seen EXCEPT ![p.to] = p.seq]
    /\ UNCHANGED <<orders, lost>>

Treated(p) == done' = done \union {<<p.seq, p.to>>}

\* A duplicate is dropped, and a packet that is too short.
Drop(p) ==
    /\ ~New(p) \/ ~LengthOK(p)
    /\ air' = air \ {p}
    /\ seen' = [seen EXCEPT ![p.to] = p.seq]
    /\ UNCHANGED <<table, orders, done, lost>>

\* SDN_PACKET_GET_NEXT_SRC_ADDR, after path_len is counted down
NextAddress(p) == p.path[p.pathLen]

\* The packet one address shorter
Shortened(p) == [p EXCEPT !.pathLen = @ - 1, !.path = Front(@), !.to = NextAddress(p)]

\* Still on the source-routed part
FollowPath(p) ==
    /\ p.kind # "plain" /\ p.pathLen > 0
    /\ Take(p, {Shortened(p)})
    /\ UNCHANGED <<table, done>>

AtEnd(p) == p.pathLen = 0 /\ p.to = p.real

\* treat_control_flow_setup, treat_data_flow_setup: an action for the target
InstallSetup(p) ==
    /\ p.kind \in {"setup", "plain"} /\ AtEnd(p)
    /\ Take(p, {})
    /\ table' = [table EXCEPT ![p.to] = p.real]
    /\ Treated(p)

\* Fault: a list that is too short ends the setup, as it ends an acknowledgement.
UseTableNot(p) ==
    /\ p.kind = "setup" /\ p.pathLen = 0 /\ ~AtEnd(p)
    /\ Take(p, {})
    /\ UNCHANGED <<table, done>>

\* The list was too short: on as a plain setup, by the address tables
UseTable(p) ==
    /\ p.kind = "setup" /\ p.pathLen = 0 /\ ~AtEnd(p)
    /\ Take(p, {[p EXCEPT !.kind = "plain", !.to = AddressHop[p.to][p.real]]})
    /\ UNCHANGED <<table, done>>

\* A plain setup for another node, in sdn_treat_packet
Relay(p) ==
    /\ p.kind = "plain" /\ p.to # p.real
    /\ Take(p, {[p EXCEPT !.to = AddressHop[p.to][p.real]]})
    /\ UNCHANGED <<table, done>>

\* sld_rcv_ack, at the target; the code provides for no other end.
ReceiveAck(p) ==
    /\ p.kind = "ack" /\ p.pathLen = 0
    /\ Take(p, {})
    /\ IF AtEnd(p) THEN Treated(p) ELSE UNCHANGED done
    /\ UNCHANGED table

\* SDN_PACKET_GET_FLOW_ELEM: the element set_len points to
ElementAt(p, setLen) == IF setLen < Len(p.elems) THEN p.elems[setLen + 1] ELSE Garbage

\* The packet without its last element, to the node this one names
Rest(p) ==
    IF p.setLen = 1 THEN {}
    ELSE {[p EXCEPT !.setLen = @ - 1, !.elems = Front(@), !.to = ElementAt(p, p.setLen - 1)]}

\* Fault: inserted before set_len is counted down.
InstallMultDataLate(p) ==
    /\ p.kind = "multData" /\ p.pathLen = 0
    /\ Take(p, Rest(p))
    /\ table' = [table EXCEPT ![p.to] = ElementAt(p, p.setLen)]
    /\ Treated(p)

\* treat_mult_data_flow_setup
InstallMultData(p) ==
    /\ p.kind = "multData" /\ p.pathLen = 0
    /\ Take(p, Rest(p))
    /\ table' = [table EXCEPT ![p.to] = ElementAt(p, p.setLen - 1)]
    /\ Treated(p)

\* treat_mult_control_flow_setup inserts before it counts set_len down.
InstallMultControl(p) ==
    /\ p.kind = "multControl" /\ p.pathLen = 0
    /\ Take(p, Rest(p))
    /\ table' = [table EXCEPT ![p.to] = ElementAt(p, p.setLen)]
    /\ Treated(p)

Lose(p) ==
    /\ MayLose
    /\ air' = air \ {p} /\ lost' = lost \union {p.seq}
    /\ UNCHANGED <<seen, table, orders, done>>

Arrive(p) ==
    \/ Drop(p) \/ FollowPath(p)
    \/ InstallSetup(p) \/ UseTable(p) \/ Relay(p) \/ ReceiveAck(p)
    \/ InstallMultData(p) \/ InstallMultControl(p)

Next ==
    \/ \E o \in Orders : Send(o)
    \/ \E p \in air : Arrive(p) \/ Lose(p)

Spec == Init /\ [][Next]_vars

\* Queues are served and the radio delivers what is not lost.
FairSpec == Spec /\ WF_vars(\E p \in air : Arrive(p))

-----------------------------------------------------------------------------
TypeOK ==
    /\ \A p \in air :
          /\ p.kind \in {"setup", "ack", "multData", "multControl", "plain"}
          /\ p.seq \in 1..Len(orders) /\ {p.to, p.real} \subseteq Nodes
          /\ p.path \in Seq(Nodes) /\ p.elems \in Seq(Nodes)
    /\ seen \in [Nodes -> 0..MaxOrders]
    /\ table \in [Nodes -> Nodes \union {None, Garbage}]
    /\ orders \in Seq(Orders) /\ Len(orders) <= MaxOrders
    /\ done \subseteq (1..MaxOrders) \X Nodes /\ lost \subseteq 1..MaxOrders

\* The nodes a packet still has to visit, by what it carries
Ahead(p) == <<p.to>> \o Reverse(p.path)

\* On the source-routed part the packet carries the rest of its route, all of
\* it and nothing else, wherever it is.
RestOfRoute ==
    \A p \in air :
        LET o == orders[p.seq]
            planned == IF o.cut THEN Front(o.route) ELSE o.route
        IN  p.kind # "plain" /\ Len(p.elems) = Len(o.walk)
            => IsSuffix(Ahead(p), planned) /\ p.pathLen = Len(p.path)

\* Who is to treat packet i: its target, or the nodes of its walk
Receivers(i) == LET o == orders[i] IN IF o.walk = <<>> THEN {Last(o.route)} ELSE ToSet(o.walk)

\* Nobody installs a setup or takes an acknowledgement that is not for it.
TreatedByReceivers == \A d \in done : d[2] \in Receivers(d[1])

\* A node has an action that was sent to that very node.
InstalledAsMeant ==
    \A n \in Nodes : table[n] = None \/ \E i \in DOMAIN orders :
        LET o == orders[i]
        IN  IF o.walk = <<>> THEN n = Last(o.route) /\ table[n] = n
            ELSE \E k \in DOMAIN o.walk : o.walk[k] = n /\ table[n] = ActionOn(o.walk, k)

\* Without multiple control setups: no action of a source-routed or multiple
\* setup ends up at a node it was not sent to, and nobody but the receivers
\* treats one.
AsMeant == TypeOK /\ TreatedByReceivers /\ InstalledAsMeant

Settled(i) ==
    /\ i \in DOMAIN orders
    /\ i \in lost \/ \A n \in Receivers(i) : <<i, n>> \in done

\* sdn-process-packets.c: "if there still are set flows in the packet, resend
\* it".  A packet that is not lost is treated by everyone it is for.
AllTreated ==
    \A i \in 1..MaxOrders : i \in DOMAIN orders ~> Settled(i)
=============================================================================
