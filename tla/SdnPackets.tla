----------------------------- MODULE SdnPackets -----------------------------
(***************************************************************************)
(* The packets of sdn-common/sdn-protocol.h, reduced to the fields that    *)
(* decide what a node does with them.  One record shape serves all types:  *)
(*                                                                         *)
(*   to    routing field: destination flow id, or destination address      *)
(*   key   subject of a request or a setup: a flow id or an address        *)
(*   hop   action parameter of a setup                                     *)
(*   act   action of a setup; the acknowledged type in an acknowledgement; *)
(*         "NEW" in a discovery packet that tells the receiver something   *)
(*   ack   acknowledged sequence number                                    *)
(*   path  source route, in the reverse order the code stores it           *)
(*   real  real destination of a source-routed packet                      *)
(***************************************************************************)
EXTENDS Integers, Sequences

CONSTANTS Addrs,            \* node addresses
          Broadcast,        \* sdn_addr_broadcast
          Flows,            \* flow ids
          ControllerFlow,   \* SDN_CONTROLLER_FLOW
          None,             \* an unused field
          SeqMod            \* sequence numbers are uint8_t: 256 in the code

ASSUME PacketsAssumption ==
    /\ ControllerFlow \in Flows
    /\ SeqMod \in Nat \ {0}

\* Packet types, by the field the receiver routes on.
ByFlow    == {"CONTROL_REQUEST", "DATA_REQUEST", "NEIGHBOR_REPORT", "ENERGY_REPORT",
              "DATA", "ACK_BY_FLOW", "REGISTER"}
ByAddress == {"CONTROL_SETUP", "DATA_SETUP", "ACK_BY_ADDRESS"}
BySource  == {"SRC_CONTROL_SETUP", "SRC_DATA_SETUP", "SRC_ACK"}
NotRouted == {"ND", "CD"}

Types == ByFlow \union ByAddress \union BySource \union NotRouted

\* The types a node retransmits until the controller answers (sld_await_ack).
Acknowledged == {"NEIGHBOR_REPORT", "DATA_REQUEST", "CONTROL_REQUEST", "REGISTER"}

Packet ==
    [type : Types \union {"NONE"}, src : Addrs \union {None}, seq : 0..(SeqMod - 1),
     to   : Addrs \union Flows \union {Broadcast, None},
     key  : Addrs \union Flows \union {None}, hop : Addrs \union {None},
     act  : {"FORWARD", "RECEIVE", "DROP", "NEW", "NONE"} \union Types,
     ack  : 0..(SeqMod - 1), path : Seq(Addrs), real : Addrs \union {None}]

DataSetups    == {"DATA_SETUP", "SRC_DATA_SETUP"}
ControlSetups == {"CONTROL_SETUP", "SRC_CONTROL_SETUP"}

\* The layout of a type decides what its fields can hold: a packet of the type
\* carries a flow id where its struct has one and an address where it has one.
WellFormed ==
    {p \in Packet :
        /\ p.type # "NONE"
        /\ p.type \in ByFlow => p.to \in Flows
        /\ p.type \in ByAddress \union BySource => p.to \in Addrs
        /\ p.type \in BySource => p.real \in Addrs
        /\ p.type \in DataSetups => p.key \in Flows
        /\ p.type \in ControlSetups => p.key \in Addrs
        /\ p.type \in DataSetups \union ControlSetups =>
              p.hop \in Addrs /\ p.act \in {"FORWARD", "RECEIVE", "DROP"}
        /\ p.type = "CD" /\ p.act = "NEW" => p.hop \in Addrs}

\* MAKE_SDN_HEADER and the routing field, over zeroed memory.
Make(type, src, to) ==
    [type |-> type, src |-> src, seq |-> 0, to |-> to, key |-> None, hop |-> None,
     act |-> "NONE", ack |-> 0, path |-> <<>>, real |-> None]

\* Zeroed memory: no packet.
NoPacket == Make("NONE", None, None)

\* What a node itself sends (sdn-send-packet.c); everything goes to the controller.
MakeRequest(type, src, key)   == [Make(type, src, ControllerFlow) EXCEPT !.key = key]
MakeNeighborReport(src)       == Make("NEIGHBOR_REPORT", src, ControllerFlow)
MakeEnergyReport(src)         == Make("ENERGY_REPORT", src, ControllerFlow)
MakeData(src, flow)           == Make("DATA", src, flow)
MakeDiscovery(type, src)      == Make(type, src, Broadcast)

\* The acknowledgement of a setup carries the setup it confirms.
MakeSetupAck(src, acked, key, hop) ==
    [Make("ACK_BY_FLOW", src, ControllerFlow) EXCEPT !.act = acked, !.key = key, !.hop = hop]
=============================================================================
