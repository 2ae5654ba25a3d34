----------------------------- MODULE MCSdnNode -----------------------------
(* One node and its neighbor, which also speaks for the controller, in three
   scenarios that differ in what may happen to the node: data and the setups of
   its flows; packets in transit and the setups of addresses; reports and
   discovery, where the sequence numbers and the window matter. *)
EXTENDS SdnNode

CONSTANTS me, peer, far, fc, f1

VARIABLE scenario   \* what this behavior is about; it never changes

MCAddrs == {me, peer, far}
MCFlows == {fc, f1}

From(type, to) == Make(type, peer, to)

Setup(type, key, hop, act) ==
    [From(type, me) EXCEPT !.key = key, !.hop = hop, !.act = act, !.real = me]

ControllerSetup == Setup("SRC_DATA_SETUP", fc, peer, "FORWARD")
FlowSetup       == Setup("SRC_DATA_SETUP", f1, peer, "FORWARD")
FlowDropSetup   == Setup("SRC_DATA_SETUP", f1, peer, "DROP")
AddressSetup    == Setup("SRC_CONTROL_SETUP", far, peer, "FORWARD")
OwnAddressSetup == [Setup("CONTROL_SETUP", far, peer, "FORWARD") EXCEPT !.real = None]
SetupForFar     == [Setup("DATA_SETUP", f1, far, "FORWARD") EXCEPT !.to = far, !.real = None]
OnItsPath       == [FlowSetup EXCEPT !.path = <<far>>, !.real = far]
PathTooShort    == [FlowSetup EXCEPT !.real = far]
ReportAck       == [From("SRC_ACK", me) EXCEPT !.act = "NEIGHBOR_REPORT", !.real = me]
DataHeard       == MakeData(peer, f1)
NeighborNew     == [MakeDiscovery("ND", peer) EXCEPT !.act = "NEW"]
ControllerNew   == [MakeDiscovery("CD", peer) EXCEPT !.act = "NEW", !.hop = peer]

HeardFlows   == {ControllerSetup, FlowSetup, FlowDropSetup, DataHeard}
HeardTransit == {SetupForFar, AddressSetup, OwnAddressSetup, OnItsPath, PathTooShort}
HeardReports == {ControllerSetup, ReportAck, NeighborNew, ControllerNew}
HeardAll == HeardFlows \union HeardTransit \union HeardReports
F1 == {f1}
Peer == {peer}
ND == {"ND"}
Some == {TRUE}

F == INSTANCE SdnNode WITH
       Heard <- HeardFlows, OwnFlows <- {}, CdHops <- {}, Beacons <- {}, NeighborNews <- {},
       SeqMod <- 1

T == INSTANCE SdnNode WITH
       Heard <- HeardTransit, AppFlows <- {}, OwnFlows <- {}, NeighborNews <- {}, SeqMod <- 1

R == INSTANCE SdnNode WITH
       Heard <- HeardReports, AppFlows <- {}, Beacons <- {}, RecvQueueSize <- 1, MaxRetransmit <- 1

ASSUME F!SdnNodeAssumption /\ T!SdnNodeAssumption /\ R!SdnNodeAssumption

AnyInit == Init /\ scenario \in {"flows", "transit", "reports"}

AnyNext ==
    \/ scenario = "flows" /\ F!Next /\ UNCHANGED scenario
    \/ scenario = "transit" /\ T!Next /\ UNCHANGED scenario
    \/ scenario = "reports" /\ R!Next /\ UNCHANGED scenario

AnySpec == AnyInit /\ [][AnyNext]_<<node, scenario>>
=============================================================================
