--------------------------- MODULE MCReceivePath ---------------------------
(* What stands between the radio and sdn_core: the table of sequence numbers
   and the rings of packets.  In each behavior one of them moves: the table of
   a node with as many sources as places, each on a link of its own; the table
   of a node with more sources than places, which restart; the send queue; the
   receive queue. *)
EXTENDS SeqnoHistory, SdnQueue

CONSTANTS s1, s2, s3, me, l1, l2, zero, p1, p2, n1, null

VARIABLE part   \* what moves; it never changes

FourSources == {s1, s2, s3, me}
TwoLinks == {l1, l2}
OneWay == [s \in Sources |-> IF s = s1 THEN {l1} ELSE {l2}]
Many == [s \in Sources |-> CASE s \in {s1, s2} -> 2 [] s = s3 -> 1 [] s = me -> 0]
Few == [s \in Sources |-> CASE s = s1 -> 5 [] s = s2 -> 2 [] s = s3 -> 0 [] s = me -> 1]
TwoPackets == {p1, p2}
TwoHops == {zero, n1}

Crowd == INSTANCE SeqnoHistory WITH
           Controller <- s2, MaxSent <- Many, MayRestart <- TRUE

ReceiveQueue == INSTANCE SdnQueue WITH Receiving <- TRUE

ASSUME Crowd!SeqnoHistoryAssumption /\ ReceiveQueue!QueueAssumption /\ OneWayEach

Parts == {"link", "crowd", "send queue", "receive queue"}

PathInit == part \in Parts /\ Init /\ QueueInit

PathNext ==
    \/ part = "link" /\ Next /\ UNCHANGED <<part, queueVars>>
    \/ part = "crowd" /\ Crowd!Next /\ UNCHANGED <<part, queueVars>>
    \/ part = "send queue" /\ QueueNext /\ UNCHANGED <<part, vars>>
    \/ part = "receive queue" /\ ReceiveQueue!QueueNext /\ UNCHANGED <<part, vars>>

PathSpec == PathInit /\ [][PathNext]_<<part, vars, queueVars>>

-----------------------------------------------------------------------------
\* As long as each source comes over one link and has a place, a packet is
\* treated once, however often its link repeats it, and with counters that wrap
\* what is dropped as a duplicate has been treated before (sdn-receive.c: "Check
\* for duplicate packet by comparing the sequence number of the incoming packet
\* with the last few ones we saw.").
LinkExact == part = "link" => TreatedOnce /\ NothingMissed
=============================================================================
