------------------------------ MODULE MCSerial ------------------------------
(* The serial line, in four parts.  "steady": whole frames, where nothing is
   lost and one packet may find no next hop.  "lossy": whole frames, the line may
   lose answers, and the node has a single buffer.  "node" and "pc": the bytes of
   every frame of two octets, over those that are escaped, one that an escape
   stands for, and another, as the node and as the PC reads them. *)
EXTENDS SerialLink

CONSTANTS p1, p2, q1,
          Octets, Headers, HeaderSize, Lengths, Damage   \* of SerialFrame

VARIABLES part,   \* what moves; it never changes
          line, frame, escape, overflow, written, got, clean, damaged  \* of SerialFrame

TwoRadio == {p1, p2}
OneCustom == {q1}
Second == {p2}

bytes == <<line, frame, escape, overflow, written, got, clean, damaged>>
all == <<part, vars, bytes>>

Lossy == INSTANCE SerialLink WITH Unrouted <- {}, Room <- 1, AnswersMayBeLost <- TRUE

\* The bytes as the node or as the PC reads them, with payloads of this size
Reader(AtNode, MaxPayload) == INSTANCE SerialFrame WITH buffer <- frame, sent <- written

ASSUME Lossy!LinkAssumption /\ Undisturbed
ASSUME ReaderAssumption ==
    /\ Reader(TRUE, 2)!SerialFrameAssumption /\ Reader(TRUE, 2)!Conforming
    /\ Reader(FALSE, 1)!SerialFrameAssumption /\ Reader(FALSE, 1)!Conforming

AllInit == part \in {"steady", "lossy", "node", "pc"} /\ Init /\ Reader(TRUE, 2)!Init

LinkMoves(p) == part = p /\ UNCHANGED <<part, bytes>>
BytesMove(p) == part = p /\ UNCHANGED <<part, vars>>

AllNext ==
    \/ LinkMoves("steady") /\ Next
    \/ LinkMoves("lossy") /\ Lossy!Next
    \/ BytesMove("node") /\ Reader(TRUE, 2)!Next
    \/ BytesMove("pc") /\ Reader(FALSE, 1)!Next

\* The fairness of SerialLink, on the steps of this module
AllFairness ==
    /\ WF_all(LinkMoves("steady") /\ (ReceiveAck \/ ReceiveNack \/ ReceiveId \/ ReceiveRadio))
    /\ WF_all(LinkMoves("steady") /\ FrameIn)
    /\ WF_all(LinkMoves("steady") /\ (HandleNew \/ HandleContinue \/ HandleRaw \/ HandleCustom))
    /\ WF_all(LinkMoves("steady") /\ (Transmitted \/ Failed))

AllSpec == AllInit /\ [][AllNext]_all /\ AllFairness

-----------------------------------------------------------------------------
\* Whatever the radio reports, the PC's queue empties.
SteadyEmpties == part = "steady" => QueueEmpties

\* Whatever the line loses or carries between frames, at either reader it costs
\* no more than the frame it was in and the one after.
FramesRecover ==
    /\ part = "node" => /\ Reader(TRUE, 2)!TypeOK
                        /\ Reader(TRUE, 2)!Resynchronised /\ Reader(TRUE, 2)!LossIsLocal
    /\ part = "pc" => /\ Reader(FALSE, 1)!TypeOK
                      /\ Reader(FALSE, 1)!Resynchronised /\ Reader(FALSE, 1)!LossIsLocal
=============================================================================
