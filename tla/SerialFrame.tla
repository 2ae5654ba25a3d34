---------------------------- MODULE SerialFrame ----------------------------
(***************************************************************************)
(* The bytes on the serial line: frames between boundary octets, in which  *)
(* those octets are escaped, and what the reader at either end makes of    *)
(* them.  Bytes may be lost, and the node prints text between the frames,  *)
(* or in frames of its own.                                                *)
(***************************************************************************)
EXTENDS Naturals, Sequences

CONSTANTS AtNode,      \* the reader is the node's; otherwise the PC's
          Octets,      \* the bytes of the frames and of the text
          HeaderSize,  \* sizeof(sdn_serial_packet_header_t)
          MaxPayload,  \* SDN_MAX_PACKET_SIZE
          Lengths,     \* the lengths of the frames that are sent
          Headers,     \* bytes of the headers of text in frames
          Damage       \* what the line does: "lose", "print"

SerialFrameAssumption ==
    /\ AtNode \in BOOLEAN /\ Octets \subseteq 0..255 /\ Headers \subseteq Octets
    /\ HeaderSize \in Nat \ {0} /\ MaxPayload \in Nat
    /\ Lengths \subseteq HeaderSize..(HeaderSize + MaxPayload)
    /\ Damage \subseteq {"lose", "print"}

VARIABLES line,     \* bytes under way
          buffer,   \* the frame so far: frame_length and its bytes
          escape,   \* escape_character
          overflow,
          \* For the properties:
          sent,     \* the last frame sent
          got,      \* frames handed over since it was sent
          clean,    \* frames sent since the last damage, at most two
          damaged   \* the last damage

vars == <<line, buffer, escape, overflow, sent, got, clean, damaged>>

Boundary == 126   \* FRAME_BOUNDARY_OCTET
Escape == 125     \* CONTROL_ESCAPE_OCTET

\* Bit 5 inverted
Inverted(b) == IF (b \div 32) % 2 = 1 THEN b - 32 ELSE b + 32

\* Fault: only the boundary is escaped.
EscapedBoundary(b) == IF b = Boundary THEN <<Escape, Inverted(b)>> ELSE <<b>>

Escaped(b) == IF b \in {Boundary, Escape} THEN <<Escape, Inverted(b)>> ELSE <<b>>

\* frameDecode, the same at both ends, which encodes; the header of printed text,
\* so many plain bytes, is not escaped.
Encoded(frame, plain) ==
    LET Code(i) == IF i <= plain THEN <<frame[i]>> ELSE Escaped(frame[i])
        last[k \in 0..Len(frame)] ==
            IF k = 0 THEN <<Boundary>> ELSE Code(Len(frame) + 1 - k) \o last[k - 1]
    IN  <<Boundary>> \o last[Len(frame)]

\* The node's limit is that of the payload, the PC's that of the whole frame.
Limit == IF AtNode THEN MaxPayload ELSE HeaderSize + MaxPayload

Frames == UNION {[1..n -> Octets] : n \in Lengths}

Init ==
    /\ line = <<>> /\ buffer = <<>> /\ escape = FALSE /\ overflow = FALSE
    /\ sent = <<>> /\ got = <<>> /\ clean = 2 /\ damaged = "none"

-----------------------------------------------------------------------------
\* sdn_serial_send, packetizer: one frame after the other
SendFrame(frame) ==
    /\ line = <<>>
    /\ line' = Encoded(frame, 0)
    /\ sent' = frame /\ got' = <<>>
    /\ clean' = IF clean = 0 THEN 1 ELSE 2
    /\ UNCHANGED <<buffer, escape, overflow, damaged>>

\* sdn_serial_printf
PrintFrame(frame) ==
    /\ line = <<>> /\ ~AtNode
    /\ \A i \in 1..HeaderSize : frame[i] \in Headers
    /\ line' = Encoded(frame, HeaderSize)
    /\ sent' = frame /\ got' = <<>>
    /\ clean' = IF clean = 0 THEN 1 ELSE 2
    /\ UNCHANGED <<buffer, escape, overflow, damaged>>

Read(b) == line # <<>> /\ Head(line) = b /\ line' = Tail(line) /\ UNCHANGED <<sent, clean, damaged>>

\* A byte of the frame is kept, as long as there is room.
Keep(b) ==
    IF Len(buffer) < Limit THEN buffer' = Append(buffer, b) /\ UNCHANGED overflow
    ELSE overflow' = AtNode /\ UNCHANGED buffer

\* A boundary after an escape: the node skips it, the PC goes on as with any
\* other byte.
EscapedBoundaryRead ==
    /\ Read(Boundary) /\ escape
    /\ escape' = FALSE
    /\ IF AtNode THEN UNCHANGED <<buffer, overflow>> ELSE Keep(Boundary)
    /\ UNCHANGED got

\* After an overflow the frame is given up.
GiveUp ==
    /\ Read(Boundary) /\ ~escape /\ overflow
    /\ overflow' = FALSE
    /\ buffer' = <<>>
    /\ UNCHANGED <<escape, got>>

\* The frame is handed over, unless it is too short.
EndFrame ==
    /\ Read(Boundary) /\ ~escape /\ ~overflow
    /\ got' = IF Len(buffer) >= HeaderSize THEN Append(got, buffer) ELSE got
    /\ buffer' = <<>>
    /\ UNCHANGED <<escape, overflow>>

ReadEscape ==
    /\ Read(Escape) /\ ~escape
    /\ escape' = TRUE
    /\ UNCHANGED <<buffer, overflow, got>>

ReadData ==
    /\ \E b \in 0..255 \ {Boundary} :
          /\ Read(b) /\ (b = Escape => escape)
          /\ Keep(IF escape THEN Inverted(b) ELSE b)
    /\ escape' = FALSE
    /\ UNCHANGED got

\* Bound: one byte between two frames.
LoseByte ==
    /\ "lose" \in Damage /\ line # <<>> /\ clean > 0
    /\ line' = Tail(line)
    /\ clean' = 0 /\ damaged' = "lose"
    /\ UNCHANGED <<buffer, escape, overflow, sent, got>>

\* Debug output goes over the same line without a frame.
PrintByte(b) ==
    /\ "print" \in Damage /\ line = <<>>
    /\ line' = <<b>>
    /\ clean' = 0 /\ damaged' = "print" /\ sent' = <<>> /\ got' = <<>>
    /\ UNCHANGED <<buffer, escape, overflow>>

Next ==
    \/ \E frame \in Frames : SendFrame(frame) \/ PrintFrame(frame)
    \/ EscapedBoundaryRead \/ GiveUp \/ EndFrame \/ ReadEscape \/ ReadData
    \/ LoseByte
    \/ \E b \in Octets : PrintByte(b)

Spec == Init /\ [][Next]_vars

\* No frame exceeds the limit, and nothing of a header would have to be escaped.
Conforming ==
    /\ \A n \in Lengths : n <= Limit
    /\ Headers \cap {Boundary, Escape} = {}

-----------------------------------------------------------------------------
TypeOK ==
    /\ line \in Seq(0..255) /\ Len(line) <= 2 * (HeaderSize + MaxPayload) + 2
    /\ buffer \in Seq(0..255) /\ Len(buffer) <= Limit
    /\ {escape, overflow} \subseteq BOOLEAN /\ (overflow => AtNode)
    /\ clean \in 0..2 /\ damaged \in {"none", "lose", "print"}

AllRead == line = <<>> /\ sent # <<>>

\* From the second frame after a damage on, as long as nothing else happens,
\* every frame arrives as it was sent, once, and nothing else does.
Resynchronised == AllRead /\ clean = 2 => got = <<sent>>

\* A single lost byte spoils the frame it was in and no other.
LossIsLocal == AllRead /\ clean = 1 /\ damaged = "lose" => got # <<>> /\ got[Len(got)] = sent

\* sdn-serial-packet.h: a payload of SDN_MAX_PACKET_SIZE bytes.  A frame of any
\* length that a packet can have arrives.
\* The code does not keep it: README, section 5.
WholePacketsArrive == AllRead /\ damaged = "none" => got = <<sent>>

\* sdn-serial.c: "If either of these two octets appears in the transmitted
\* data, an escape octet is sent".  Every frame that is read is the frame sent.
\* The code does not keep it: README, section 5.
EscapedThroughout == AllRead /\ damaged = "none" => \A i \in DOMAIN got : got[i] = sent
=============================================================================
