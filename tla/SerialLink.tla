----------------------------- MODULE SerialLink -----------------------------
(***************************************************************************)
(* The controller on a PC and its node on the serial line.  The PC sends   *)
(* the head of its queue and waits, without a timeout, for the node to     *)
(* answer that it was transmitted by radio or given up.  The node takes    *)
(* frames into two buffers in turn, hands them over by events, and sends   *)
(* beacons of its own through the same queue.  Frames are whole here;      *)
(* SerialFrame has their bytes.                                            *)
(***************************************************************************)
EXTENDS Naturals, SequencesExt, FiniteSetsExt

CONSTANTS Radio,            \* packets the PC sends by radio
          Custom,           \* packets for the node itself, of types 98 and 99
          Unrouted,         \* packets the PC finds no next hop for
          SendCapacity,     \* places of the PC's send queue
          Room,             \* places, and buffers, for the node's send queue
          Beacons,          \* bound: the discovery packets of the node
          BeaconsMayFail,   \* the node may give up a beacon
          AnswersMayBeLost, \* the line may lose a frame to the PC
          Clicks,           \* bound: the times the user asks for the node's id
          MaxRetransmit,    \* SDN_MAX_RETRANSMIT
          MaxNack,          \* the limit of count_noack
          Beacon, IdRequest \* a beacon in the queue, a request on the line

ASSUME LinkAssumption ==
    /\ Radio \cap Custom = {} /\ Unrouted \subseteq Radio
    /\ {Beacon, IdRequest} \cap (Radio \union Custom) = {} /\ Beacon # IdRequest
    /\ {SendCapacity, Room, MaxRetransmit, MaxNack} \subseteq Nat \ {0}
    /\ {Beacons, Clicks} \subseteq Nat /\ {BeaconsMayFail, AnswersMayBeLost} \subseteq BOOLEAN

VARIABLES queue,     \* the PC's send queue
          waiting,   \* SDN_SEND_ACK_WAIT
          noacks,    \* count_noack
          known,     \* initDone: the node's id arrived, the controller runs
          down, up,  \* frames on the line, to the node and to the PC
          buffer,    \* p1 and p2
          current,   \* the buffer the next frame goes to
          events,    \* events posted at the node
          handling,  \* the serial process waits for PROCESS_EVENT_CONTINUE
          sendq,     \* the node's send queue
          retries,   \* count_retransmit
          fresh,     \* packets that are not queued yet
          beacons, clicks,  \* what is left of the bounds
          \* For the properties:
          sent,      \* packets transmitted, in order
          order,     \* packets queued, in order
          failures,  \* answers that the head of queue was given up
          lost,      \* a packet or an answer was lost between PC and node
          stray      \* a packet was taken from an empty queue

pc == <<queue, waiting, noacks, known, failures, stray>>
node == <<buffer, current, events, handling, sendq, retries>>
bounds == <<fresh, beacons, clicks>>
history == <<sent, order, lost>>
vars == <<pc, down, up, node, bounds, history>>

Packets == Radio \union Custom
Frames == Packets \union {IdRequest}

Event(ev, buf, frame) == [ev |-> ev, buf |-> buf, frame |-> frame]
Answer(kind, packet) == [kind |-> kind, of |-> packet]

Init ==
    /\ queue = <<>> /\ waiting = FALSE /\ noacks = 0 /\ known = FALSE
    /\ down = <<>> /\ up = <<>>
    /\ buffer = <<IdRequest, IdRequest>> /\ current = 1
    /\ events = <<>> /\ handling = FALSE
    /\ sendq = <<>> /\ retries = 0
    /\ fresh = Packets /\ beacons = Beacons /\ clicks = Clicks
    /\ sent = <<>> /\ order = <<>> /\ failures = 0 /\ lost = FALSE /\ stray = FALSE

-----------------------------------------------------------------------------
(* The PC *)

\* Packets without a next hop leave the queue until one has it.
Routed(q) ==
    LET i == SelectInSeq(q, LAMBDA p : p \notin Unrouted)
    IN  IF i = 0 THEN <<>> ELSE SubSeq(q, i, Len(q))

\* sdn_send_down with the queue q: it does nothing while an answer is awaited.
SendDown(q, awaited) ==
    IF awaited THEN queue' = q /\ UNCHANGED <<waiting, down>>
    ELSE /\ queue' = Routed(q)
         /\ waiting' = (Routed(q) # <<>>)
         /\ down' = IF Routed(q) = <<>> THEN down ELSE Append(down, Head(Routed(q)))

\* A packet of the controller finds a place in the queue or is dropped.
Enqueue(p) ==
    /\ fresh' = fresh \ {p}
    /\ IF Len(queue) < SendCapacity
       THEN /\ SendDown(Append(queue, p), waiting)
            /\ order' = Append(order, p)
       ELSE UNCHANGED <<queue, waiting, down, order>>

\* The timer of the controller has a setup to send.
Queue(p) ==
    /\ known /\ p \in fresh
    /\ Enqueue(p)
    /\ UNCHANGED <<noacks, known, failures, stray, up, node, beacons, clicks, sent, lost>>

\* getIdTimer, one request at a time, and the button.
RequestId ==
    /\ \/ /\ ~known
          /\ IdRequest \notin ToSet(down) \union {e.frame : e \in ToSet(events)}
          /\ \A i \in DOMAIN up : up[i].kind # "ID"
          /\ clicks' = clicks
       \/ clicks > 0 /\ clicks' = clicks - 1
    /\ down' = Append(down, IdRequest)
    /\ UNCHANGED <<pc, up, node, fresh, beacons, history>>

\* The head leaves the queue; an empty queue gives out what it gave out before.
Dequeued == IF queue = <<>> THEN <<>> ELSE Tail(queue)

\* sdn_send_done(SERIAL_TX_ACK): count_noack stays as it is.
ReceiveAck ==
    /\ up # <<>> /\ Head(up).kind = "ACK" /\ up' = Tail(up)
    /\ SendDown(Dequeued, FALSE)
    /\ failures' = 0
    /\ stray' = (stray \/ queue = <<>>)
    /\ UNCHANGED <<noacks, known, node, bounds, history>>

\* Fault: the head is never given up.
ReceiveNackForever ==
    /\ up # <<>> /\ Head(up).kind = "NACK" /\ up' = Tail(up)
    /\ SendDown(queue, FALSE)
    /\ UNCHANGED <<noacks, known, failures, stray, node, bounds, history>>

\* sdn_send_done(SERIAL_TX_NACK): the head again, or given up.
ReceiveNack ==
    /\ up # <<>> /\ Head(up).kind = "NACK" /\ up' = Tail(up)
    /\ IF noacks + 1 = MaxNack
       THEN /\ noacks' = 0 /\ failures' = 0
            /\ stray' = (stray \/ queue = <<>>)
            /\ SendDown(Dequeued, FALSE)
       ELSE /\ noacks' = noacks + 1
            /\ failures' = IF queue = <<>> THEN 0 ELSE failures + 1
            /\ stray' = stray
            /\ SendDown(queue, FALSE)
    /\ UNCHANGED <<known, node, bounds, history>>

\* processNodeIdMessage
ReceiveId ==
    /\ up # <<>> /\ Head(up).kind = "ID" /\ up' = Tail(up)
    /\ known' = TRUE
    /\ UNCHANGED <<queue, waiting, noacks, failures, stray, down, node, bounds, history>>

\* controller_receive: the packet from the radio asks for packet p.
ReceiveRadio ==
    /\ up # <<>> /\ Head(up).kind = "RADIO" /\ up' = Tail(up)
    /\ IF known /\ Head(up).of \in fresh THEN Enqueue(Head(up).of)
       ELSE UNCHANGED <<queue, waiting, down, fresh, order>>
    /\ UNCHANGED <<noacks, known, failures, stray, node, beacons, clicks, sent, lost>>

-----------------------------------------------------------------------------
(* The node *)

\* Fault: every frame goes to the same buffer.
FrameInSame ==
    /\ down # <<>> /\ down' = Tail(down)
    /\ buffer' = [buffer EXCEPT ![current] = Head(down)]
    /\ events' = Append(events, Event("new", current, Head(down)))
    /\ UNCHANGED <<pc, up, current, handling, sendq, retries, bounds, history>>

\* byteReceived, at the end of a frame
FrameIn ==
    /\ down # <<>> /\ down' = Tail(down)
    /\ buffer' = [buffer EXCEPT ![current] = Head(down)]
    /\ events' = Append(events, Event("new", current, Head(down)))
    /\ current' = 3 - current
    /\ UNCHANGED <<pc, up, handling, sendq, retries, bounds, history>>

\* The serial process decodes what is in the buffer, and waits until the
\* others have handled a packet.
Decode(e) ==
    LET frame == buffer[e.buf]
    IN  IF frame = IdRequest
        THEN /\ up' = Append(up, Answer("ID", IdRequest))
             /\ events' = Tail(events) /\ UNCHANGED handling
        ELSE /\ events' = Tail(events) \o <<Event(IF frame \in Radio THEN "raw" ELSE "custom", e.buf, frame),
                                            Event("continue", e.buf, frame)>>
             /\ handling' = TRUE /\ UNCHANGED up

\* A new frame.  While the process waits, the event is taken and dropped.
HandleNew ==
    /\ events # <<>> /\ Head(events).ev = "new"
    /\ IF handling THEN /\ events' = Tail(events)
                        /\ lost' = (lost \/ Head(events).frame # IdRequest)
                        /\ UNCHANGED <<up, handling>>
       ELSE Decode(Head(events)) /\ UNCHANGED lost
    /\ UNCHANGED <<pc, down, buffer, current, sendq, retries, bounds, sent, order>>

HandleContinue ==
    /\ events # <<>> /\ Head(events).ev = "continue"
    /\ events' = Tail(events) /\ handling' = FALSE
    /\ UNCHANGED <<pc, down, up, buffer, current, sendq, retries, bounds, history>>

\* sdn_raw_binary_packet_ev: without a buffer or a place the packet is dropped
\* and not answered.
HandleRaw ==
    /\ events # <<>> /\ Head(events).ev = "raw"
    /\ events' = Tail(events)
    /\ IF Len(sendq) < Room THEN sendq' = Append(sendq, buffer[Head(events).buf]) /\ UNCHANGED lost
       ELSE lost' = TRUE /\ UNCHANGED sendq
    /\ UNCHANGED <<pc, down, up, buffer, current, handling, retries, bounds, sent, order>>

\* sdn_custom_packet_ev: answered at once.
HandleCustom ==
    /\ events # <<>> /\ Head(events).ev = "custom"
    /\ events' = Tail(events)
    /\ up' = Append(up, Answer("ACK", buffer[Head(events).buf]))
    /\ UNCHANGED <<pc, down, buffer, current, handling, sendq, retries, bounds, history>>

\* sdn_send_nd: one more beacon in the queue, if there is room.
SendBeacon ==
    /\ beacons > 0 /\ beacons' = beacons - 1
    /\ sendq' = IF Len(sendq) < Room THEN Append(sendq, Beacon) ELSE sendq
    /\ UNCHANGED <<pc, down, up, buffer, current, events, handling, retries, fresh, clicks, history>>

\* sdn_send_done(MAC_TX_OK): answered, unless it was a beacon.
Transmitted ==
    /\ sendq # <<>> /\ sendq' = Tail(sendq) /\ retries' = 0
    /\ IF Head(sendq) = Beacon THEN UNCHANGED <<up, sent>>
       ELSE up' = Append(up, Answer("ACK", Head(sendq))) /\ sent' = Append(sent, Head(sendq))
    /\ UNCHANGED <<pc, down, buffer, current, events, handling, bounds, order, lost>>

\* sdn_send_done(MAC_TX_NOACK or MAC_TX_ERR): whatever is given up is answered.
Failed ==
    /\ sendq # <<>> /\ (BeaconsMayFail \/ Head(sendq) # Beacon)
    /\ IF retries + 1 = MaxRetransmit
       THEN /\ sendq' = Tail(sendq) /\ retries' = 0
            /\ up' = Append(up, Answer("NACK", Head(sendq)))
       ELSE /\ retries' = retries + 1 /\ UNCHANGED <<sendq, up>>
    /\ UNCHANGED <<pc, down, buffer, current, events, handling, bounds, history>>

\* sdn_receive at the controller node: what is new and not expired goes up.
Hear(p) ==
    /\ p \in fresh /\ \A i \in DOMAIN up : up[i].kind # "RADIO"   \* bound: one at a time
    /\ up' = Append(up, Answer("RADIO", p))
    /\ UNCHANGED <<pc, down, node, bounds, history>>

LoseAnswer ==
    /\ AnswersMayBeLost /\ up # <<>>
    /\ up' = Tail(up)
    /\ lost' = (lost \/ Head(up).kind \in {"ACK", "NACK"})
    /\ UNCHANGED <<pc, down, node, bounds, sent, order>>

Next ==
    \/ \E p \in Packets : Queue(p) \/ Hear(p)
    \/ RequestId
    \/ ReceiveAck \/ ReceiveNack \/ ReceiveId \/ ReceiveRadio
    \/ FrameIn \/ HandleNew \/ HandleContinue \/ HandleRaw \/ HandleCustom
    \/ SendBeacon \/ Transmitted \/ Failed
    \/ LoseAnswer

Spec == Init /\ [][Next]_vars

\* The PC reads the line, the node takes frames and events, and the radio
\* reports each transmission, be it always to say that it failed.
Fairness ==
    /\ WF_vars(ReceiveAck \/ ReceiveNack \/ ReceiveId \/ ReceiveRadio)
    /\ WF_vars(FrameIn)
    /\ WF_vars(HandleNew \/ HandleContinue \/ HandleRaw \/ HandleCustom)
    /\ WF_vars(Transmitted \/ Failed)

FairSpec == Spec /\ Fairness

\* The node gives up no beacon of its own, and the user clicks once at most.
Undisturbed == ~BeaconsMayFail /\ Clicks <= 1

-----------------------------------------------------------------------------
TypeOK ==
    /\ queue \in Seq(Packets) /\ Len(queue) <= SendCapacity
    /\ noacks \in 0..(MaxNack - 1) /\ retries \in 0..(MaxRetransmit - 1)
    /\ {waiting, known, handling, lost, stray} \subseteq BOOLEAN
    /\ down \in Seq(Frames)
    /\ up \in Seq([kind : {"ACK", "NACK", "ID", "RADIO"}, of : Frames \union {Beacon}])
    /\ buffer \in [1..2 -> Frames] /\ current \in 1..2
    /\ events \in Seq([ev : {"new", "raw", "custom", "continue"}, buf : 1..2, frame : Frames])
    /\ sendq \in Seq(Packets \union {Beacon}) /\ Len(sendq) <= Room

Count(s, Test(_)) == Quantify(DOMAIN s, LAMBDA i : Test(s[i]))

\* The forms the packet that waits for an answer can have: a frame on the
\* line, an event, a place in the node's queue, an answer.
Outstanding ==
    Count(down, LAMBDA f : f \in Packets)
    + Count(events, LAMBDA e : e.ev # "continue" /\ e.frame \in Packets)
    + Count(sendq, LAMBDA p : p # Beacon)
    + Count(up, LAMBDA a : a.kind \in {"ACK", "NACK"})

\* The PC has at most one packet out, waits exactly when it has, and waits for
\* nothing only after something was lost.
OneOutstanding ==
    /\ Outstanding <= 1
    /\ ~waiting => Outstanding = 0 /\ queue = <<>>
    /\ waiting => queue # <<>> /\ (Outstanding = 1 \/ lost)

\* An answer is about the head of the queue: the packet that sdn_send_done
\* takes off is the one the node transmitted or gave up.
AnswersTheHead ==
    \A i \in DOMAIN up : up[i].kind \in {"ACK", "NACK"} => queue # <<>> /\ up[i].of = Head(queue)

\* What an event points to is still the frame that was received: two buffers
\* are enough for the one packet the PC has out and one request for the id.
BuffersIntact ==
    \A i \in DOMAIN events : events[i].ev # "continue" => buffer[events[i].buf] = events[i].frame

\* Packets go out in the order in which they were queued, each at most once.
SentInOrder ==
    LET place(p) == SelectInSeq(order, LAMBDA q : q = p)
    IN  \A i, j \in DOMAIN sent : i < j => place(sent[i]) < place(sent[j])

\* If Undisturbed: one packet is between PC and node at a time, an answer is
\* about it, what the node decodes is what was sent, and packets go out in the
\* order in which they were queued, even if answers are lost.
LinkInOrder == TypeOK /\ OneOutstanding /\ AnswersTheHead /\ BuffersIntact /\ SentInOrder

\* Whatever fails, the PC's queue empties.
QueueEmpties == <>[](queue = <<>>)

\* sdn-serial-send.c: "Reached SDN_MAX_MAC_NOACK, giving up".  What is counted
\* are the failures of the packet that is given up.
\* The code does not keep it: README, section 5.
CountsTheHead == noacks = failures

\* sdn-serial-send.c: "PACKET DEQUEUE NULL" is an error.  No answer takes a
\* packet from an empty queue.
\* The code does not keep it: README, section 5.
NothingStray == ~stray

\* sdn-serial.c: "This Thread handles packet. It decodes and takes necessary
\* action."  The event of a frame is never dropped.
\* The code does not keep it: README, section 5.
FramesDecoded == [][events # <<>> /\ Head(events).ev = "new" /\ events' = Tail(events) => up' # up]_vars
=============================================================================
