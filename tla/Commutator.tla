----------------------------- MODULE Commutator -----------------------------
(***************************************************************************)
(* The protocol commutator (contiki-sdn/protocol-commutator.c) lets the    *)
(* SDN stack and Rime's collect share one MAC layer.  It remembers one     *)
(* callback and counts the sends under way; a second send is refused at    *)
(* once.  A callback may send again before it returns: collect does, when  *)
(* a packet has used up its transmissions and another one waits            *)
(* (collectsdn.c: node_packet_sent, timedout, send_next_packet).           *)
(***************************************************************************)
EXTENDS Naturals, Sequences

CONSTANTS Users,       \* who sends: the SDN stack and collect
          Nobody,      \* NULL
          Nesting,     \* users whose callback may send
          Width,       \* the values of sending, 2^8 in the code
          MayWrap,     \* sending may wrap while the MAC has a frame
          MaxSends,    \* bound: frames of each user
          MaySpend     \* the battery may become empty

ASSUME CommutatorAssumption ==
    /\ Nobody \notin Users /\ Nesting \subseteq Users
    /\ Width \in Nat \ (0..2) /\ MaxSends \in Nat /\ {MayWrap, MaySpend} \subseteq BOOLEAN

VARIABLES sending,    \* sends since the MAC was last free
          callback,   \* sent_cb_copy
          mac,        \* the frames the MAC layer has and has not reported
          battery,    \* em_has_battery
          \* For the properties:
          sent,       \* how many frames each user has sent
          finished,   \* per frame, the status the MAC gave it
          reports     \* per frame, what was reported, and to whom

vars == <<sending, callback, mac, battery, sent, finished, reports>>

Frames == Users \X (1..MaxSends)
\* MAC_TX_OK, MAC_TX_ERR, and what stands for no acknowledgement or collision
Statuses == {"OK", "NOACK", "ERR"}

Init ==
    /\ sending = 0 /\ callback = Nobody
    /\ mac = <<>> /\ battery = TRUE
    /\ sent = [u \in Users |-> 0]
    /\ finished = [f \in Frames |-> {}]
    /\ reports = [f \in Frames |-> <<>>]

NewFrame(u) == <<u, sent[u] + 1>>

\* The calls of a frame's callback, c being the user whose callback it is
Reported(r, f, c, status) == [r EXCEPT ![f] = Append(@, [to |-> c, status |-> status])]

-----------------------------------------------------------------------------
(* send *)

\* The callback is kept only for the send that goes to the MAC.
CallbackAfter(u) == IF sending = 0 THEN u ELSE callback

Passes(u) == battery /\ sending = 0

\* Fault: a refused send is only counted.
RefusedSilently(u) == reports

\* "Possible data corruption": the report comes before send returns.
Refused(u) == Reported(reports, NewFrame(u), u, "ERR")

\* With an empty battery nothing is sent and nobody told.  A frame takes
\* milliseconds: too short for the count to come round, unless MayWrap.
Send(u) ==
    /\ sent[u] < MaxSends
    /\ MayWrap \/ mac = <<>> \/ sending < Width - 1
    /\ sent' = [sent EXCEPT ![u] = @ + 1]
    /\ IF battery
       THEN /\ sending' = (sending + 1) % Width
            /\ callback' = CallbackAfter(u)
            /\ mac' = IF Passes(u) THEN Append(mac, NewFrame(u)) ELSE mac
            /\ reports' = IF sending = 0 THEN reports ELSE Refused(u)
       ELSE UNCHANGED <<sending, callback, mac, reports>>
    /\ UNCHANGED <<battery, finished>>

-----------------------------------------------------------------------------
(* llsec_sent, called by the MAC once for each frame *)

\* Fault: the first report of a disturbed transmission counts as success.
StatusForced(status) == IF sending = 1 THEN status ELSE "OK"

StatusReported(status) == IF sending = 1 THEN status ELSE "ERR"

\* What the callback may do before it returns: nothing, or a send with the
\* count already reset; the copy of its callback is erased on return.
Returns(c) ==
    /\ sending' = 0
    /\ mac' = Tail(mac) /\ UNCHANGED sent

SendsAgain(c) ==
    /\ c \in Nesting /\ sent[c] < MaxSends /\ battery
    /\ sending' = 1
    /\ mac' = Append(Tail(mac), NewFrame(c))
    /\ sent' = [sent EXCEPT ![c] = @ + 1]

MacReports(status) ==
    /\ mac # <<>>
    /\ finished' = [finished EXCEPT ![Head(mac)] = @ \union {status}]
    /\ IF callback # Nobody
       THEN /\ Returns(callback) \/ SendsAgain(callback)
            /\ callback' = Nobody
            /\ reports' = Reported(reports, Head(mac), callback, StatusReported(status))
       ELSE /\ mac' = Tail(mac)
            /\ UNCHANGED <<sending, callback, sent, reports>>
    /\ UNCHANGED battery

-----------------------------------------------------------------------------
BatteryEmpty ==
    /\ MaySpend /\ battery
    /\ battery' = FALSE
    /\ UNCHANGED <<sending, callback, mac, sent, finished, reports>>

Next ==
    \/ \E u \in Users : Send(u)
    \/ \E status \in Statuses : MacReports(status)
    \/ BatteryEmpty

\* The MAC layer gives every frame a status in the end.
Fairness == WF_vars(\E status \in Statuses : MacReports(status))

Spec == Init /\ [][Next]_vars /\ Fairness

-----------------------------------------------------------------------------
TypeOK ==
    /\ sending \in 0..(Width - 1) /\ callback \in Users \union {Nobody}
    /\ mac \in Seq(Frames) /\ battery \in BOOLEAN
    /\ sent \in [Users -> 0..MaxSends]
    /\ finished \in [Frames -> SUBSET Statuses]
    /\ reports \in [Frames -> Seq([to : Users \union {Nobody}, status : Statuses])]

\* The MAC has one frame at a time, that of the callback that is kept, and the
\* count is zero exactly when it has none.
OneUnderWay ==
    /\ Len(mac) <= 1
    /\ mac = <<>> <=> sending = 0
    /\ mac = <<>> <=> callback = Nobody
    /\ mac # <<>> => callback = Head(mac)[1]

\* A frame is reported to the user who sent it, and once.
ReportedToSender ==
    \A f \in Frames : /\ Len(reports[f]) <= 1
                      /\ \A i \in DOMAIN reports[f] : reports[f][i].to = f[1]

\* Success is reported only for what the MAC delivered: the send layer takes
\* the packet out of its queue on it.
SuccessIsTrue ==
    \A f \in Frames : \A i \in DOMAIN reports[f] :
        reports[f][i].status = "OK" => finished[f] = {"OK"}

\* Whatever the two stacks send meanwhile, a frame is reported to who sent it,
\* at most once, and as delivered only if it was, even if callbacks send again.
ReportsTrue == TypeOK /\ ReportedToSender /\ SuccessIsTrue

\* "@param sent  The callback function after the message has been sent.": what
\* the MAC has finished with is reported.
\* The code does not keep it: README, section 5.
FinishedReported ==
    \A f \in Frames : finished[f] # {} => reports[f] # <<>>

\* "@param status  MAC status": what is reported of a frame the MAC had is the
\* status the MAC gave it.
\* The code does not keep it: README, section 5.
StatusPassedOn ==
    \A f \in Frames : \A i \in DOMAIN reports[f] :
        finished[f] # {} => reports[f][i].status \in finished[f]

\* Every send is reported unless the battery is empty: the send layer waits
\* for that report and sends nothing else.
EventuallyReported ==
    \A f \in Frames : sent[f[1]] >= f[2] ~> reports[f] # <<>> \/ ~battery
=============================================================================
