---------------------------- MODULE SeqnoHistory ----------------------------
(***************************************************************************)
(* How a node recognises duplicates: by the last sequence number of each   *)
(* of the SDN_MAX_SEQNOS sources it heard most recently.  The packets come *)
(* over links that lose and repeat them; the packets of one link stay in   *)
(* order.  The controller's packets have two counters, that of the program *)
(* on the PC and that of its node, under one source address.               *)
(***************************************************************************)
EXTENDS Naturals, Sequences, FiniteSets

CONSTANTS Sources,     \* the nodes whose packets arrive
          Self,        \* sdn_node_addr, of the node that receives
          Controller,  \* the source with two counters, if it is in Sources
          NoSource,    \* the address in a place that was never written
          Links,       \* neighbors that hand packets on
          Via,         \* the links the packets of each source come over
          Size,        \* SDN_MAX_SEQNOS
          SeqMod,      \* the values of seq_no, 2^8 in the code
          MaxSent,     \* bound: packets of each source
          Gap,         \* bound: packets of a source since the last one heard
          MayRestart   \* sources may restart

ASSUME SeqnoHistoryAssumption ==
    /\ NoSource \notin Sources /\ Via \in [Sources -> SUBSET Links]
    /\ Size \in Nat \ {0} /\ SeqMod \in Nat \ {0}
    /\ MaxSent \in [Sources -> Nat] /\ Gap \in Nat /\ MayRestart \in BOOLEAN

VARIABLES history,   \* received_seqnos, the most recent source first
          counter,   \* sdn_seq_no of each source
          line,      \* sdn_seq_no of the program on the controller PC
          air,       \* per link, the packets under way
          \* For the properties:
          sent,      \* how many packets each source has sent; a packet's id
          heard,     \* per source, what was registered last, and when
          now,       \* how often something was registered
          treated,   \* pairs <<source, id>>: the packet went on to sdn_core
          again,     \* packets that went on to sdn_core a second time
          missed     \* packets dropped as duplicates that never went on

seqnoVars == <<history, heard, now>>
vars == <<history, counter, line, air, sent, heard, now, treated, again, missed>>

Places == 1..Size
SeqNos == 0..(SeqMod - 1)
EmptyPlace == [sender |-> NoSource, seqno |-> 0]

Init ==
    /\ history = [i \in Places |-> EmptyPlace]
    /\ counter = [s \in Sources |-> 0] /\ line = 0
    /\ air = [l \in Links |-> <<>>]
    /\ sent = [s \in Sources |-> 0]
    /\ heard = [s \in Sources |-> [seqno |-> 0, id |-> 0, time |-> 0]]
    /\ now = 0 /\ treated = {} /\ again = {} /\ missed = {}

-----------------------------------------------------------------------------
(* The receiving node *)

\* Fault: an older number, as the counter goes, is a duplicate as well.
IsDuplicateOlder(h, p) ==
    \/ p.source = Self
    \/ \E i \in Places : h[i].sender = p.source /\ p.seqno <= h[i].seqno

\* sdn_seqno_is_duplicate; a sender has one place (see RecentKept).
IsDuplicate(h, p) ==
    \/ p.source = Self
    \/ \E i \in Places : h[i].sender = p.source /\ h[i].seqno = p.seqno

\* The place whose content is overwritten: that of the sender, or the last
LastMoved(h, source) ==
    IF \E i \in Places : h[i].sender = source
    THEN CHOOSE i \in Places : h[i].sender = source
    ELSE Size

\* Fault: the place of the sender itself is kept.
RegisteredKeeping(h, p) ==
    [i \in Places |->
        IF i = 1 THEN [sender |-> p.source, seqno |-> p.seqno]
        ELSE IF i < LastMoved(h, p.source) THEN h[i - 1] ELSE h[i]]

\* sdn_seqno_register
Registered(h, p) ==
    [i \in Places |->
        IF i = 1 THEN [sender |-> p.source, seqno |-> p.seqno]
        ELSE IF i <= LastMoved(h, p.source) THEN h[i - 1] ELSE h[i]]

\* The packet leaves the link, or stays for the sender to repeat it.
Arrives(l, p) ==
    /\ air[l] # <<>> /\ Head(air[l]) = p
    /\ air' \in {air, [air EXCEPT ![l] = Tail(@)]}
    /\ UNCHANGED <<counter, line, sent>>

\* sdn_receive, up to the receive queue
Accept(l, p) ==
    /\ Arrives(l, p) /\ ~IsDuplicate(history, p)
    /\ history' = Registered(history, p)
    /\ now' = now + 1
    /\ heard' = [heard EXCEPT ![p.source] = [seqno |-> p.seqno, id |-> p.id, time |-> now + 1]]
    /\ treated' = treated \union {<<p.source, p.id>>}
    /\ again' = IF <<p.source, p.id>> \in treated THEN again \union {<<p.source, p.id>>} ELSE again
    /\ UNCHANGED missed

\* Without a buffer, with a full queue or an expired thl nothing is registered.
Refuse(l, p) ==
    /\ Arrives(l, p) /\ ~IsDuplicate(history, p)
    /\ UNCHANGED <<seqnoVars, treated, again, missed>>

DropDuplicate(l, p) ==
    /\ Arrives(l, p) /\ IsDuplicate(history, p)
    /\ missed' = IF p.source = Self \/ <<p.source, p.id>> \in treated THEN missed
                 ELSE missed \union {<<p.source, p.id>>}
    /\ UNCHANGED <<seqnoVars, treated, again>>

-----------------------------------------------------------------------------
(* The sources and the links *)

Launch(s, l, seqno) ==
    /\ l \in Via[s] /\ sent[s] < MaxSent[s]
    /\ \/ sent[s] - heard[s].id < Gap
       \/ heard[s].time = 0 /\ \A k \in Links : \A i \in DOMAIN air[k] : air[k][i].source # s
    /\ sent' = [sent EXCEPT ![s] = @ + 1]
    /\ air' = [air EXCEPT ![l] = Append(@, [source |-> s, seqno |-> seqno, id |-> sent[s] + 1])]
    /\ UNCHANGED <<seqnoVars, treated, again, missed>>

\* sdn_seq_no++ on eight bits
Following(n) == (n + 1) % SeqMod

\* INCREMENT_SEQ_NO: a packet of the source's own
Send(s, l) ==
    /\ Launch(s, l, counter[s])
    /\ counter' = [counter EXCEPT ![s] = Following(@)]
    /\ UNCHANGED line

\* A packet of the program on the PC; its node moves its own counter away.
SendLine(l) ==
    /\ Controller \in Sources
    /\ Launch(Controller, l, line)
    /\ line' = Following(line)
    /\ counter' = [counter EXCEPT ![Controller] = (line + Size) % SeqMod]

\* The packet is lost, goes to another neighbor, or is repeated no more.
Lose(l) ==
    /\ air[l] # <<>>
    /\ air' = [air EXCEPT ![l] = Tail(@)]
    /\ UNCHANGED <<seqnoVars, counter, line, sent, treated, again, missed>>

Restart(s) ==
    /\ MayRestart /\ counter[s] # 0
    /\ counter' = [counter EXCEPT ![s] = 0]
    /\ UNCHANGED <<seqnoVars, line, air, sent, treated, again, missed>>

Next ==
    \/ \E s \in Sources, l \in Links : Send(s, l)
    \/ \E l \in Links : SendLine(l) \/ Lose(l)
    \/ \E l \in Links : air[l] # <<>> /\ LET p == Head(air[l])
                                        IN  Accept(l, p) \/ Refuse(l, p) \/ DropDuplicate(l, p)
    \/ \E s \in Sources : Restart(s)

Spec == Init /\ [][Next]_vars

-----------------------------------------------------------------------------
Packets == [source : Sources, seqno : SeqNos, id : Nat]

TypeOK ==
    /\ history \in [Places -> [sender : Sources \union {NoSource}, seqno : SeqNos]]
    /\ counter \in [Sources -> SeqNos] /\ line \in SeqNos
    /\ air \in [Links -> Seq(Packets)]
    /\ sent \in [Sources -> Nat]
    /\ heard \in [Sources -> [seqno : SeqNos, id : Nat, time : 0..now]] /\ now \in Nat
    /\ {treated, again, missed} \subseteq SUBSET (Sources \X Nat)

\* When what a place holds was registered
Time == [i \in Places |->
            IF history[i].sender = NoSource THEN 0 ELSE heard[history[i].sender].time]

\* The number at a sender's place is its last one.
NumbersAreLast ==
    \A i \in Places : history[i].sender # NoSource =>
        history[i].seqno = heard[history[i].sender].seqno /\ Time[i] > 0

\* The more recent comes first, and empty places last.
RecentFirst ==
    \A i, j \in Places : i < j /\ history[j].sender # NoSource => Time[i] > Time[j]

\* Who was heard and is no longer in the table was heard before all who are,
\* and the table is full.
OldestForgotten ==
    \A s \in Sources :
        \/ heard[s].time = 0
        \/ \E i \in Places : history[i].sender = s
        \/ \A i \in Places : Time[i] > heard[s].time

\* The moves in the array keep it what the duplicate test takes it for: the
\* last number of each of the sources heard most recently, and one place each.
RecentKept == NumbersAreLast /\ RecentFirst /\ OldestForgotten

\* The other nodes that send
Active == {s \in Sources \ {Self} : MaxSent[s] > 0}

\* Each source comes over one link, stays up and has one counter; those that
\* send have a place each; and a number does not come round again before the
\* packets that had it are gone.
OneWayEach ==
    /\ \A s \in Sources \ {Self} : \A k, l \in Via[s] : k = l
    /\ IsFiniteSet(Active) /\ Cardinality(Active) <= Size
    /\ Gap < SeqMod /\ ~MayRestart /\ Controller \notin Sources \ {Self}

\* Under OneWayEach no packet is treated twice, however often it is repeated.
\* sdn-receive.c: "Check for duplicate packet by comparing the sequence number
\* of the incoming packet with the last few ones we saw."
TreatedOnce == again = {}

\* "Packet is duplicated, dropping.": what is dropped has been treated before.
NothingMissed == missed = {}
=============================================================================
