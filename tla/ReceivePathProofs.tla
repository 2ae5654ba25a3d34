-------------------------- MODULE ReceivePathProofs -------------------------
(***************************************************************************)
(* What stands between the radio and sdn_core, for every size: the array   *)
(* of sequence numbers and the rings of packets.                           *)
(*                                                                         *)
(* The array holds the sources heard most recently, in order, with their   *)
(* last numbers.  The only step that matters is a registration: the places *)
(* up to that of the sender move by one, those behind it stay, and the     *)
(* sender has no other place because two places of one sender would have   *)
(* to be more recent than one another.  With one way and one place for     *)
(* each source that is enough to treat each packet once: what is under way *)
(* of a source is in order, none of it from before the last one heard, and *)
(* numbers that close to each other differ.                                *)
(*                                                                         *)
(* The ring implements a bounded first-in first-out queue.                 *)
(***************************************************************************)
EXTENDS MCReceivePath, FiniteSetTheorems, TLAPS

USE SeqnoHistoryAssumption

-----------------------------------------------------------------------------
(* The array *)

Inv == TypeOK /\ RecentKept

\* What an arrival takes from the link is a packet.
LEMMA HeadIsPacket ==
    ASSUME TypeOK, NEW l \in Links, air[l] # <<>>
    PROVE  /\ Head(air[l]) \in Packets
           /\ [air EXCEPT ![l] = Tail(@)] \in [Links -> Seq(Packets)]
<1>1. air[l] \in Seq(Packets)
  BY DEF TypeOK
<1>2. Head(air[l]) \in Packets /\ Tail(air[l]) \in Seq(Packets)
  BY <1>1
<1> QED BY <1>2 DEF TypeOK

\* A source has one place.
LEMMA OnePlace ==
    ASSUME TypeOK, RecentKept, NEW i \in Places, NEW j \in Places,
           history[i].sender = history[j].sender, history[i].sender # NoSource
    PROVE  i = j
<1>1. Time[i] = Time[j] /\ Time[i] \in Nat
  BY DEF Time, TypeOK
<1>2. ~(i < j) /\ ~(j < i)
  BY <1>1 DEF RecentKept, RecentFirst
<1> QED BY <1>2 DEF Places

\* The place that is overwritten is the sender's, if it has one, or the last.
LEMMA LastMovedIs ==
    ASSUME TypeOK, NEW s
    PROVE  /\ LastMoved(history, s) \in Places
           /\ \/ history[LastMoved(history, s)].sender = s
              \/ LastMoved(history, s) = Size /\ \A i \in Places : history[i].sender # s
<1>1. CASE \E i \in Places : history[i].sender = s
  BY <1>1 DEF LastMoved
<1>2. CASE ~\E i \in Places : history[i].sender = s
  BY <1>2 DEF LastMoved, Places
<1> QED BY <1>1, <1>2

\* The history keeps its shape.
LEMMA RegisteredType ==
    ASSUME TypeOK, NEW p \in Packets
    PROVE  Registered(history, p) \in [Places -> [sender : Sources \union {NoSource}, seqno : SeqNos]]
<1> DEFINE entry(i) == IF i = 1 THEN [sender |-> p.source, seqno |-> p.seqno]
                       ELSE IF i <= LastMoved(history, p.source) THEN history[i - 1] ELSE history[i]
<1>1. ASSUME NEW i \in Places PROVE entry(i) \in [sender : Sources \union {NoSource}, seqno : SeqNos]
  <2>1. i = 1 \/ i - 1 \in Places
    BY DEF Places
  <2> QED BY <2>1 DEF TypeOK, Packets
<1>2. Registered(history, p) = [i \in Places |-> entry(i)]
  BY DEF Registered
<1> QED BY <1>1, <1>2

\* The time of a place is one at which something was registered.
LEMMA TimeIs ==
    ASSUME TypeOK, NEW i \in Places
    PROVE  Time[i] \in 0..now /\ now \in Nat
BY DEF TypeOK, Time

\* A registration keeps the history in order: after it a place holds the
\* sender, what the place before it held, or what it held itself.
LEMMA RegisteredRecent ==
    ASSUME Inv, NEW p \in Packets, history' = Registered(history, p),
           heard' = [heard EXCEPT ![p.source] = [seqno |-> p.seqno, id |-> p.id, time |-> now + 1]]
    PROVE  RecentKept'
<1> DEFINE m == LastMoved(history, p.source)
<1> TypeOK /\ RecentKept
  BY DEF Inv
<1>1. p.source \in Sources /\ p.source # NoSource
  BY DEF Packets
<1>2. /\ m \in Places
      /\ \/ history[m].sender = p.source
         \/ m = Size /\ \A i \in Places : history[i].sender # p.source
  BY LastMovedIs
<1>3. history' = [i \in Places |->
                     IF i = 1 THEN [sender |-> p.source, seqno |-> p.seqno]
                     ELSE IF i <= m THEN history[i - 1] ELSE history[i]]
  BY DEF Registered
<1> HIDE DEF m
<1>4. /\ heard'[p.source].seqno = p.seqno /\ heard'[p.source].time = now + 1
      /\ \A t \in Sources \ {p.source} : heard'[t] = heard[t]
  BY <1>1 DEF TypeOK
<1>5. 1 \in Places /\ Size \in Places /\ Places \subseteq Nat
  BY DEF Places
<1>6. history'[1] = [sender |-> p.source, seqno |-> p.seqno]
  BY <1>3, <1>5
<1>7. Time'[1] = now + 1
  BY <1>6, <1>5, <1>4, <1>1 DEF Time
<1>8. ASSUME NEW i \in Places, i # m PROVE history[i].sender # p.source
  <2>1. CASE history[m].sender = p.source
    BY <2>1, <1>8, <1>2, <1>1, OnePlace
  <2> QED BY <2>1, <1>2
<1>9. ASSUME NEW i \in Places, NEW j \in Places, history'[i] = history[j], j # m
      PROVE  /\ Time'[i] = Time[j]
             /\ history[j].sender # NoSource => heard'[history[j].sender] = heard[history[j].sender]
  <2>1. history[j].sender \in (Sources \ {p.source}) \union {NoSource}
    BY <1>8, <1>9 DEF TypeOK
  <2> QED BY <2>1, <1>4, <1>9 DEF Time
<1>10. ASSUME NEW i \in Places, i # 1
       PROVE  \E j \in Places : /\ j = IF i <= m THEN i - 1 ELSE i
                                /\ j # m /\ history'[i] = history[j]
  BY <1>2, <1>3, <1>10 DEF Places
<1>11. NumbersAreLast'
  <2> SUFFICES ASSUME NEW i \in Places, history'[i].sender # NoSource
               PROVE  history'[i].seqno = heard'[history'[i].sender].seqno /\ Time'[i] > 0
    BY DEF NumbersAreLast
  <2>1. CASE i = 1
    BY <2>1, <1>4, <1>6, <1>7 DEF TypeOK
  <2>2. CASE i # 1
    <3>1. PICK j \in Places : j # m /\ history'[i] = history[j]
      BY <2>2, <1>10
    <3>2. history[j].seqno = heard[history[j].sender].seqno /\ Time[j] > 0
      BY <3>1 DEF RecentKept, NumbersAreLast
    <3> QED BY <3>1, <3>2, <1>9
  <2> QED BY <2>1, <2>2
<1>12. RecentFirst'
  <2> SUFFICES ASSUME NEW i \in Places, NEW j \in Places, i < j, history'[j].sender # NoSource
               PROVE  Time'[i] > Time'[j]
    BY DEF RecentFirst
  <2>1. j # 1
    BY DEF Places
  <2>2. PICK b \in Places : b = (IF j <= m THEN j - 1 ELSE j) /\ b # m /\ history'[j] = history[b]
    BY <2>1, <1>10
  <2>3. Time'[j] = Time[b]
    BY <2>2, <1>9
  <2>4. CASE i = 1
    BY <2>3, <2>4, <1>7, TimeIs
  <2>5. CASE i # 1
    <3>1. PICK a \in Places : a = (IF i <= m THEN i - 1 ELSE i) /\ a # m /\ history'[i] = history[a]
      BY <2>5, <1>10
    <3>2. a < b
      BY <2>2, <3>1, <1>2 DEF Places
    <3>3. Time'[i] = Time[a]
      BY <3>1, <1>9
    <3> QED BY <2>2, <2>3, <3>2, <3>3 DEF RecentKept, RecentFirst
  <2> QED BY <2>4, <2>5
<1>13. OldestForgotten'
  <2> SUFFICES ASSUME NEW t \in Sources
               PROVE  \/ heard'[t].time = 0
                      \/ \E i \in Places : history'[i].sender = t
                      \/ \A i \in Places : Time'[i] > heard'[t].time
    BY DEF OldestForgotten
  <2>1. heard[t].time \in 0..now /\ now \in Nat
    BY DEF TypeOK
  <2>2. CASE t = p.source
    BY <2>2, <1>5, <1>6
  <2>3. CASE t # p.source /\ \E j \in Places : j # m /\ history[j].sender = t
    <3>1. PICK j \in Places : j # m /\ history[j].sender = t
      BY <2>3
    <3>2. CASE j < m
      <4>1. j + 1 \in Places /\ j + 1 # 1 /\ j + 1 <= m /\ (j + 1) - 1 = j
        BY <1>2, <3>2 DEF Places
      <4> QED BY <1>3, <3>1, <4>1
    <3>3. CASE m < j
      <4>1. j # 1 /\ ~(j <= m)
        BY <1>2, <3>3 DEF Places
      <4> QED BY <1>3, <3>1, <4>1
    <3> QED BY <1>2, <3>1, <3>2, <3>3 DEF Places
  <2>4. ASSUME t # p.source, \A j \in Places : j # m => Time[j] > heard[t].time
        PROVE  \A i \in Places : Time'[i] > heard'[t].time
    <3> SUFFICES ASSUME NEW i \in Places PROVE Time'[i] > heard'[t].time
      OBVIOUS
    <3>1. heard'[t] = heard[t]
      BY <2>4, <1>4
    <3>2. CASE i = 1
      BY <2>1, <3>1, <3>2, <1>7
    <3>3. CASE i # 1
      <4>1. PICK j \in Places : j # m /\ history'[i] = history[j]
        BY <3>3, <1>10
      <4>2. Time'[i] = Time[j]
        BY <4>1, <1>9
      <4> QED BY <2>4, <3>1, <4>1, <4>2
    <3> QED BY <3>2, <3>3
  <2>5. CASE t # p.source /\ history[m].sender = t
    <3>1. m = Size /\ Time[m] = heard[t].time /\ history[Size].sender # NoSource
      BY <2>5, <1>2 DEF Time
    <3>2. \A j \in Places : j # m => Time[j] > heard[t].time
      BY <3>1, <1>5 DEF RecentKept, RecentFirst, Places
    <3> QED BY <2>4, <2>5, <3>2
  <2>6. CASE t # p.source /\ ~\E j \in Places : history[j].sender = t
    <3>1. heard'[t] = heard[t]
      BY <2>6, <1>4
    <3>2. heard[t].time = 0 \/ \A j \in Places : Time[j] > heard[t].time
      BY <2>6 DEF RecentKept, OldestForgotten
    <3> QED BY <2>4, <2>6, <3>1, <3>2
  <2> QED BY <2>2, <2>3, <2>5, <2>6
<1> QED BY <1>11, <1>12, <1>13 DEF RecentKept

\* The initial history is empty and in order.
LEMMA InitInv == Init => Inv
<1> SUFFICES ASSUME Init PROVE Inv
  OBVIOUS
<1>1. 0 \in SeqNos /\ EmptyPlace \in [sender : Sources \union {NoSource}, seqno : SeqNos]
  BY DEF SeqNos, EmptyPlace
<1>2. TypeOK
  BY <1>1 DEF Init, TypeOK
<1>3. RecentKept
  BY DEF Init, RecentKept, NumbersAreLast, RecentFirst, OldestForgotten, EmptyPlace
<1> QED BY <1>2, <1>3 DEF Inv

\* Every step keeps the shape of the state.
LEMMA NextType == TypeOK /\ [Next]_vars => TypeOK'
<1> SUFFICES ASSUME TypeOK, [Next]_vars PROVE TypeOK'
  OBVIOUS
<1>1. \A n \in SeqNos : Following(n) \in SeqNos /\ (n + Size) % SeqMod \in SeqNos
  BY DEF Following, SeqNos
<1>2. ASSUME NEW s \in Sources, NEW l \in Links, NEW n \in SeqNos, Launch(s, l, n)
      PROVE  /\ sent' \in [Sources -> Nat] /\ air' \in [Links -> Seq(Packets)]
             /\ UNCHANGED <<seqnoVars, treated, again, missed>>
  <2> DEFINE packet == [source |-> s, seqno |-> n, id |-> sent[s] + 1]
  <2>1. packet \in Packets
    BY DEF Packets, TypeOK
  <2>2. Append(air[l], packet) \in Seq(Packets)
    BY <2>1 DEF TypeOK
  <2>3. sent[s] + 1 \in Nat
    BY DEF TypeOK
  <2> QED BY <1>2, <2>2, <2>3 DEF Launch, TypeOK
<1>3. ASSUME NEW s \in Sources, NEW l \in Links, Send(s, l) PROVE TypeOK'
  <2>1. counter[s] \in SeqNos /\ Following(counter[s]) \in SeqNos
    BY <1>1 DEF TypeOK
  <2> QED BY <1>2, <1>3, <2>1 DEF Send, TypeOK, seqnoVars
<1>4. ASSUME NEW l \in Links, SendLine(l) PROVE TypeOK'
  <2>1. line \in SeqNos /\ Following(line) \in SeqNos /\ (line + Size) % SeqMod \in SeqNos
    BY <1>1 DEF TypeOK
  <2> QED BY <1>2, <1>4, <2>1 DEF SendLine, TypeOK, seqnoVars
<1>5. ASSUME NEW l \in Links, Lose(l) PROVE TypeOK'
  BY <1>5, HeadIsPacket DEF Lose, TypeOK, seqnoVars
<1>6. ASSUME NEW l \in Links, air[l] # <<>>, NEW p, p = Head(air[l]), Arrives(l, p)
      PROVE  /\ p \in Packets /\ air' \in [Links -> Seq(Packets)]
             /\ counter' \in [Sources -> SeqNos] /\ line' \in SeqNos /\ sent' \in [Sources -> Nat]
  <2>1. /\ Head(air[l]) \in Packets
        /\ [air EXCEPT ![l] = Tail(@)] \in [Links -> Seq(Packets)]
    BY <1>6, HeadIsPacket
  <2>2. air' = air \/ air' = [air EXCEPT ![l] = Tail(@)]
    BY <1>6 DEF Arrives
  <2>3. UNCHANGED <<counter, line, sent>>
    BY <1>6 DEF Arrives
  <2>4. air' \in [Links -> Seq(Packets)]
    BY <2>1, <2>2 DEF TypeOK
  <2> QED BY <1>6, <2>1, <2>3, <2>4 DEF TypeOK
<1>7. ASSUME NEW p \in Packets PROVE <<p.source, p.id>> \in Sources \X Nat /\ p.source \in Sources
  BY DEF Packets
<1>8. ASSUME NEW l \in Links, air[l] # <<>>, NEW p, p = Head(air[l]), Accept(l, p) PROVE TypeOK'
  <2>1. /\ p \in Packets /\ air' \in [Links -> Seq(Packets)]
        /\ counter' \in [Sources -> SeqNos] /\ line' \in SeqNos /\ sent' \in [Sources -> Nat]
    BY <1>6, <1>8 DEF Accept
  <2>2. history' \in [Places -> [sender : Sources \union {NoSource}, seqno : SeqNos]]
    BY <1>8, <2>1, RegisteredType DEF Accept
  <2>3. heard' \in [Sources -> [seqno : SeqNos, id : Nat, time : 0..now']] /\ now' \in Nat
    <3>1. now' = now + 1 /\ now \in Nat
      BY <1>8 DEF Accept, TypeOK
    <3>2. [seqno |-> p.seqno, id |-> p.id, time |-> now + 1] \in [seqno : SeqNos, id : Nat, time : 0..now']
      BY <2>1, <3>1 DEF Packets
    <3>3. heard \in [Sources -> [seqno : SeqNos, id : Nat, time : 0..now']]
      BY <3>1 DEF TypeOK
    <3>4. heard' = [heard EXCEPT ![p.source] = [seqno |-> p.seqno, id |-> p.id, time |-> now + 1]]
      BY <1>8 DEF Accept
    <3>5. p.source \in Sources
      BY <1>7, <2>1
    <3> HIDE DEF Packets
    <3> QED BY <3>1, <3>2, <3>3, <3>4, <3>5
  <2>4. {treated', again', missed'} \subseteq SUBSET (Sources \X Nat)
    <3>1. <<p.source, p.id>> \in Sources \X Nat
      BY <1>7, <2>1
    <3>2. treated \subseteq Sources \X Nat /\ again \subseteq Sources \X Nat /\ missed \subseteq Sources \X Nat
      BY DEF TypeOK
    <3>3. treated' = treated \union {<<p.source, p.id>>} /\ missed' = missed
      BY <1>8 DEF Accept
    <3>4. again' = again \/ again' = again \union {<<p.source, p.id>>}
      BY <1>8 DEF Accept
    <3>5. treated' \subseteq Sources \X Nat
      BY <3>1, <3>2, <3>3, Zenon
    <3>6. again' \subseteq Sources \X Nat
      BY <3>1, <3>2, <3>4, Zenon
    <3>7. missed' \subseteq Sources \X Nat
      BY <3>2, <3>3
    <3> QED BY <3>5, <3>6, <3>7
  <2> QED BY <2>1, <2>2, <2>3, <2>4 DEF TypeOK
<1>9. ASSUME NEW l \in Links, air[l] # <<>>, NEW p, p = Head(air[l]), Refuse(l, p) PROVE TypeOK'
  BY <1>6, <1>9 DEF Refuse, TypeOK, seqnoVars
<1>10. ASSUME NEW l \in Links, air[l] # <<>>, NEW p, p = Head(air[l]), DropDuplicate(l, p) PROVE TypeOK'
  <2>1. Arrives(l, p)
    BY <1>10 DEF DropDuplicate
  <2>2. missed' \subseteq Sources \X Nat
    BY <1>6, <1>7, <1>10, <2>1 DEF DropDuplicate, TypeOK
  <2> QED BY <1>6, <1>10, <2>1, <2>2 DEF DropDuplicate, TypeOK, seqnoVars
<1>11. ASSUME NEW s \in Sources, Restart(s) PROVE TypeOK'
  <2>1. 0 \in SeqNos
    BY DEF SeqNos
  <2> QED BY <1>11, <2>1 DEF Restart, TypeOK, seqnoVars
<1>12. ASSUME UNCHANGED vars PROVE TypeOK'
  BY <1>12 DEF vars, TypeOK
<1> QED BY <1>3, <1>4, <1>5, <1>8, <1>9, <1>10, <1>11, <1>12 DEF Next

\* Every step keeps the history in order.
LEMMA NextRecent == Inv /\ [Next]_vars => RecentKept'
<1> SUFFICES ASSUME Inv, [Next]_vars PROVE RecentKept'
  OBVIOUS
<1>1. ASSUME UNCHANGED seqnoVars PROVE RecentKept'
  BY <1>1 DEF seqnoVars, Inv, RecentKept, NumbersAreLast, RecentFirst, OldestForgotten, Time
<1>2. ASSUME NEW l \in Links, air[l] # <<>>, Accept(l, Head(air[l])) PROVE RecentKept'
  <2>1. Head(air[l]) \in Packets
    BY <1>2, HeadIsPacket DEF Inv
  <2> QED BY <1>2, <2>1, RegisteredRecent DEF Accept
<1>3. \/ UNCHANGED seqnoVars
      \/ \E l \in Links : air[l] # <<>> /\ Accept(l, Head(air[l]))
  BY DEF Next, vars, seqnoVars, Send, SendLine, Launch, Lose, Refuse, DropDuplicate, Restart
<1> QED BY <1>1, <1>2, <1>3

LEMMA InvHolds == Spec => []Inv
<1>1. Inv /\ [Next]_vars => Inv'
  BY NextType, NextRecent DEF Inv
<1> QED BY InitInv, <1>1, PTL DEF Spec

\* The history, the counters and the packets keep their shape (sdn-receive.c:
\* received_seqnos), whatever the links do and whoever restarts.
THEOREM HistoryTypeCorrect == Spec => []TypeOK
<1>1. Inv => TypeOK
  BY DEF Inv
<1> QED BY InvHolds, <1>1, PTL

\* sdn_seqno_register keeps the last number of each of the sources heard most
\* recently, in order and once, for every size of the table.
THEOREM HistoryIsRecent == Spec => []RecentKept
<1>1. Inv => RecentKept
  BY DEF Inv
<1> QED BY InvHolds, <1>1, PTL

-----------------------------------------------------------------------------
(* Each packet once *)

\* The number d steps before the count c
Before(c, d) == IF d <= c THEN c - d ELSE c + SeqMod - d

\* The number of a packet is as many steps behind the count c as packets were
\* sent since; n were sent in all.
Numbered(x, c, n) ==
    /\ 1 <= x.id /\ x.id <= n /\ n - x.id <= Gap
    /\ x.seqno = Before(c, n + 1 - x.id)

\* The packets of s are on its link, in order, none from before the last one
\* heard of s.
InFlight(s) ==
    \A l \in Links : \A i \in DOMAIN air[l] : air[l][i].source = s =>
        /\ l \in Via[s] /\ Numbered(air[l][i], counter[s], sent[s]) /\ heard[s].id <= air[l][i].id
        /\ \A j \in DOMAIN air[l] : i < j /\ air[l][j].source = s => air[l][i].id < air[l][j].id

\* The last packet heard of s was treated, and s still has a place.
LastHeard(s) ==
    /\ heard[s].time = 0 => heard[s].id = 0
    /\ heard[s].time > 0 =>
         /\ Numbered(heard[s], counter[s], sent[s])
         /\ <<s, heard[s].id>> \in treated
         /\ \E i \in Places : history[i].sender = s

\* Nothing later than the last packet heard of s was treated.
NoneLater(s) == \A n \in Nat : <<s, n>> \in treated => n <= heard[s].id

\* What is known of one of the other nodes
Followed(s) == InFlight(s) /\ LastHeard(s) /\ NoneLater(s)

Exact ==
    /\ again = {} /\ missed = {}
    /\ Self \in Sources => heard[Self].time = 0
    /\ \A s \in Sources : sent[s] <= MaxSent[s]
    /\ \A s \in Sources \ {Self} : Followed(s)

\* Two packets of s with one number are the same.
LEMMA NumberFresh ==
    ASSUME NEW c \in SeqNos, NEW n \in Nat, NEW a \in 1..n, NEW b \in 1..n,
           n - a < SeqMod, n - b < SeqMod, Before(c, n + 1 - a) = Before(c, n + 1 - b)
    PROVE  a = b
BY DEF SeqNos, Before

\* When the counter moves on, what was sent before is one more step behind.
LEMMA NumberRecedes ==
    ASSUME NEW c \in SeqNos, NEW d \in 1..(SeqMod - 1)
    PROVE  Before(Following(c), d + 1) = Before(c, d)
<1>1. Following(c) = IF c + 1 = SeqMod THEN 0 ELSE c + 1
  BY SMT DEF SeqNos, Following
<1> QED BY <1>1 DEF SeqNos, Before

\* The latest packet has the number before the counter.
LEMMA NumberLatest ==
    ASSUME NEW c \in SeqNos
    PROVE  Before(Following(c), 1) = c
<1>1. Following(c) = IF c + 1 = SeqMod THEN 0 ELSE c + 1
  BY SMT DEF SeqNos, Following
<1> QED BY <1>1 DEF SeqNos, Before

\* Packets that leave a link leave the others of s as they are.
LEMMA FlightShrinks ==
    ASSUME TypeOK, NEW s \in Sources, InFlight(s), NEW l \in Links, air[l] # <<>>,
           air' \in {air, [air EXCEPT ![l] = Tail(@)]}, sent' = sent, counter' = counter,
           \A k \in Links : \A i \in DOMAIN air[k] :
               air[k][i].source = s => heard'[s].id <= air[k][i].id
    PROVE  InFlight(s)'
<1> SUFFICES ASSUME NEW k \in Links, NEW i \in DOMAIN air'[k], air'[k][i].source = s
             PROVE  /\ k \in Via[s] /\ Numbered(air'[k][i], counter'[s], sent'[s]) /\ heard'[s].id <= air'[k][i].id
                    /\ \A j \in DOMAIN air'[k] :
                          i < j /\ air'[k][j].source = s => air'[k][i].id < air'[k][j].id
  BY DEF InFlight
<1>1. PICK d \in {0, 1} : \A j \in DOMAIN air'[k] :
          j \in Nat /\ j + d \in DOMAIN air[k] /\ air'[k][j] = air[k][j + d]
  <2>1. air[k] \in Seq(Packets)
    BY DEF TypeOK
  <2>2. CASE air'[k] = air[k]
    BY <2>1, <2>2
  <2>3. CASE k = l /\ air'[k] = Tail(air[k])
    BY <2>1, <2>3
  <2> QED BY <2>2, <2>3 DEF TypeOK
<1>2. Numbered(air[k][i + d], counter[s], sent[s]) /\ k \in Via[s] /\ heard'[s].id <= air[k][i + d].id
  BY <1>1 DEF InFlight
<1>3. Numbered(air'[k][i], counter'[s], sent'[s])
  BY <1>1, <1>2 DEF Numbered
<1>4. ASSUME NEW j \in DOMAIN air'[k], i < j, air'[k][j].source = s
      PROVE  air'[k][i].id < air'[k][j].id
  BY <1>1, <1>4 DEF InFlight
<1> QED BY <1>1, <1>2, <1>3, <1>4

\* A packet that s sends with its counter is in order behind the others.
LEMMA FlightGrows ==
    ASSUME TypeOK, OneWayEach, NEW s \in Sources \ {Self}, NEW l \in Links, Launch(s, l, counter[s]),
           counter'[s] = Following(counter[s]), InFlight(s), LastHeard(s)
    PROVE  InFlight(s)' /\ LastHeard(s)'
<1>1. /\ sent[s] \in Nat /\ sent'[s] = sent[s] + 1 /\ counter[s] \in SeqNos
      /\ l \in Via[s]
      /\ UNCHANGED <<history, heard, treated>>
      /\ heard[s].id \in Nat /\ heard[s].time \in Nat /\ SeqMod \in Nat /\ Gap \in Nat /\ Gap < SeqMod
  BY DEF Launch, TypeOK, seqnoVars, OneWayEach
<1>2. PICK new : /\ air' = [air EXCEPT ![l] = Append(@, new)]
                 /\ new.source = s /\ new.seqno = counter[s] /\ new.id = sent[s] + 1
  <2> WITNESS [source |-> s, seqno |-> counter[s], id |-> sent[s] + 1]
  <2> QED BY DEF Launch
<1>3. ASSUME NEW x, x.id \in Nat, Numbered(x, counter[s], sent[s]), sent[s] + 1 - x.id <= Gap
      PROVE  Numbered(x, counter'[s], sent'[s])
  <2> DEFINE d == sent[s] + 1 - x.id
  <2>2. d \in 1..(SeqMod - 1)
    BY <1>1, <1>3 DEF Numbered
  <2>3. Before(counter'[s], d + 1) = Before(counter[s], d)
    BY <1>1, <2>2, NumberRecedes
  <2>4. d + 1 = sent'[s] + 1 - x.id
    BY <1>1, <1>3
  <2> QED BY <1>1, <1>3, <2>3, <2>4 DEF Numbered
<1>4. Numbered(new, counter'[s], sent'[s])
  <2>1. Before(counter'[s], 1) = counter[s]
    BY <1>1, NumberLatest
  <2>2. sent'[s] + 1 - new.id = 1 /\ new.id = sent'[s]
    BY <1>1, <1>2
  <2> QED BY <1>1, <1>2, <2>1, <2>2 DEF Numbered
<1>5. LastHeard(s)'
  <2>1. CASE heard[s].time = 0
    BY <2>1, <1>1 DEF LastHeard
  <2>2. CASE heard[s].time > 0
    <3>1. sent[s] + 1 - heard[s].id <= Gap
      BY <1>1, <2>2 DEF Launch
    <3>2. Numbered(heard[s], counter'[s], sent'[s])
      BY <1>1, <1>3, <2>2, <3>1 DEF LastHeard
    <3> QED BY <1>1, <2>2, <3>2 DEF LastHeard
  <2> QED BY <2>1, <2>2, <1>1
<1>6. ASSUME NEW k \in Links, NEW i \in DOMAIN air[k], air[k][i].source = s
      PROVE  air[k][i].id \in Nat /\ Numbered(air[k][i], counter'[s], sent'[s])
  <2>1. air[k][i] \in Packets
    BY DEF TypeOK
  <2>2. air[k][i].id \in Nat
    BY <2>1 DEF Packets
  <2>3. Numbered(air[k][i], counter[s], sent[s]) /\ heard[s].id <= air[k][i].id
    BY <1>6 DEF InFlight
  <2>4. sent[s] - heard[s].id < Gap
    BY <1>6 DEF Launch
  <2>5. sent[s] + 1 - air[k][i].id <= Gap
    BY <1>1, <2>2, <2>3, <2>4
  <2> QED BY <1>3, <2>2, <2>3, <2>5
<1>7. InFlight(s)'
  <2> SUFFICES ASSUME NEW k \in Links, NEW i \in DOMAIN air'[k], air'[k][i].source = s
               PROVE  /\ k \in Via[s] /\ Numbered(air'[k][i], counter'[s], sent'[s]) /\ heard'[s].id <= air'[k][i].id
                      /\ \A j \in DOMAIN air'[k] :
                            i < j /\ air'[k][j].source = s => air'[k][i].id < air'[k][j].id
    BY DEF InFlight
  <2>1. air[k] \in Seq(Packets)
    BY DEF TypeOK
  <2>2. ASSUME NEW j \in DOMAIN air'[k]
        PROVE  \/ j \in DOMAIN air[k] /\ air'[k][j] = air[k][j]
               \/ k = l /\ j = Len(air[k]) + 1 /\ air'[k][j] = new
    BY <1>2, <2>1 DEF TypeOK
  <2>3. CASE i \in DOMAIN air[k] /\ air'[k][i] = air[k][i]
    <3>1. /\ k \in Via[s] /\ Numbered(air[k][i], counter[s], sent[s]) /\ heard[s].id <= air[k][i].id
          /\ \A j \in DOMAIN air[k] :
                i < j /\ air[k][j].source = s => air[k][i].id < air[k][j].id
      BY <2>3 DEF InFlight
    <3>2. Numbered(air[k][i], counter'[s], sent'[s])
      BY <2>3, <1>6
    <3>3. ASSUME NEW j \in DOMAIN air'[k], i < j, air'[k][j].source = s
          PROVE  air'[k][i].id < air'[k][j].id
      <4>1. air[k][i].id < new.id
        BY <1>1, <1>2, <1>6, <2>3, <3>1 DEF Numbered
      <4> QED BY <2>2, <2>3, <3>1, <3>3, <4>1
    <3> QED BY <1>1, <2>3, <3>1, <3>2, <3>3
  <2>4. CASE k = l /\ i = Len(air[k]) + 1 /\ air'[k][i] = new
    <3>1. \A j \in DOMAIN air'[k] : ~(i < j)
      BY <2>1, <2>2, <2>4
    <3>2. heard[s].id <= new.id
      BY <1>1, <1>2 DEF LastHeard, Numbered
    <3> QED BY <1>1, <1>4, <2>4, <3>1, <3>2
  <2> QED BY <2>2, <2>3, <2>4
<1> QED BY <1>5, <1>7

\* A source that sends and has no place leaves one empty.
LEMMA PlaceToSpare ==
    ASSUME Inv, OneWayEach, Exact, NEW s \in Active, \A i \in Places : history[i].sender # s
    PROVE  history[Size].sender = NoSource
<1> SUFFICES ASSUME history[Size].sender # NoSource PROVE FALSE
  OBVIOUS
<1> TypeOK /\ RecentKept
  BY DEF Inv
<1>1. ASSUME NEW i \in Places PROVE history[i].sender \in Active \ {s}
  <2>1. Size \in Places /\ (i = Size \/ i < Size)
    BY DEF Places
  <2>2. Time[i] > 0
    BY <2>1, TimeIs DEF RecentKept, RecentFirst, NumbersAreLast
  <2>3. history[i].sender \in Sources /\ heard[history[i].sender].time > 0
    BY <2>2 DEF Time, TypeOK
  <2>4. history[i].sender # Self
    BY <2>3 DEF Exact
  <2>5. ASSUME NEW r \in Sources \ {Self}, heard[r].time > 0 PROVE MaxSent[r] > 0
    <3>1. 1 <= heard[r].id /\ heard[r].id <= sent[r] /\ sent[r] <= MaxSent[r]
      BY <2>5 DEF Exact, Followed, LastHeard, Numbered
    <3>2. heard[r].id \in Nat /\ sent[r] \in Nat /\ MaxSent[r] \in Nat
      BY DEF TypeOK
    <3> QED BY <3>1, <3>2
  <2> QED BY <2>3, <2>4, <2>5 DEF Active
<1>2. IsFiniteSet(Places) /\ Cardinality(Places) = Size
  BY FS_Interval DEF Places
<1>3. IsFiniteSet(Active \ {s}) /\ Cardinality(Active \ {s}) = Cardinality(Active) - 1
  BY FS_RemoveElement DEF OneWayEach
<1>4. Cardinality(Active) \in Nat /\ Cardinality(Active) <= Size
  BY FS_CardinalityType DEF OneWayEach
<1> DEFINE f == [i \in Places |-> history[i].sender]
<1>5. f \in [Places -> Active \ {s}]
  BY <1>1
<1>6. Cardinality(Active \ {s}) < Cardinality(Places)
  BY <1>2, <1>3, <1>4
<1>7. \E i, j \in Places : i # j /\ f[i] = f[j]
  <2> HIDE DEF f
  <2> QED BY <1>2, <1>3, <1>5, <1>6, FS_PigeonHole
<1> QED BY <1>1, <1>7, OnePlace DEF Active

\* A registration takes no place from another source.
LEMMA StillPlaced ==
    ASSUME Inv, OneWayEach, Exact, NEW p \in Packets, p.source \in Active,
           history' = Registered(history, p),
           NEW t \in Sources, t # p.source, NEW j \in Places, history[j].sender = t
    PROVE  \E i \in Places : history'[i].sender = t
<1> DEFINE m == LastMoved(history, p.source)
<1>1. /\ m \in Places
      /\ \/ history[m].sender = p.source
         \/ m = Size /\ \A i \in Places : history[i].sender # p.source
  BY LastMovedIs DEF Inv
<1>2. history' = [i \in Places |->
                     IF i = 1 THEN [sender |-> p.source, seqno |-> p.seqno]
                     ELSE IF i <= m THEN history[i - 1] ELSE history[i]]
  BY DEF Registered
<1> HIDE DEF m
<1>3. j # m
  BY <1>1, PlaceToSpare
<1>4. CASE j < m
  <2>1. j + 1 \in Places /\ j + 1 # 1 /\ j + 1 <= m /\ (j + 1) - 1 = j
    BY <1>1, <1>4 DEF Places
  <2> QED BY <1>2, <2>1
<1>5. CASE m < j
  <2>1. j # 1 /\ ~(j <= m)
    BY <1>1, <1>5 DEF Places
  <2> QED BY <1>2, <2>1
<1> QED BY <1>1, <1>3, <1>4, <1>5 DEF Places

\* What an arrival finds at the head of a link is a packet as those of its
\* source are.
LEMMA HeadFollowed ==
    ASSUME TypeOK, Exact, NEW l \in Links, air[l] # <<>>, NEW p, p = Head(air[l]), p.source # Self
    PROVE  /\ p \in Packets /\ p.source \in Active /\ l \in Via[p.source]
           /\ Numbered(p, counter[p.source], sent[p.source]) /\ heard[p.source].id <= p.id
           /\ \A i \in DOMAIN air[l] : air[l][i].source = p.source => p.id <= air[l][i].id
<1>1. p \in Packets /\ air[l] \in Seq(Packets) /\ 1 \in DOMAIN air[l] /\ p = air[l][1]
  BY HeadIsPacket DEF TypeOK
<1>2. p.source \in Sources \ {Self} /\ p.id \in Nat
  BY <1>1 DEF Packets
<1>3. /\ l \in Via[p.source] /\ Numbered(p, counter[p.source], sent[p.source])
      /\ heard[p.source].id <= p.id
      /\ \A i \in DOMAIN air[l] : 1 < i /\ air[l][i].source = p.source => p.id < air[l][i].id
  BY <1>1, <1>2 DEF Exact, Followed, InFlight
<1>4. p.source \in Active
  BY <1>2, <1>3 DEF Active, Numbered, Exact, TypeOK
<1>5. ASSUME NEW i \in DOMAIN air[l], air[l][i].source = p.source PROVE p.id <= air[l][i].id
  <2>1. i = 1 \/ 1 < i
    BY <1>1
  <2>2. air[l][i] \in Packets
    BY <1>1
  <2>3. air[l][i].id \in Nat
    BY <2>2 DEF Packets
  <2> QED BY <1>1, <1>2, <1>3, <1>5, <2>1, <2>3
<1> QED BY <1>1, <1>3, <1>4, <1>5

\* A packet that is accepted is a new one, and the last of its source so far.
LEMMA AcceptExact ==
    ASSUME Inv, OneWayEach, Exact, NEW l \in Links, air[l] # <<>>, Accept(l, Head(air[l]))
    PROVE  Exact'
<1> TypeOK /\ RecentKept
  BY DEF Inv
<1> DEFINE q == Head(air[l])
<1>1. PICK p : p = q
  OBVIOUS
<1>2. /\ Arrives(l, p) /\ ~IsDuplicate(history, p) /\ history' = Registered(history, p) /\ missed' = missed
      /\ heard' = [heard EXCEPT ![p.source] = [seqno |-> p.seqno, id |-> p.id, time |-> now + 1]]
      /\ treated' = treated \union {<<p.source, p.id>>}
      /\ again' = IF <<p.source, p.id>> \in treated THEN again \union {<<p.source, p.id>>} ELSE again
      /\ air' \in {air, [air EXCEPT ![l] = Tail(@)]} /\ UNCHANGED <<counter, sent>>
  BY <1>1 DEF Accept, Arrives
<1> HIDE DEF q
<1>3. p.source # Self
  BY <1>2 DEF IsDuplicate
<1>4. PICK s \in Sources \ {Self} : s = p.source
  BY <1>1, <1>3, HeadFollowed DEF q, Packets
<1>5. /\ p \in Packets /\ s \in Active /\ l \in Via[s]
      /\ Numbered(p, counter[s], sent[s]) /\ heard[s].id <= p.id
      /\ \A i \in DOMAIN air[l] : air[l][i].source = s => p.id <= air[l][i].id
  BY <1>1, <1>3, <1>4, HeadFollowed DEF q
<1>6. Followed(s) /\ s \in Sources
  BY DEF Exact
<1>7. p.id \in Nat /\ p.id >= 1 /\ heard[s] \in [seqno : SeqNos, id : Nat, time : Nat] /\ now \in Nat
  BY <1>5 DEF Packets, Numbered, TypeOK
<1>8. heard[s].time = 0 \/ heard[s].id < p.id
  <2> SUFFICES ASSUME heard[s].time > 0, heard[s].id = p.id PROVE FALSE
    BY <1>5, <1>7
  <2>1. PICK i \in Places : history[i].sender = s
    BY <1>6 DEF Followed, LastHeard
  <2>2. history[i].seqno = heard[s].seqno
    BY <2>1, <1>6 DEF RecentKept, NumbersAreLast
  <2>3. heard[s].seqno = p.seqno
    BY <1>5, <1>6 DEF Followed, LastHeard, Numbered
  <2> QED BY <1>2, <1>4, <2>1, <2>2, <2>3 DEF IsDuplicate
<1>9. <<s, p.id>> \notin treated
  <2>1. \A n \in Nat : <<s, n>> \in treated => n <= heard[s].id
    BY <1>6 DEF Followed, NoneLater
  <2>2. heard[s].time = 0 => heard[s].id = 0
    BY <1>6 DEF Followed, LastHeard
  <2> QED BY <1>7, <1>8, <2>1, <2>2
<1>10. again' = {} /\ missed' = {}
  BY <1>2, <1>4, <1>9 DEF Exact
<1>11. /\ heard'[s].seqno = p.seqno /\ heard'[s].id = p.id /\ heard'[s].time = now + 1
       /\ \A t \in Sources : t # s => heard'[t] = heard[t]
  BY <1>2, <1>4 DEF TypeOK
<1>12. Followed(s)'
  <2>1. \A k \in Links : \A i \in DOMAIN air[k] : air[k][i].source = s => heard'[s].id <= air[k][i].id
    <3> SUFFICES ASSUME NEW k \in Links, NEW i \in DOMAIN air[k], air[k][i].source = s
                 PROVE  p.id <= air[k][i].id
      BY <1>11
    <3>1. k \in Via[s]
      BY <1>6 DEF Followed, InFlight
    <3>2. k = l
      BY <3>1, <1>5 DEF OneWayEach
    <3> QED BY <3>2, <1>5
  <2>2. InFlight(s)'
    BY <1>2, <1>6, <2>1, FlightShrinks DEF Followed
  <2>3. \E i \in Places : history'[i].sender = s
    BY <1>2, <1>4 DEF Registered, Places
  <2>4. LastHeard(s)'
    BY <1>2, <1>4, <1>5, <1>7, <1>11, <2>3 DEF LastHeard, Numbered
  <2>5. NoneLater(s)'
    <3> SUFFICES ASSUME NEW n \in Nat, <<s, n>> \in treated' PROVE n <= heard'[s].id
      BY DEF NoneLater
    <3>1. n = p.id \/ <<s, n>> \in treated
      BY <1>2
    <3>2. <<s, n>> \in treated => n <= heard[s].id
      BY <1>6 DEF Followed, NoneLater
    <3> QED BY <1>5, <1>7, <1>11, <3>1, <3>2
  <2> QED BY <2>2, <2>4, <2>5 DEF Followed
<1>13. ASSUME NEW t \in Sources \ {Self}, t # s PROVE Followed(t)'
  <2>1. Followed(t) /\ heard'[t] = heard[t]
    BY <1>11, <1>13 DEF Exact
  <2>2. InFlight(t)'
    <3>1. \A k \in Links : \A i \in DOMAIN air[k] : air[k][i].source = t => heard'[t].id <= air[k][i].id
      BY <2>1 DEF Followed, InFlight
    <3> QED BY <1>2, <2>1, <3>1, FlightShrinks DEF Followed
  <2>3. LastHeard(t)'
    <3>1. heard[t].time > 0 => \E i \in Places : history'[i].sender = t
      BY <1>2, <1>4, <1>5, <1>13, <2>1, StillPlaced DEF Followed, LastHeard
    <3>2. LastHeard(t) /\ counter' = counter /\ sent' = sent /\ treated \subseteq treated'
      BY <1>2, <2>1 DEF Followed
    <3> QED BY <2>1, <3>1, <3>2 DEF LastHeard
  <2>4. NoneLater(t)'
    BY <1>2, <1>4, <1>13, <2>1 DEF Followed, NoneLater
  <2> QED BY <2>2, <2>3, <2>4 DEF Followed
<1>14. Self \in Sources => heard'[Self].time = 0
  BY <1>11 DEF Exact
<1> QED BY <1>2, <1>10, <1>12, <1>13, <1>14 DEF Exact

\* A packet that is dropped as a duplicate is the last one heard.
LEMMA DropExact ==
    ASSUME Inv, OneWayEach, Exact, NEW l \in Links, air[l] # <<>>, DropDuplicate(l, Head(air[l]))
    PROVE  missed' = {}
<1> TypeOK /\ RecentKept
  BY DEF Inv
<1>1. PICK p : p = Head(air[l])
  OBVIOUS
<1>2. /\ IsDuplicate(history, p)
      /\ missed' = IF p.source = Self \/ <<p.source, p.id>> \in treated THEN missed
                   ELSE missed \union {<<p.source, p.id>>}
  BY <1>1 DEF DropDuplicate
<1>3. SUFFICES ASSUME p.source # Self PROVE <<p.source, p.id>> \in treated
  BY <1>2 DEF Exact
<1>4. PICK s \in Sources \ {Self} : s = p.source
  BY <1>1, <1>3, HeadFollowed DEF Packets
<1>5. p \in Packets /\ Numbered(p, counter[s], sent[s])
  BY <1>1, <1>3, <1>4, HeadFollowed
<1>6. PICK i \in Places : history[i].sender = s /\ history[i].seqno = p.seqno
  BY <1>2, <1>3, <1>4 DEF IsDuplicate
<1>7. heard[s].seqno = p.seqno /\ heard[s].time > 0
  BY <1>6 DEF RecentKept, NumbersAreLast, Time
<1>8. LastHeard(s)
  BY DEF Exact, Followed
<1>9. /\ heard[s].id \in Nat /\ p.id \in Nat /\ sent[s] \in Nat /\ counter[s] \in SeqNos
      /\ Gap \in Nat /\ Gap < SeqMod /\ SeqMod \in Nat
  BY <1>5 DEF TypeOK, Packets, OneWayEach
<1>10. /\ 1 <= p.id /\ p.id <= sent[s] /\ sent[s] - p.id <= Gap
       /\ 1 <= heard[s].id /\ heard[s].id <= sent[s] /\ sent[s] - heard[s].id <= Gap
       /\ Before(counter[s], sent[s] + 1 - p.id) = Before(counter[s], sent[s] + 1 - heard[s].id)
  BY <1>5, <1>7, <1>8 DEF LastHeard, Numbered
<1>11. p.id \in 1..sent[s] /\ heard[s].id \in 1..sent[s]
  BY <1>9, <1>10
<1>12. sent[s] - p.id < SeqMod /\ sent[s] - heard[s].id < SeqMod
  BY <1>9, <1>10
<1>13. p.id = heard[s].id
  BY <1>9, <1>10, <1>11, <1>12, NumberFresh
<1> QED BY <1>4, <1>7, <1>8, <1>13 DEF LastHeard

\* The first packets of each source are in order.
LEMMA InitExact == Init /\ OneWayEach => Exact
<1> SUFFICES ASSUME Init PROVE Exact
  OBVIOUS
<1>1. \A s \in Sources : MaxSent[s] \in Nat
  OBVIOUS
<1>2. ASSUME NEW s \in Sources PROVE Followed(s)
  BY <1>2 DEF Init, Followed, InFlight, LastHeard, NoneLater
<1> QED BY <1>1, <1>2 DEF Init, Exact

\* A packet of one source leaves those of the others as they are.
LEMMA OthersInFlight ==
    ASSUME TypeOK, NEW s \in Sources, NEW l \in Links, NEW n, Launch(s, l, n),
           NEW t \in Sources \ {s}, counter'[t] = counter[t], Followed(t)
    PROVE  Followed(t)'
<1>1. PICK new : new.source = s /\ air' = [air EXCEPT ![l] = Append(@, new)]
  <2> WITNESS [source |-> s, seqno |-> n, id |-> sent[s] + 1]
  <2> QED BY DEF Launch
<1>2. UNCHANGED <<history, heard, treated>> /\ sent'[t] = sent[t]
  BY DEF Launch, seqnoVars, TypeOK
<1>3. ASSUME NEW k \in Links, NEW j \in DOMAIN air'[k], air'[k][j].source = t
      PROVE  j \in DOMAIN air[k] /\ air'[k][j] = air[k][j]
  <2>1. air[k] \in Seq(Packets)
    BY DEF TypeOK
  <2>2. CASE k = l
    <3>1. air'[k] = Append(air[k], new)
      BY <1>1, <2>2 DEF TypeOK
    <3>2. j # Len(air[k]) + 1
      BY <1>1, <1>3, <2>1, <3>1
    <3> QED BY <1>3, <2>1, <3>1, <3>2
  <2>3. CASE k # l
    BY <1>1, <1>3, <2>3 DEF TypeOK
  <2> QED BY <2>2, <2>3
<1>4. InFlight(t)'
  <2> SUFFICES ASSUME NEW k \in Links, NEW i \in DOMAIN air'[k], air'[k][i].source = t
               PROVE  /\ k \in Via[t] /\ Numbered(air'[k][i], counter'[t], sent'[t])
                      /\ heard'[t].id <= air'[k][i].id
                      /\ \A j \in DOMAIN air'[k] :
                            i < j /\ air'[k][j].source = t => air'[k][i].id < air'[k][j].id
    BY DEF InFlight
  <2> QED BY <1>2, <1>3 DEF Followed, InFlight
<1>5. LastHeard(t)' /\ NoneLater(t)'
  BY <1>2 DEF Followed, LastHeard, NoneLater
<1> QED BY <1>4, <1>5 DEF Followed

\* Every step keeps the packets of each source in order.
LEMMA NextExact == Inv /\ OneWayEach /\ Exact /\ [Next]_vars => Exact'
<1> SUFFICES ASSUME Inv, OneWayEach, Exact, [Next]_vars PROVE Exact'
  OBVIOUS
<1> TypeOK
  BY DEF Inv
<1>1. ASSUME NEW s \in Sources, NEW l \in Links, NEW n, Launch(s, l, n),
             \A t \in Sources \ {s} : counter'[t] = counter[t],
             s # Self => Followed(s)'
      PROVE  Exact'
  <2>1. \A t \in Sources : sent'[t] <= MaxSent[t]
    BY <1>1 DEF Launch, Exact, TypeOK
  <2>2. UNCHANGED <<history, heard, treated, again, missed>>
    BY <1>1 DEF Launch, seqnoVars
  <2>3. \A t \in Sources \ {Self} : Followed(t)'
    BY <1>1, OthersInFlight DEF Exact
  <2> QED BY <2>1, <2>2, <2>3 DEF Exact
<1>2. ASSUME NEW s \in Sources, NEW l \in Links, Send(s, l) PROVE Exact'
  <2>1. Launch(s, l, counter[s]) /\ counter' = [counter EXCEPT ![s] = Following(@)]
    BY <1>2 DEF Send
  <2>2. \A t \in Sources : counter'[t] = IF t = s THEN Following(counter[s]) ELSE counter[t]
    BY <2>1 DEF TypeOK
  <2>3. ASSUME s # Self PROVE Followed(s)'
    <3>1. Followed(s)
      BY <2>3 DEF Exact
    <3>2. InFlight(s)' /\ LastHeard(s)'
      BY <2>1, <2>2, <2>3, <3>1, FlightGrows DEF Followed
    <3>3. NoneLater(s)'
      BY <2>1, <3>1 DEF Launch, seqnoVars, Followed, NoneLater
    <3> QED BY <3>2, <3>3 DEF Followed
  <2> QED BY <1>1, <2>1, <2>2, <2>3
<1>3. ASSUME NEW l \in Links, SendLine(l) PROVE Exact'
  <2>1. Controller \in Sources /\ Controller = Self
    BY <1>3 DEF SendLine, OneWayEach
  <2>2. Launch(Self, l, line) /\ \A t \in Sources \ {Self} : counter'[t] = counter[t]
    BY <1>3, <2>1 DEF SendLine, TypeOK
  <2> QED BY <1>1, <2>1, <2>2
<1>4. ASSUME NEW l \in Links, air[l] # <<>>, air' \in {air, [air EXCEPT ![l] = Tail(@)]},
             again' = {}, missed' = {}, UNCHANGED <<history, heard, counter, sent, treated>>
      PROVE  Exact'
  <2>1. ASSUME NEW t \in Sources \ {Self} PROVE Followed(t)'
    <3>1. Followed(t)
      BY DEF Exact
    <3>2. InFlight(t)'
      <4>1. \A k \in Links : \A i \in DOMAIN air[k] : air[k][i].source = t => heard'[t].id <= air[k][i].id
        BY <1>4, <3>1 DEF Followed, InFlight
      <4> QED BY <1>4, <3>1, <4>1, FlightShrinks DEF Followed
    <3>3. LastHeard(t)' /\ NoneLater(t)'
      BY <1>4, <3>1 DEF Followed, LastHeard, NoneLater
    <3> QED BY <3>2, <3>3 DEF Followed
  <2> QED BY <1>4, <2>1 DEF Exact
<1>5. ASSUME NEW l \in Links, Lose(l) PROVE Exact'
  BY <1>4, <1>5 DEF Lose, seqnoVars, Exact
<1>6. ASSUME NEW l \in Links, air[l] # <<>>, Accept(l, Head(air[l])) PROVE Exact'
  BY <1>6, AcceptExact
<1>7. ASSUME NEW l \in Links, air[l] # <<>>, Refuse(l, Head(air[l])) PROVE Exact'
  BY <1>4, <1>7 DEF Refuse, Arrives, seqnoVars, Exact
<1>8. ASSUME NEW l \in Links, air[l] # <<>>, DropDuplicate(l, Head(air[l])) PROVE Exact'
  <2>1. missed' = {}
    BY <1>8, DropExact
  <2> QED BY <1>4, <1>8, <2>1 DEF DropDuplicate, Arrives, seqnoVars, Exact
<1>9. ~\E s \in Sources : Restart(s)
  BY DEF Restart, OneWayEach
<1>10. CASE UNCHANGED vars
  BY <1>10 DEF vars, Exact, Followed, InFlight, LastHeard, NoneLater
<1> QED BY <1>2, <1>3, <1>5, <1>6, <1>7, <1>8, <1>9, <1>10 DEF Next

\* With one way and one place for each source, the one number kept of it tells
\* every repetition from every new packet (sdn_seqno_is_duplicate), with
\* counters that wrap as often as they may, for any number of sources.
THEOREM EachOnce ==
    ASSUME OneWayEach
    PROVE  Spec => [](TreatedOnce /\ NothingMissed)
<1>1. Init => Inv /\ Exact
  BY InitInv, InitExact
<1>2. Inv /\ Exact /\ [Next]_vars => (Inv /\ Exact)'
  BY NextType, NextRecent, NextExact DEF Inv
<1>3. Exact => TreatedOnce /\ NothingMissed
  BY DEF Exact, TreatedOnce, NothingMissed
<1> QED BY <1>1, <1>2, <1>3, PTL DEF Spec

\* The same of the runs of MCReceivePath, whatever the other parts do.
THEOREM LinkStaysExact ==
    ASSUME OneWayEach
    PROVE  PathSpec => []LinkExact
<1> DEFINE I == part = "link" => Inv /\ Exact
<1>1. PathInit => I
  BY InitInv, InitExact DEF PathInit
<1>2. I /\ [PathNext]_<<part, vars, queueVars>> => I'
  <2> SUFFICES ASSUME I, [PathNext]_<<part, vars, queueVars>>, part' = "link" PROVE (Inv /\ Exact)'
    OBVIOUS
  <2>1. part = "link" /\ [Next]_vars
    BY DEF PathNext
  <2> QED BY <2>1, NextType, NextRecent, NextExact DEF Inv
<1>3. I => LinkExact
  BY DEF LinkExact, Exact, TreatedOnce, NothingMissed
<1> QED BY <1>1, <1>2, <1>3, PTL DEF PathSpec

-----------------------------------------------------------------------------
(* The rings *)

RingInv == QueueTyped /\ RingSound

-----------------------------------------------------------------------------
(* RingPlaces *)

\* An offset below the size is a place of the array, and so is the next place.
LEMMA PlaceType ==
    ASSUME NEW h \in RingPlaces
    PROVE  /\ Wrap(h) \in RingPlaces
           /\ Place(h, 0) = h
           /\ \A i \in 0..(QueueSize - 1) : Place(h, i) \in RingPlaces
    BY QueueAssumption, SMT DEF RingPlaces, Wrap, Place

\* Different offsets below the size are different places.
LEMMA PlaceInjective ==
    ASSUME NEW h \in RingPlaces,
           NEW i \in 0..(QueueSize - 1), NEW j \in 0..(QueueSize - 1), i # j
    PROVE  Place(h, i) # Place(h, j)
    BY QueueAssumption, SMT DEF RingPlaces, Place

\* One more place is the next one, whichever end moves.
LEMMA PlaceSuccessor ==
    ASSUME NEW h \in RingPlaces, NEW i \in 0..(QueueSize - 1)
    PROVE  Wrap(Place(h, i)) = Place(h, i + 1) /\ Place(Wrap(h), i) = Place(h, i + 1)
    BY QueueAssumption, SMT DEF RingPlaces, Place, Wrap

\* The newest packet's place, once the tail has moved on.
LEMMA NewestAfterWrap ==
    ASSUME QueueTyped, tail' = Wrap(tail)
    PROVE  Newest' = tail
    BY QueueAssumption, SMT DEF QueueTyped, RingPlaces, Newest, Wrap

\* What the proofs below take from the invariant and the assumption.
LEMMA RingTypes ==
    ASSUME RingInv
    PROVE  /\ QueueSize \in Nat /\ QueueSize > 0
           /\ head \in RingPlaces /\ tail \in RingPlaces /\ size \in Nat /\ size <= QueueSize
           /\ slot \in [RingPlaces -> Entry]
           /\ Len(Queued) = size /\ (Queued = <<>> <=> size = 0)
  <1>1. QueueSize \in Nat /\ QueueSize > 0 /\ size \in Nat /\ size <= QueueSize
    BY QueueAssumption DEF RingInv, QueueTyped
  <1>2. Len(Queued) = size /\ (Queued = <<>> <=> size = 0)
    BY <1>1 DEF Queued
  <1> QED BY <1>1, <1>2 DEF RingInv, QueueTyped

-----------------------------------------------------------------------------
(* Operations *)

\* A packet that joins with mark h: the ring stays sound and the queue grows
\* at its end.  The enqueue of sdn-queue.c and of the controller node are both
\* of this form.
LEMMA Joins ==
    ASSUME RingInv, NEW d \in Data, NEW h \in Hops, size < QueueSize,
           slot' = [slot EXCEPT ![tail] = [data |-> d, hop |-> h]],
           tail' = Wrap(tail), size' = size + 1, head' = head, in' = d, out' = out
    PROVE  RingInv' /\ Queued' = Append(Queued, [data |-> d, hop |-> h])
  <1> DEFINE x == [data |-> d, hop |-> h]
  <1> USE RingTypes
  <1>1. x \in Entry /\ d # NoData
    BY QueueAssumption DEF Entry
  <1>2. slot' \in [RingPlaces -> Entry] /\ slot'[tail] = x
    BY <1>1
  <1>3. QueueTyped'
    BY <1>2, PlaceType DEF RingInv, QueueTyped
  <1>4. tail = Place(head, size) /\ size \in 0..(QueueSize - 1)
    BY DEF RingInv, RingSound
  <1>5. tail' = Place(head', size')
    BY <1>4, PlaceSuccessor
  <1>6. ASSUME NEW i \in 0..(size - 1)
        PROVE  slot'[Place(head, i)] = slot[Place(head, i)]
    <2>1. i \in 0..(QueueSize - 1) /\ i # size
      OBVIOUS
    <2>2. Place(head, i) \in RingPlaces /\ Place(head, i) # tail
      BY <2>1, <1>4, PlaceInjective, PlaceType
    <2> QED BY <2>2
  <1>7. slot'[Place(head, size)] = x
    BY <1>2, <1>4
  <1>8. ASSUME NEW i \in 0..(size' - 1) PROVE slot'[Place(head', i)].data # NoData
    <2>1. CASE i = size
      BY <2>1, <1>1, <1>7
    <2>2. CASE i # size
      <3>1. i \in 0..(size - 1)
        BY <2>2, <1>4
      <3> QED BY <3>1, <1>6 DEF RingInv, RingSound
    <2> QED BY <2>1, <2>2
  <1>9. Queued' = Append(Queued, x)
    <2> DEFINE new == [i \in 1..(size + 1) |-> IF i = size + 1 THEN x ELSE slot[Place(head, i - 1)]]
    <2>1. Queued' = [i \in 1..(size + 1) |-> slot'[Place(head, i - 1)]]
      BY DEF Queued
    <2>2. ASSUME NEW i \in 1..(size + 1)
          PROVE  slot'[Place(head, i - 1)] =
                     IF i = size + 1 THEN x ELSE slot[Place(head, i - 1)]
      <3>1. CASE i = size + 1
        <4>1. i - 1 = size
          BY <3>1, <1>4
        <4> QED BY <4>1, <3>1, <1>7
      <3>2. CASE i # size + 1
        <4>1. (i - 1) \in 0..(size - 1)
          BY <3>2, <1>4
        <4> QED BY <4>1, <3>2, <1>6
      <3> QED BY <3>1, <3>2
    <2>3. Queued' = new
      BY <2>1, <2>2
    <2>4. Append(Queued, x) = new
      BY <1>4 DEF Queued
    <2> QED BY <2>3, <2>4
  <1>10. RingSound'
    BY <1>5, <1>8 DEF RingSound
  <1> QED BY <1>3, <1>9, <1>10 DEF RingInv

\* Marking the oldest packet changes its mark and nothing else.
LEMMA Marks ==
    ASSUME RingInv, NEW h \in Hops, MarkHead(h)
    PROVE  RingInv' /\ Queued # <<>> /\ Queued' = [Queued EXCEPT ![1].hop = h]
  <1> DEFINE x == [data |-> slot[head].data, hop |-> h]
  <1> USE RingTypes
  <1>1. size > 0 /\ slot' = [slot EXCEPT ![head].hop = h] /\ UNCHANGED <<head, tail, size, in, out>>
    BY DEF MarkHead
  <1>2. slot[head] \in Entry
    OBVIOUS
  <1>3. [slot[head] EXCEPT !.hop = h] = x /\ x \in Entry
    BY <1>2 DEF Entry
  <1>4. slot' = [slot EXCEPT ![head] = x]
    BY <1>1, <1>3
  <1>5. QueueTyped'
    BY <1>1, <1>3, <1>4 DEF RingInv, QueueTyped
  <1>6. ASSUME NEW i \in 0..(size - 1)
        PROVE  slot'[Place(head, i)] = IF i = 0 THEN x ELSE slot[Place(head, i)]
    <2>1. i \in 0..(QueueSize - 1) /\ 0 \in 0..(QueueSize - 1)
      OBVIOUS
    <2>2. Place(head, i) \in RingPlaces /\ Place(head, 0) = head
      BY <2>1, PlaceType
    <2>3. i # 0 => Place(head, i) # head
      BY <2>1, <2>2, PlaceInjective
    <2> QED BY <2>2, <2>3, <1>4
  <1>7. RingSound'
    <2>1. tail' = Place(head', size')
      BY <1>1 DEF RingInv, RingSound
    <2>2. ASSUME NEW i \in 0..(size' - 1) PROVE slot'[Place(head', i)].data # NoData
      <3>1. i \in 0..(size - 1) /\ 0 \in 0..(size - 1)
        BY <1>1
      <3>2. slot[Place(head, i)].data # NoData /\ slot[head].data # NoData
        BY <3>1, PlaceType DEF RingInv, RingSound
      <3> QED BY <3>1, <3>2, <1>1, <1>6
    <2> QED BY <2>1, <2>2 DEF RingSound
  <1>8. Queued' = [Queued EXCEPT ![1].hop = h]
    <2>1. Queued' = [i \in 1..size |-> slot'[Place(head, i - 1)]]
      BY <1>1 DEF Queued
    <2>2. 1 \in DOMAIN Queued /\ DOMAIN Queued = 1..size
      BY <1>1 DEF Queued
    <2>3. Queued[1] = slot[head]
      BY <2>2, PlaceType DEF Queued
    <2>4. [Queued EXCEPT ![1].hop = h] = [Queued EXCEPT ![1] = x]
      BY <2>2, <2>3, <1>3
    <2>5. ASSUME NEW i \in 1..size
          PROVE  slot'[Place(head, i - 1)] = [Queued EXCEPT ![1] = x][i]
      <3>1. (i - 1) \in 0..(size - 1) /\ (i - 1 = 0 <=> i = 1)
        OBVIOUS
      <3>2. slot'[Place(head, i - 1)] = IF i = 1 THEN x ELSE slot[Place(head, i - 1)]
        BY <3>1, <1>6
      <3> QED BY <3>2, <2>2 DEF Queued
    <2>6. [Queued EXCEPT ![1] = x] = [i \in 1..size |-> [Queued EXCEPT ![1] = x][i]]
      BY <2>2
    <2> QED BY <2>1, <2>4, <2>5, <2>6
  <1> QED BY <1>1, <1>5, <1>7, <1>8 DEF RingInv

\* A packet that leaves is the oldest, and the others move up.
LEMMA Leaves ==
    ASSUME RingInv, Remove
    PROVE  /\ RingInv' /\ Queued # <<>> /\ Queued' = Tail(Queued)
           /\ out' = Head(Queued).data /\ in' = in
  <1> USE RingTypes
  <1>1. size > 0 /\ out' = slot[head].data /\ head' = Wrap(head) /\ size' = size - 1
        /\ tail' = tail /\ slot' = slot /\ in' = in
    BY DEF Remove
  <1>2. ASSUME NEW i \in 0..(QueueSize - 1) PROVE Place(head', i) = Place(head, i + 1)
    BY <1>1, PlaceSuccessor
  <1>3. QueueTyped'
    BY <1>1, PlaceType DEF RingInv, QueueTyped, Entry
  <1>4. RingSound'
    <2>1. (size - 1) \in 0..(QueueSize - 1) /\ (size - 1) + 1 = size
      BY <1>1
    <2>2. Place(head', size - 1) = Place(head, (size - 1) + 1)
      BY <2>1, <1>2
    <2>3. tail' = Place(head', size')
      BY <1>1, <2>1, <2>2 DEF RingInv, RingSound
    <2>4. ASSUME NEW i \in 0..(size' - 1) PROVE slot'[Place(head', i)].data # NoData
      <3>1. i \in 0..(QueueSize - 1) /\ i + 1 \in 0..(size - 1)
        BY <1>1
      <3> QED BY <3>1, <1>1, <1>2 DEF RingInv, RingSound
    <2> QED BY <2>3, <2>4 DEF RingSound
  <1>5. Queued # <<>> /\ Head(Queued) = slot[head]
    <2>1. 1 \in 1..size
      BY <1>1
    <2>2. Queued[1] = slot[head]
      BY <2>1, PlaceType DEF Queued
    <2>3. Head(Queued) = Queued[1]
      BY DEF Queued
    <2> QED BY <2>2, <2>3, <1>1
  <1>6. Queued' = Tail(Queued)
    <2>1. Queued' = [i \in 1..(size - 1) |-> slot[Place(head', i - 1)]]
      BY <1>1 DEF Queued
    <2>2. ASSUME NEW i \in 1..(size - 1) PROVE slot[Place(head', i - 1)] = slot[Place(head, i)]
      <3>1. (i - 1) \in 0..(QueueSize - 1) /\ (i - 1) + 1 = i
        OBVIOUS
      <3>2. Place(head', i - 1) = Place(head, (i - 1) + 1)
        BY <3>1, <1>2
      <3> QED BY <3>1, <3>2
    <2>3. Queued' = [i \in 1..(size - 1) |-> slot[Place(head, i)]]
      BY <2>1, <2>2
    <2>4. Tail(Queued) = [i \in 1..(size - 1) |-> Queued[i + 1]]
      BY <1>1 DEF Queued
    <2>5. ASSUME NEW i \in 1..(size - 1) PROVE Queued[i + 1] = slot[Place(head, i)]
      <3>1. i + 1 \in 1..size /\ (i + 1) - 1 = i
        OBVIOUS
      <3> QED BY <3>1 DEF Queued
    <2> QED BY <2>3, <2>4, <2>5
  <1> QED BY <1>1, <1>3, <1>4, <1>5, <1>6 DEF RingInv

-----------------------------------------------------------------------------
(* The invariant and the implementation *)

\* An empty ring is an empty queue.
LEMMA RingInit == QueueInit => RingInv /\ F!FifoInit
  <1> SUFFICES ASSUME QueueInit PROVE RingInv /\ F!FifoInit
    OBVIOUS
  <1>1. QueueTyped
    BY QueueAssumption DEF QueueInit, QueueTyped, RingPlaces, Entry
  <1>2. RingSound
    BY QueueAssumption DEF QueueInit, RingSound, Place
  <1>3. Queued = <<>>
    BY <1>1, <1>2, RingTypes DEF RingInv, QueueInit
  <1> QED BY <1>1, <1>2, <1>3 DEF RingInv, F!FifoInit, QueueInit

\* What an enqueue writes, as one entry.
LEMMA PutWrites ==
    ASSUME QueueTyped, NEW d \in Data
    PROVE  /\ slot[tail].hop \in Hops
           /\ [slot EXCEPT ![tail].data = d] =
                [slot EXCEPT ![tail] = [data |-> d, hop |-> slot[tail].hop]]
  <1>1. slot[tail] \in Entry
    BY DEF QueueTyped
  <1>2. [slot[tail] EXCEPT !.data = d] = [data |-> d, hop |-> slot[tail].hop]
    BY <1>1 DEF Entry
  <1> QED BY <1>1, <1>2 DEF Entry

\* What the controller node's enqueue writes, as one entry.
LEMMA PutForWrites ==
    ASSUME QueueTyped, NEW d \in Data, NEW h \in Hops
    PROVE  [[slot EXCEPT ![tail].data = d] EXCEPT ![tail].hop = h] =
               [slot EXCEPT ![tail] = [data |-> d, hop |-> h]]
  <1> DEFINE x == [data |-> d, hop |-> slot[tail].hop]
             put == [slot EXCEPT ![tail] = x]
  <1>1. [slot EXCEPT ![tail].data = d] = put
    BY PutWrites
  <1>2. slot \in [RingPlaces -> Entry] /\ tail \in RingPlaces
    BY DEF QueueTyped
  <1>3. put[tail] = x /\ DOMAIN put = RingPlaces
    BY <1>2
  <1>4. [put[tail] EXCEPT !.hop = h] = [data |-> d, hop |-> h]
    BY <1>3
  <1>5. [put EXCEPT ![tail].hop = h] = [put EXCEPT ![tail] = [data |-> d, hop |-> h]]
    BY <1>3, <1>4
  <1> QED BY <1>1, <1>2, <1>5

LEMMA RingStep == RingInv /\ [QueueNext]_queueVars => RingInv' /\ [F!FifoNext]_(F!vars)
  <1> SUFFICES ASSUME RingInv, [QueueNext]_queueVars PROVE RingInv' /\ [F!FifoNext]_(F!vars)
    OBVIOUS
  <1>1. CASE \E d \in Data : SendEnqueue(d) \/ RecvEnqueue(d)
    <2>1. PICK d \in Data : Put(d)
      BY <1>1 DEF SendEnqueue, RecvEnqueue
    <2> DEFINE h == slot[tail].hop
    <2>2. h \in Hops /\ slot' = [slot EXCEPT ![tail] = [data |-> d, hop |-> h]]
      BY <2>1, PutWrites DEF Put, RingInv
    <2> HIDE DEF h
    <2>3. RingInv' /\ Queued' = Append(Queued, [data |-> d, hop |-> h])
      BY <2>1, <2>2, Joins DEF Put
    <2>4. F!Put(d)
      BY <2>1, <2>2, <2>3, RingTypes DEF F!Put, Put
    <2> QED BY <2>3, <2>4 DEF F!FifoNext
  <1>2. CASE \E d \in Data, h \in Hops : EnqueueFor(d, h)
    <2>1. PICK d \in Data, h \in Hops : EnqueueFor(d, h)
      BY <1>2
    <2>2. slot' = [slot EXCEPT ![tail] = [data |-> d, hop |-> h]]
      <3>1. tail' = Wrap(tail)
        BY <2>1 DEF EnqueueFor
      <3>2. Newest' = tail
        BY <3>1, NewestAfterWrap DEF RingInv
      <3>3. slot' = [[slot EXCEPT ![tail].data = d] EXCEPT ![tail].hop = h]
        BY <2>1, <3>2 DEF EnqueueFor
      <3> QED BY <3>3, PutForWrites DEF RingInv
    <2>3. RingInv' /\ Queued' = Append(Queued, [data |-> d, hop |-> h])
      BY <2>1, <2>2, Joins DEF EnqueueFor
    <2>4. F!PutFor(d, h)
      BY <2>1, <2>3, RingTypes DEF F!PutFor, EnqueueFor
    <2> QED BY <2>3, <2>4 DEF F!FifoNext
  <1>3. CASE \E h \in Hops : MarkHead(h)
    <2>1. PICK h \in Hops : MarkHead(h)
      BY <1>3
    <2>2. RingInv' /\ F!Mark(h)
      BY <2>1, Marks DEF F!Mark, MarkHead
    <2> QED BY <2>2 DEF F!FifoNext
  <1>4. CASE Remove
    <2>1. RingInv' /\ F!Take
      BY <1>4, Leaves DEF F!Take
    <2> QED BY <2>1 DEF F!FifoNext
  <1>5. CASE /\ size = 0 /\ UNCHANGED <<head, tail, size, slot, in>>
             /\ out' = IF Receiving THEN NoData ELSE slot[head].data
    <2>1. slot[head].data \in Data \union {NoData}
      BY DEF RingInv, QueueTyped, Entry
    <2>2. RingInv' /\ Queued' = Queued
      BY <1>5, <2>1 DEF RingInv, QueueTyped, RingSound, Queued
    <2>3. F!TakeNothing
      BY <1>5, <2>1, <2>2, RingTypes DEF F!TakeNothing
    <2> QED BY <2>2, <2>3 DEF F!FifoNext
  <1>6. CASE UNCHANGED queueVars
    BY <1>6 DEF queueVars, RingInv, QueueTyped, RingSound, Queued, F!vars
  <1> QED
    BY <1>1, <1>2, <1>3, <1>4, <1>5, <1>6 DEF QueueNext, SendDequeue, RecvDequeue

\* The ring of either queue is consistent whatever is queued and removed, for
\* every size: head, tail and size agree, and the places in use hold packets.
THEOREM RingIsSound == QueueSpec => [](QueueTyped /\ RingSound)
  <1>1. QueueInit => RingInv
    BY RingInit
  <1>2. RingInv /\ [QueueNext]_queueVars => RingInv'
    BY RingStep
  <1> QED BY <1>1, <1>2, PTL DEF QueueSpec, RingInv

\* The ring implements the queue sdn-queue.h offers, for every size: nothing
\* is lost, repeated or reordered, and marks stay with their packets.
THEOREM RingRefinesFifo == QueueSpec => RefinesFifo
  <1>1. QueueInit => RingInv /\ F!FifoInit
    BY RingInit
  <1>2. RingInv /\ [QueueNext]_queueVars => RingInv' /\ [F!FifoNext]_(F!vars)
    BY RingStep
  <1> QED BY <1>1, <1>2, PTL DEF QueueSpec, F!FifoSpec, RefinesFifo
=============================================================================
