-------------------------- MODULE RouteSetupProofs --------------------------
(***************************************************************************)
(* The route of one node.  Nothing is sent again for an entry that is      *)
(* online: its node had the route if there was room, and has it unless the *)
(* entry or the table went back, for any number of routes and any period   *)
(* of the timer, and whatever is lost, repeated or overtaken.  The         *)
(* argument: what the node acknowledged it had.  Since the entry has its   *)
(* route, and while nothing went back, no setup under way is later than    *)
(* the entry, and once the node acknowledged the entry's route none is     *)
(* later than its table.                                                   *)
(*                                                                         *)
(* Packets that carry their route.  A setup installs only what was sent to *)
(* the node it reaches, for any network and routes and walks of any        *)
(* length.  The argument: a packet always is what its order says, short of *)
(* the addresses and elements that were used; the elements a multiple      *)
(* setup has left name the place on the walk where it is.                  *)
(***************************************************************************)
EXTENDS MCSetups, SequenceTheorems, TLAPS

\* What the node acknowledged it had, if there was room.
AckedWasHad ==
    /\ {table, NoRoute} \subseteq had
    /\ ~MayBeFull => acks \subseteq had /\ (online => current \in had)

\* Nothing under way is later than the entry; an acknowledgement of its route
\* means that the node has it.
NoneLater ==
    ~wentBack =>
        /\ table <= current
        /\ \A r \in setups : r <= current
        /\ online \/ current \in acks => table = current

Inv == TypeOK /\ AckedWasHad /\ NoneLater

\* What is under way once a packet is there was under way before.
LEMMA TakenFewer == ASSUME NEW channel, NEW r, NEW rest \in Taken(channel, r) PROVE rest \subseteq channel
BY DEF Taken

\* The shape of the state, whatever the routes do and whatever fails.
LEMMA TypeInductive ==
    ASSUME SetupAssumption, TypeOK, [Next]_vars
    PROVE  TypeOK'
<1> USE DEF TypeOK, history, controller
<1>c. RetransmitTime \in Nat \ {0}
  BY DEF SetupAssumption
<1>1. ASSUME NEW r \in Routes, Change(r) PROVE TypeOK'
  <2>1. countdown' \in 1..RetransmitTime
    BY <1>1, <1>c DEF Change
  <2> QED BY <1>1, <2>1 DEF Change
<1>2. CASE Tick
  <2>1. countdown' \in 1..RetransmitTime
    BY <1>2, <1>c DEF Tick
  <2> QED BY <1>2, <2>1 DEF Tick
<1>3. ASSUME NEW r \in setups, ReceiveSetup(r) PROVE TypeOK'
  <2>1. r \in Routes /\ setups' \subseteq setups
    BY <1>3, TakenFewer DEF ReceiveSetup
  <2>2. table' \in Routes \union {NoRoute} /\ had' \subseteq Routes \union {NoRoute}
    BY <1>3, <2>1 DEF ReceiveSetup, Stored
  <2> QED BY <1>3, <2>1, <2>2 DEF ReceiveSetup
<1>4. ASSUME NEW r \in acks, ReceiveAck(r) PROVE TypeOK'
  <2>1. acks' \subseteq acks
    BY <1>4, TakenFewer DEF ReceiveAck
  <2> QED BY <1>4, <2>1 DEF ReceiveAck
<1>5. ASSUME NEW r, LoseSetup(r) \/ LoseAck(r) PROVE TypeOK'
  BY <1>5 DEF LoseSetup, LoseAck
<1>6. CASE FailHop \/ Ask \/ ReceiveRequest
  BY <1>6 DEF FailHop, Ask, ReceiveRequest
<1>7. CASE UNCHANGED vars
  BY <1>7 DEF vars
<1> QED BY <1>1, <1>2, <1>3, <1>4, <1>5, <1>6, <1>7 DEF Next

\* The first setup is on its way.
LEMMA InitTyped == ASSUME SetupAssumption, Init PROVE TypeOK
<1>1. current \in Routes /\ setups \subseteq Routes
  BY DEF Init, SetupAssumption, Routes
<1>2. online \in BOOLEAN /\ asked \in BOOLEAN /\ wentBack \in BOOLEAN
  BY DEF Init
<1>3. countdown \in 1..RetransmitTime
  BY DEF Init, SetupAssumption
<1>4. acks \subseteq Routes /\ table \in Routes \union {NoRoute} /\ had \subseteq Routes \union {NoRoute}
  BY DEF Init
<1> QED BY <1>1, <1>2, <1>3, <1>4 DEF TypeOK

\* The state keeps its shape in every build of the entry and the node.
THEOREM SetupTypeCorrect == Spec => []TypeOK
<1>1. Init => TypeOK
  BY InitTyped, SetupAssumption
<1>2. TypeOK /\ [Next]_vars => TypeOK'
  BY TypeInductive, SetupAssumption
<1> QED BY <1>1, <1>2, PTL DEF Spec

\* What is acknowledged was had, and nothing under way is later than the entry.
LEMMA OnlineInductive ==
    ASSUME SetupAssumption, Inv, [Next]_vars
    PROVE  Inv'
<1> USE DEF history, controller
<1>t. TypeOK'
  BY TypeInductive DEF Inv
<1>n. /\ Routes \subseteq Nat /\ NoRoute \in Nat
      /\ current \in Nat /\ table \in Nat /\ setups \subseteq Nat /\ acks \subseteq Nat
      /\ had \subseteq Nat /\ wentBack \in BOOLEAN /\ online \in BOOLEAN
  BY DEF Inv, TypeOK, Routes, NoRoute
<1>o. AckedWasHad /\ NoneLater
  BY DEF Inv
<1>1. ASSUME NEW r \in Routes, Change(r) PROVE Inv'
  <2>1. /\ current' = r /\ online' = FALSE /\ setups' = setups \union {r}
        /\ wentBack' = ~Fresh(r) /\ UNCHANGED <<acks, table, had>>
    BY <1>1 DEF Change
  <2>2. AckedWasHad'
    BY <1>o, <2>1 DEF AckedWasHad
  <2>3. ASSUME Fresh(r) PROVE table <= r /\ r \notin acks /\ \A x \in setups \union {r} : x <= r
    <3>1. \A x \in setups \union acks \union {table} : x < r
      BY <1>o, <2>3 DEF Fresh, AckedWasHad
    <3> QED BY <1>n, <3>1
  <2>4. NoneLater'
    BY <2>1, <2>3 DEF NoneLater
  <2> QED BY <1>t, <2>2, <2>4 DEF Inv
<1>2. CASE Tick
  <2>1. /\ UNCHANGED <<current, online, acks, table, had, wentBack>>
        /\ setups' \subseteq setups \union {current}
    BY <1>2 DEF Tick
  <2>2. ASSUME ~wentBack PROVE \A r \in setups' : r <= current
    BY <1>n, <1>o, <2>1, <2>2 DEF NoneLater
  <2> QED BY <1>t, <1>o, <2>1, <2>2 DEF Inv, AckedWasHad, NoneLater
<1>3. ASSUME NEW r \in setups, ReceiveSetup(r) PROVE Inv'
  <2>1. /\ UNCHANGED <<current, online>>
        /\ setups' \in Taken(setups, r) /\ acks' = acks \union {r}
        /\ table' \in {r, NoRoute} /\ (~MayBeFull => table' = r)
        /\ had' = had \union {table'}
        /\ wentBack' = (wentBack \/ table' < table \/ table' # r)
    BY <1>3 DEF ReceiveSetup, Stored
  <2>2. setups' \subseteq setups
    BY <2>1, TakenFewer
  <2>3. AckedWasHad'
    BY <1>o, <2>1 DEF AckedWasHad
  <2>4. ASSUME ~wentBack'
        PROVE  /\ table' <= current /\ \A x \in setups' : x <= current
               /\ online \/ current \in acks' => table' = current
    <3>1. ~wentBack /\ ~(table' < table) /\ table' = r /\ r \in Nat
      BY <1>n, <2>1, <2>4
    <3>2. /\ r <= current /\ \A x \in setups' : x <= current
          /\ online \/ current \in acks => table = current
      BY <1>o, <2>2, <3>1 DEF NoneLater
    <3>3. CASE online \/ current \in acks
      BY <1>n, <3>1, <3>2, <3>3
    <3>4. CASE current = r
      BY <3>1, <3>2, <3>4
    <3> QED BY <2>1, <3>1, <3>2, <3>3, <3>4
  <2>5. NoneLater'
    BY <2>1, <2>4 DEF NoneLater
  <2> QED BY <1>t, <2>3, <2>5 DEF Inv
<1>4. ASSUME NEW r \in acks, ReceiveAck(r) PROVE Inv'
  <2>1. /\ UNCHANGED <<current, setups, table, had, wentBack>>
        /\ acks' \in Taken(acks, r) /\ online' = (online \/ r = current)
    BY <1>4 DEF ReceiveAck
  <2>2. acks' \subseteq acks /\ (online' => online \/ current \in acks)
    BY <2>1, TakenFewer
  <2>3. AckedWasHad'
    BY <1>o, <2>1, <2>2 DEF AckedWasHad
  <2>4. NoneLater'
    BY <1>o, <2>1, <2>2 DEF NoneLater
  <2> QED BY <1>t, <2>3, <2>4 DEF Inv
<1>5. ASSUME NEW r, LoseSetup(r) \/ LoseAck(r) PROVE Inv'
  <2>1. /\ setups' \subseteq setups /\ acks' \subseteq acks
        /\ UNCHANGED <<current, online, table, had, wentBack>>
    BY <1>5 DEF LoseSetup, LoseAck
  <2> QED BY <1>t, <1>o, <2>1 DEF Inv, AckedWasHad, NoneLater
<1>6. CASE FailHop
  <2>1. table' = NoRoute /\ wentBack' = TRUE /\ UNCHANGED <<current, online, acks, had>>
    BY <1>6 DEF FailHop
  <2> QED BY <1>t, <1>o, <2>1 DEF Inv, AckedWasHad, NoneLater
<1>7. CASE Ask \/ ReceiveRequest \/ UNCHANGED vars
  <2>1. UNCHANGED <<current, online, setups, acks, table, had, wentBack>>
    BY <1>7 DEF Ask, ReceiveRequest, vars
  <2> QED BY <1>t, <1>o, <2>1 DEF Inv, AckedWasHad, NoneLater
<1> QED BY <1>1, <1>2, <1>3, <1>4, <1>5, <1>6, <1>7 DEF Next

\* An entry the controller no longer sends was installed at its node if there was
\* room, and still is, unless the entry or the table went back: over channels that
\* lose, repeat and reorder, and next hops that fail.
THEOREM OnlineInstalled == Spec => []OnlineIsInstalled
<1>1. Init => Inv
  <2>1. Init => TypeOK
    BY InitTyped, SetupAssumption
  <2>2. Init => AckedWasHad /\ NoneLater
    BY DEF Init, AckedWasHad, NoneLater, NoRoute
  <2> QED BY <2>1, <2>2 DEF Inv
<1>2. Inv /\ [Next]_vars => Inv'
  BY OnlineInductive, SetupAssumption
<1>3. Inv => OnlineIsInstalled
  BY DEF Inv, TypeOK, AckedWasHad, NoneLater, OnlineIsInstalled
<1> QED BY <1>1, <1>2, <1>3, PTL DEF Spec
-----------------------------------------------------------------------------
(* What source routes carry *)

\* The element a walk has k places from its end, as MultPacket lists it
FromEnd(walk, k) == Meant!ActionOn(walk, Len(walk) + 1 - k)

\* A packet of a multiple setup is on its route with all elements and the rest
\* of the route, or on its walk, with the elements from the node it goes to on.
OnItsWay(p, o) ==
    /\ Len(p.elems) \in 1..Len(o.walk)
    /\ \A k \in 1..Len(p.elems) : p.elems[k] = FromEnd(o.walk, k)
    /\ p.pathLen # 0 =>
         /\ Len(p.elems) = Len(o.walk) /\ p.pathLen < Len(o.route)
         /\ \A k \in 1..p.pathLen : p.path[k] = o.route[Len(o.route) + 1 - k]
    /\ p.pathLen = 0 => p.to = o.walk[Len(o.walk) + 1 - Len(p.elems)]

Shape == [kind : {"setup", "ack", "multData", "plain"}, seq : Nat, to : Nodes, real : Nodes,
          path : Seq(Nodes), pathLen : Nat, elems : Seq(Nodes), setLen : Nat]

\* A packet is of the order that has its number.
Carries(p, o) ==
    /\ p \in Shape
    /\ p.pathLen = Len(p.path) /\ p.setLen = Len(p.elems)
    /\ p.real = o.route[Len(o.route)]
    /\ o.kind = IF p.kind = "plain" THEN "setup" ELSE p.kind
    /\ p.kind = "multData" => OnItsWay(p, o)

PacketsCarry == \A p \in air : p.seq \in 1..Len(orders) /\ Carries(p, orders[p.seq])

WayInv ==
    /\ Meant!AsMeant
    /\ PacketsCarry
    /\ done \subseteq (1..Len(orders)) \X Nodes

\* A packet that carries what it should has its type.
LEMMA CarryTyped ==
    ASSUME NEW p, NEW o, Carries(p, o)
    PROVE  /\ p.kind \in {"setup", "ack", "multData", "multControl", "plain"}
           /\ {p.to, p.real} \subseteq Nodes
           /\ p.path \in Seq(Nodes) /\ p.elems \in Seq(Nodes)
BY DEF Carries, Shape

\* What is known of an order
LEMMA OrderIs ==
    ASSUME NEW o \in Orders
    PROVE  /\ o.kind \in {"setup", "ack", "multData", "multControl"}
           /\ o.route \in Seq(Nodes) /\ Len(o.route) \in Nat \ {0} /\ o.walk \in Seq(Nodes)
           /\ o.route[Len(o.route)] \in Nodes
           /\ o.walk # <<>> <=> o.kind \in {"multData", "multControl"}
           /\ o.walk # <<>> => Len(o.walk) \in Nat \ {0} /\ o.walk[1] = o.route[Len(o.route)]
           /\ o.cut => o.kind = "setup" /\ Len(o.route) > 1
           /\ \A k \in 1..Len(o.walk) : FromEnd(o.walk, k) \in Nodes
<1>1. /\ o \in [kind : {"setup", "ack", "multData", "multControl"},
                route : Seq(Nodes), cut : BOOLEAN, walk : Seq(Nodes)]
      /\ o.route # <<>>
      /\ o.walk # <<>> <=> o.kind \in {"multData", "multControl"}
      /\ o.walk # <<>> => Head(o.walk) = o.route[Len(o.route)]
      /\ o.cut => o.kind = "setup" /\ Len(o.route) > 1
  BY MeantAssumption DEF Meant!SourceRouteAssumption, Meant!Last
<1>2. o.route \in Seq(Nodes) /\ o.walk \in Seq(Nodes)
  BY <1>1
<1>3. \A k \in 1..Len(o.walk) : FromEnd(o.walk, k) \in Nodes
  BY <1>2 DEF FromEnd, Meant!ActionOn
<1> QED BY <1>1, <1>2, <1>3

\* A reversed list has its last element first.
LEMMA ReverseIs ==
    ASSUME NEW S, NEW s \in Seq(S)
    PROVE  /\ Meant!Reverse(s) \in Seq(S) /\ Len(Meant!Reverse(s)) = Len(s)
           /\ \A k \in 1..Len(s) : Meant!Reverse(s)[k] = s[Len(s) - k + 1]
BY DEF Meant!Reverse

\* What is left of a list without its last element
LEMMA FrontIs ==
    ASSUME NEW S, NEW s \in Seq(S), s # <<>>
    PROVE  /\ Meant!Front(s) \in Seq(S) /\ Len(Meant!Front(s)) = Len(s) - 1 /\ Len(s) \in Nat \ {0}
           /\ \A k \in 1..(Len(s) - 1) : Meant!Front(s)[k] = s[k]
<1>1. Len(s) \in Nat \ {0}
  OBVIOUS
<1>2. \A k \in 1..(Len(s) - 1) : s[k] \in S
  OBVIOUS
<1>3. Meant!Front(s) = [k \in 1..(Len(s) - 1) |-> s[k]]
  BY <1>1 DEF Meant!Front
<1>4. Len(s) - 1 \in Nat
  BY <1>1
<1> HIDE DEF Meant!Front
<1> QED BY <1>1, <1>2, <1>3, <1>4

\* What is left of a sequence after its first element is the rest, in order.
LEMMA TailKeeps ==
    ASSUME NEW S, NEW q \in Seq(S), q # <<>>
    PROVE  /\ Tail(q) \in Seq(S) /\ Head(q) \in S /\ Head(q) = q[1]
           /\ Len(q) \in Nat \ {0} /\ Len(Tail(q)) = Len(q) - 1
           /\ \A i \in 1..Len(Tail(q)) : Tail(q)[i] = q[i + 1]
OBVIOUS

\* The list of a route is shorter than it by one, its end first.
LEMMA PathIs ==
    ASSUME NEW r \in Seq(Nodes), r # <<>>
    PROVE  /\ Meant!PathOf(r) \in Seq(Nodes) /\ Len(Meant!PathOf(r)) = Len(r) - 1
           /\ \A k \in 1..(Len(r) - 1) : Meant!PathOf(r)[k] = r[Len(r) + 1 - k]
<1>1. /\ Tail(r) \in Seq(Nodes) /\ Len(Tail(r)) = Len(r) - 1 /\ Len(r) \in Nat \ {0}
      /\ \A k \in 1..(Len(r) - 1) : Tail(r)[k] = r[k + 1]
  BY TailKeeps
<1>2. /\ Meant!PathOf(r) \in Seq(Nodes) /\ Len(Meant!PathOf(r)) = Len(Tail(r))
      /\ \A k \in 1..Len(Tail(r)) : Meant!PathOf(r)[k] = Tail(r)[Len(Tail(r)) - k + 1]
  BY <1>1, ReverseIs DEF Meant!PathOf
<1>3. ASSUME NEW k \in 1..(Len(r) - 1) PROVE Meant!PathOf(r)[k] = r[Len(r) + 1 - k]
  <2>1. Len(r) - 1 - k + 1 \in 1..(Len(r) - 1) /\ Len(r) - 1 - k + 1 + 1 = Len(r) + 1 - k
    BY <1>1
  <2> QED BY <1>1, <1>2, <2>1
<1> QED BY <1>1, <1>2, <1>3

-----------------------------------------------------------------------------
\* A packet is sent with its whole route and, of a walk, all its elements.
LEMMA SentCarries ==
    ASSUME NoMultControl, NEW o \in Orders, NEW seq \in Nat,
           NEW p, p = (CASE o.kind = "ack" -> Meant!AckPacket(o, seq)
                         [] o.kind = "setup" -> IF o.cut THEN Meant!CutPacket(o, seq)
                                                ELSE Meant!SetupPacket(o, seq)
                         [] OTHER -> Meant!MultPacket(o, seq))
    PROVE  p.seq = seq /\ Carries(p, o)
<1> DEFINE real == o.route[Len(o.route)]
           elems == Meant!Reverse([i \in DOMAIN o.walk |-> Meant!ActionOn(o.walk, i)])
<1>1. /\ o.route \in Seq(Nodes) /\ o.route # <<>> /\ Len(o.route) \in Nat \ {0}
      /\ Head(o.route) \in Nodes /\ Head(o.route) = o.route[1] /\ real \in Nodes
      /\ o.kind \in {"setup", "ack", "multData"}
  BY OrderIs DEF NoMultControl
<1>2. ASSUME NEW path \in Seq(Nodes), NEW e \in Seq(Nodes), NEW q, q = Meant!Packet(o, seq, path, e)
      PROVE  /\ q \in Shape
             /\ q.pathLen = Len(q.path) /\ q.setLen = Len(q.elems) /\ q.real = real
             /\ q.kind = o.kind /\ q.kind # "plain" /\ q.seq = seq
             /\ q.path = path /\ q.elems = e /\ q.to = o.route[1]
  BY <1>1, <1>2 DEF Meant!Packet, Meant!Last, Shape
<1> HIDE DEF real
<1>3. Meant!PathOf(o.route) \in Seq(Nodes)
  BY <1>1, PathIs
<1>4. PICK none : none = <<>>
  OBVIOUS
<1>5. none \in Seq(Nodes)
  BY <1>4
<1>6. CASE o.kind = "ack"
  <2>1. p = Meant!Packet(o, seq, Meant!PathOf(o.route), none)
    BY <1>6, <1>4 DEF Meant!AckPacket
  <2>2. /\ p \in Shape
        /\ p.pathLen = Len(p.path) /\ p.setLen = Len(p.elems) /\ p.real = real
        /\ p.kind = o.kind /\ p.kind # "plain" /\ p.seq = seq
    BY <1>2, <1>3, <1>5, <2>1
  <2> QED BY <1>6, <2>2 DEF Carries, real
<1>7. CASE o.kind = "setup" /\ ~o.cut
  <2>1. p = Meant!Packet(o, seq, Meant!PathOf(o.route), none)
    BY <1>7, <1>4 DEF Meant!SetupPacket
  <2>2. /\ p \in Shape
        /\ p.pathLen = Len(p.path) /\ p.setLen = Len(p.elems) /\ p.real = real
        /\ p.kind = o.kind /\ p.kind # "plain" /\ p.seq = seq
    BY <1>2, <1>3, <1>5, <2>1
  <2> QED BY <1>7, <2>2 DEF Carries, real
<1>8. CASE o.kind = "setup" /\ o.cut
  <2>1. p = Meant!Packet(o, seq, Meant!PathOf(Meant!Front(o.route)), none)
    BY <1>8, <1>4 DEF Meant!CutPacket
  <2>2. Meant!Front(o.route) \in Seq(Nodes) /\ Meant!Front(o.route) # <<>>
    <3>1. Len(o.route) > 1
      BY <1>8, OrderIs
    <3>2. Meant!Front(o.route) \in Seq(Nodes) /\ Len(Meant!Front(o.route)) = Len(o.route) - 1
      BY <1>1, FrontIs
    <3> QED BY <1>1, <3>1, <3>2
  <2>3. Meant!PathOf(Meant!Front(o.route)) \in Seq(Nodes)
    BY <2>2, PathIs
  <2>4. /\ p \in Shape
        /\ p.pathLen = Len(p.path) /\ p.setLen = Len(p.elems) /\ p.real = real
        /\ p.kind = o.kind /\ p.kind # "plain" /\ p.seq = seq
    BY <1>2, <1>5, <2>1, <2>3
  <2> QED BY <1>8, <2>4 DEF Carries, real
<1>9. CASE o.kind = "multData"
  <2>1. p = Meant!Packet(o, seq, Meant!PathOf(o.route), elems)
    BY <1>9 DEF Meant!MultPacket
  <2>2. /\ elems \in Seq(Nodes) /\ Len(elems) = Len(o.walk)
        /\ \A k \in 1..Len(elems) : elems[k] = FromEnd(o.walk, k)
    <3> DEFINE a == [i \in DOMAIN o.walk |-> Meant!ActionOn(o.walk, i)]
    <3>1. o.walk \in Seq(Nodes) /\ DOMAIN o.walk = 1..Len(o.walk) /\ Len(o.walk) \in Nat
      BY OrderIs
    <3>2. \A i \in 1..Len(o.walk) : Meant!ActionOn(o.walk, i) \in Nodes
      BY <3>1 DEF Meant!ActionOn
    <3>3. a \in Seq(Nodes) /\ Len(a) = Len(o.walk)
      BY <3>1, <3>2
    <3>4. /\ elems \in Seq(Nodes) /\ Len(elems) = Len(a)
          /\ \A k \in 1..Len(a) : elems[k] = a[Len(a) - k + 1]
      <4> HIDE DEF a
      <4>1. elems = Meant!Reverse(a)
        BY DEF a
      <4> QED BY <3>3, <4>1, ReverseIs
    <3>5. ASSUME NEW k \in 1..Len(o.walk) PROVE a[Len(o.walk) - k + 1] = FromEnd(o.walk, k)
      <4>1. Len(o.walk) - k + 1 \in DOMAIN o.walk /\ Len(o.walk) - k + 1 = Len(o.walk) + 1 - k
        BY <3>1
      <4> QED BY <4>1 DEF FromEnd
    <3> HIDE DEF a, elems
    <3> QED BY <3>3, <3>4, <3>5
  <2>3. /\ Meant!PathOf(o.route) \in Seq(Nodes) /\ Len(Meant!PathOf(o.route)) = Len(o.route) - 1
        /\ \A k \in 1..(Len(o.route) - 1) : Meant!PathOf(o.route)[k] = o.route[Len(o.route) + 1 - k]
    BY <1>1, PathIs
  <2>4. Len(o.walk) \in Nat \ {0} /\ o.walk[1] = real
    BY <1>9, OrderIs DEF real
  <2> HIDE DEF elems
  <2>5. /\ p \in Shape
        /\ p.pathLen = Len(p.path) /\ p.setLen = Len(p.elems) /\ p.real = real
        /\ p.kind = o.kind /\ p.kind # "plain" /\ p.seq = seq
        /\ p.path = Meant!PathOf(o.route) /\ p.elems = elems /\ p.to = o.route[1]
    BY <1>2, <2>1, <2>2, <2>3
  <2>6. OnItsWay(p, o)
    <3>1. p.pathLen = Len(o.route) - 1 /\ Len(p.elems) = Len(o.walk)
      BY <2>2, <2>3, <2>5
    <3>2. p.pathLen = 0 => p.to = o.walk[Len(o.walk) + 1 - Len(p.elems)]
      <4> SUFFICES ASSUME p.pathLen = 0 PROVE p.to = o.walk[Len(o.walk) + 1 - Len(p.elems)]
        OBVIOUS
      <4>1. Len(o.route) = 1 /\ Len(o.walk) + 1 - Len(p.elems) = 1
        <5>1. Len(o.route) - 1 = 0
          BY <2>5, <3>1
        <5>2. Len(o.route) \in Nat /\ Len(o.walk) \in Nat
          BY <1>1, <2>4
        <5> QED BY <3>1, <5>1, <5>2
      <4>2. p.to = o.route[1] /\ real = o.route[1]
        BY <2>5, <4>1 DEF real
      <4> QED BY <2>4, <4>1, <4>2
    <3>3. p.pathLen < Len(o.route) /\ Len(p.elems) \in 1..Len(o.walk)
      BY <1>1, <2>4, <3>1
    <3>4. \A k \in 1..Len(p.elems) : p.elems[k] = FromEnd(o.walk, k)
      BY <2>2, <2>5
    <3>5. \A k \in 1..p.pathLen : p.path[k] = o.route[Len(o.route) + 1 - k]
      BY <2>3, <2>5, <3>1
    <3> QED BY <3>1, <3>2, <3>3, <3>4, <3>5 DEF OnItsWay
  <2> QED BY <2>5, <2>6 DEF Carries, real
<1> QED BY <1>1, <1>6, <1>7, <1>8, <1>9

\* A new order disturbs none that was sent before.
LEMMA SendWay ==
    ASSUME NoMultControl, WayInv, NEW o \in Orders, Meant!Send(o)
    PROVE  WayInv'
<1>1. /\ orders \in Seq(Orders) /\ Len(orders) < MaxOrders /\ orders' = Append(orders, o)
      /\ UNCHANGED <<seen, actions, done, lost>> /\ Len(orders) \in Nat /\ MaxOrders \in Nat
  BY MeantAssumption DEF WayInv, Meant!AsMeant, Meant!TypeOK, Meant!Send, Meant!SourceRouteAssumption
<1>2. /\ orders' \in Seq(Orders) /\ Len(orders') = Len(orders) + 1 /\ Len(orders') <= MaxOrders
      /\ orders'[Len(orders) + 1] = o /\ \A i \in 1..Len(orders) : orders'[i] = orders[i]
      /\ 1..Len(orders) \subseteq 1..Len(orders')
  BY <1>1
<1>3. PICK new : air' = air \union {new} /\ new.seq = Len(orders) + 1 /\ Carries(new, o)
  <2> DEFINE new == CASE o.kind = "ack" -> Meant!AckPacket(o, Len(orders) + 1)
                      [] o.kind = "setup" -> IF o.cut THEN Meant!CutPacket(o, Len(orders) + 1)
                                             ELSE Meant!SetupPacket(o, Len(orders) + 1)
                      [] OTHER -> Meant!MultPacket(o, Len(orders) + 1)
  <2>1. air' = air \union {new}
    BY DEF Meant!Send
  <2>2. new.seq = Len(orders) + 1 /\ Carries(new, o)
    <3>1. Len(orders) + 1 \in Nat
      BY <1>1
    <3> QED BY <3>1, SentCarries
  <2> HIDE DEF new
  <2> QED BY <2>1, <2>2
<1>4. PacketsCarry'
  BY <1>1, <1>2, <1>3 DEF WayInv, PacketsCarry
<1>5. Meant!TypeOK'
  <2>1. \A p \in air' :
           /\ p.kind \in {"setup", "ack", "multData", "multControl", "plain"}
           /\ p.seq \in 1..Len(orders') /\ {p.to, p.real} \subseteq Nodes
           /\ p.path \in Seq(Nodes) /\ p.elems \in Seq(Nodes)
    BY <1>4, CarryTyped DEF PacketsCarry
  <2>2. /\ seen' \in [Nodes -> 0..MaxOrders] /\ actions' \in [Nodes -> Nodes \union {None, Garbage}]
        /\ done' \subseteq (1..MaxOrders) \X Nodes /\ lost' \subseteq 1..MaxOrders
    BY <1>1 DEF WayInv, Meant!AsMeant, Meant!TypeOK
  <2> QED BY <1>2, <2>1, <2>2 DEF Meant!TypeOK
<1>6. \A i \in 1..Len(orders) : Meant!Receivers(i)' = Meant!Receivers(i)
  BY <1>2 DEF Meant!Receivers
<1>7. Meant!TreatedByReceivers'
  BY <1>1, <1>6 DEF WayInv, Meant!AsMeant, Meant!TreatedByReceivers
<1>8. Meant!InstalledAsMeant'
  <2>1. DOMAIN orders = 1..Len(orders) /\ DOMAIN orders' = 1..Len(orders')
    BY <1>1, <1>2
  <2> QED BY <1>1, <1>2, <2>1 DEF WayInv, Meant!AsMeant, Meant!InstalledAsMeant
<1>9. done' \subseteq (1..Len(orders')) \X Nodes
  BY <1>1, <1>2 DEF WayInv
<1> QED BY <1>4, <1>5, <1>7, <1>8, <1>9 DEF WayInv, Meant!AsMeant

-----------------------------------------------------------------------------
\* An action that order i meant for node n
MeantFor(n, a, i) ==
    LET o == orders[i]
    IN  IF o.walk = <<>> THEN n = Meant!Last(o.route) /\ a = n
        ELSE \E k \in DOMAIN o.walk : o.walk[k] = n /\ a = Meant!ActionOn(o.walk, k)

\* Steps that send on what they should and treat what is theirs
LEMMA WayKept ==
    ASSUME WayInv, orders' = orders,
           \A q \in air' : q \in air \/ (q.seq \in 1..Len(orders) /\ Carries(q, orders[q.seq])),
           seen' = seen \/ \E p \in air : seen' = [seen EXCEPT ![p.to] = p.seq],
           lost' = lost \/ \E p \in air : lost' = lost \union {p.seq},
           \/ UNCHANGED <<actions, done>>
           \/ \E p \in air :
                 /\ p.to \in Meant!Receivers(p.seq) /\ done' = done \union {<<p.seq, p.to>>}
                 /\ \/ actions' = actions
                    \/ \E a \in Nodes : MeantFor(p.to, a, p.seq) /\ actions' = [actions EXCEPT ![p.to] = a]
    PROVE  WayInv'
<1>1. /\ PacketsCarry /\ orders \in Seq(Orders) /\ Len(orders) \in Nat /\ Len(orders) <= MaxOrders
      /\ DOMAIN orders = 1..Len(orders) /\ 1..Len(orders) \subseteq 0..MaxOrders
      /\ 1..Len(orders) \subseteq 1..MaxOrders
      /\ done \subseteq (1..Len(orders)) \X Nodes /\ lost \subseteq 1..MaxOrders
      /\ seen \in [Nodes -> 0..MaxOrders] /\ actions \in [Nodes -> Nodes \union {None, Garbage}]
  BY MeantAssumption DEF WayInv, Meant!AsMeant, Meant!TypeOK, Meant!SourceRouteAssumption
<1>2. \A p \in air : p.seq \in 1..Len(orders) /\ p.to \in Nodes
  BY <1>1, CarryTyped DEF PacketsCarry
<1>3. PacketsCarry'
  BY <1>1 DEF PacketsCarry
<1>4. done' \subseteq (1..Len(orders)) \X Nodes
  BY <1>1, <1>2
<1>5. seen' \in [Nodes -> 0..MaxOrders] /\ lost' \subseteq 1..MaxOrders
  BY <1>1, <1>2
<1>6. actions' \in [Nodes -> Nodes \union {None, Garbage}]
  BY <1>1
<1>7. Meant!TypeOK'
  <2>1. \A p \in air' :
           /\ p.kind \in {"setup", "ack", "multData", "multControl", "plain"}
           /\ p.seq \in 1..Len(orders') /\ {p.to, p.real} \subseteq Nodes
           /\ p.path \in Seq(Nodes) /\ p.elems \in Seq(Nodes)
    BY <1>3, CarryTyped DEF PacketsCarry
  <2>2. done' \subseteq (1..MaxOrders) \X Nodes
    BY <1>1, <1>4
  <2> QED BY <1>1, <1>5, <1>6, <2>1, <2>2 DEF Meant!TypeOK
<1>8. Meant!TreatedByReceivers'
  <2>1. \A i : Meant!Receivers(i)' = Meant!Receivers(i)
    BY DEF Meant!Receivers
  <2>2. \A d \in done : d[2] \in Meant!Receivers(d[1])
    BY DEF WayInv, Meant!AsMeant, Meant!TreatedByReceivers
  <2> QED BY <2>1, <2>2 DEF Meant!TreatedByReceivers
<1>9. Meant!InstalledAsMeant'
  <2>1. \A n \in Nodes : actions[n] = None \/ \E i \in DOMAIN orders : MeantFor(n, actions[n], i)
    BY DEF WayInv, Meant!AsMeant, Meant!InstalledAsMeant, MeantFor
  <2>2. \A n \in Nodes : actions'[n] = actions[n] \/ \E i \in DOMAIN orders : MeantFor(n, actions'[n], i)
    BY <1>1, <1>2
  <2>3. \A n \in Nodes : actions'[n] = None \/ \E i \in DOMAIN orders : MeantFor(n, actions'[n], i)
    BY <2>1, <2>2
  <2> QED BY <2>3 DEF Meant!InstalledAsMeant, MeantFor
<1> QED BY <1>1, <1>3, <1>4, <1>7, <1>8, <1>9 DEF WayInv, Meant!AsMeant

\* On the source-routed part the rest of the route goes on.
LEMMA FollowCarries ==
    ASSUME WayInv, NEW p \in air, p.pathLen > 0, p.kind # "plain"
    PROVE  Meant!Shortened(p).seq = p.seq /\ Carries(Meant!Shortened(p), orders[p.seq])
<1> DEFINE o == orders[p.seq]
           q == Meant!Shortened(p)
<1>1. Carries(p, o) /\ p \in Shape /\ o \in Orders
  BY DEF WayInv, PacketsCarry, Carries, Meant!AsMeant, Meant!TypeOK
<1>2. p.path \in Seq(Nodes) /\ p.path # <<>> /\ p.pathLen = Len(p.path) /\ p.pathLen \in Nat \ {0}
  BY <1>1 DEF Carries, Shape
<1>3. /\ Meant!Front(p.path) \in Seq(Nodes) /\ Len(Meant!Front(p.path)) = p.pathLen - 1
      /\ \A k \in 1..(p.pathLen - 1) : Meant!Front(p.path)[k] = p.path[k]
      /\ p.path[p.pathLen] \in Nodes
  BY <1>2, FrontIs
<1>4. /\ q.pathLen = p.pathLen - 1 /\ q.path = Meant!Front(p.path) /\ q.to = p.path[p.pathLen]
      /\ q.kind = p.kind /\ q.seq = p.seq /\ q.real = p.real /\ q.elems = p.elems /\ q.setLen = p.setLen
      /\ q \in Shape
  <2>1. PICK len, path, to : len = p.pathLen - 1 /\ path = Meant!Front(p.path) /\ to = p.path[p.pathLen]
    OBVIOUS
  <2>2. len \in Nat /\ path \in Seq(Nodes) /\ to \in Nodes
    BY <1>2, <1>3, <2>1
  <2>3. q = [p EXCEPT !.pathLen = len, !.path = path, !.to = to]
    BY <2>1 DEF Meant!Shortened, Meant!NextAddress
  <2>4. p \in Shape
    BY <1>1
  <2>5. /\ q.pathLen = len /\ q.path = path /\ q.to = to
        /\ q.kind = p.kind /\ q.seq = p.seq /\ q.real = p.real
        /\ q.elems = p.elems /\ q.setLen = p.setLen /\ q \in Shape
    <3> HIDE DEF q
    <3> QED BY <2>2, <2>3, <2>4 DEF Shape
  <2> QED BY <2>1, <2>5
<1>5. ASSUME p.kind = "multData" PROVE OnItsWay(q, o)
  <2> HIDE DEF q, o
  <2>1. OnItsWay(p, o) /\ o.kind = "multData"
    BY <1>1, <1>5 DEF Carries
  <2>2. /\ Len(p.elems) = Len(o.walk) /\ p.pathLen < Len(o.route)
        /\ \A k \in 1..p.pathLen : p.path[k] = o.route[Len(o.route) + 1 - k]
        /\ Len(p.elems) \in 1..Len(o.walk)
        /\ \A k \in 1..Len(p.elems) : p.elems[k] = FromEnd(o.walk, k)
    BY <1>2, <2>1 DEF OnItsWay
  <2>3. Len(o.route) \in Nat \ {0} /\ Len(o.walk) \in Nat \ {0} /\ o.walk[1] = o.route[Len(o.route)]
    BY <1>1, <2>1, OrderIs
  <2>4. q.pathLen < Len(o.route) /\ \A k \in 1..q.pathLen : q.path[k] = o.route[Len(o.route) + 1 - k]
    BY <1>2, <1>3, <1>4, <2>2, <2>3
  <2>5. ASSUME q.pathLen = 0 PROVE q.to = o.walk[Len(o.walk) + 1 - Len(p.elems)]
    <3>1. p.pathLen = 1
      <4>1. p.pathLen - 1 = 0 /\ p.pathLen \in Nat
        BY <1>2, <1>4, <2>5
      <4> QED BY <4>1
    <3>2. q.to = o.route[Len(o.route) + 1 - 1]
      BY <1>4, <2>2, <3>1
    <3>3. Len(o.route) + 1 - 1 = Len(o.route) /\ Len(o.walk) + 1 - Len(p.elems) = 1
      BY <2>2, <2>3
    <3> QED BY <2>3, <3>2, <3>3
  <2> QED BY <1>4, <2>2, <2>4, <2>5 DEF OnItsWay
<1>6. q.pathLen = Len(q.path) /\ q.setLen = Len(q.elems)
  <2> HIDE DEF q
  <2> QED BY <1>1, <1>3, <1>4 DEF Carries
<1>7. Carries(q, o)
  <2> HIDE DEF q, o
  <2> QED BY <1>1, <1>4, <1>5, <1>6 DEF Carries
<1> QED BY <1>4, <1>7

\* A packet that goes on by the address tables carries the same.
LEMMA PlainCarries ==
    ASSUME WayInv, NEW p \in air, p.kind \in {"setup", "plain"},
           NEW q, q = [p EXCEPT !.kind = "plain", !.to = AddressHop[p.to][p.real]]
    PROVE  q.seq = p.seq /\ Carries(q, orders[p.seq])
<1>1. Carries(p, orders[p.seq]) /\ p \in Shape
  BY DEF WayInv, PacketsCarry, Carries
<1>2. AddressHop[p.to][p.real] \in Nodes
  BY <1>1, MeantAssumption DEF Shape, Meant!SourceRouteAssumption
<1>3. /\ q.kind = "plain" /\ q.seq = p.seq /\ q.real = p.real /\ q.path = p.path /\ q.pathLen = p.pathLen
      /\ q.elems = p.elems /\ q.setLen = p.setLen /\ q \in Shape
  BY <1>1, <1>2 DEF Shape
<1> QED BY <1>1, <1>3 DEF Carries

\* At the end of its route a multiple setup names the action of the node it is
\* at, and goes on to the next with the elements that are left.
LEMMA MultCarries ==
    ASSUME WayInv, NEW p \in air, p.kind = "multData", p.pathLen = 0
    PROVE  /\ p.to \in Meant!Receivers(p.seq)
           /\ Meant!ElementAt(p, p.setLen - 1) \in Nodes
           /\ MeantFor(p.to, Meant!ElementAt(p, p.setLen - 1), p.seq)
           /\ \A q \in Meant!Rest(p) : q.seq = p.seq /\ Carries(q, orders[p.seq])
<1> DEFINE o == orders[p.seq]
           n == p.setLen
<1>1. Carries(p, o) /\ p \in Shape /\ o \in Orders
  BY DEF WayInv, PacketsCarry, Carries, Meant!AsMeant, Meant!TypeOK
<1>2. /\ o.kind = "multData" /\ n = Len(p.elems) /\ n \in 1..Len(o.walk) /\ p.elems \in Seq(Nodes)
      /\ \A k \in 1..n : p.elems[k] = FromEnd(o.walk, k)
      /\ p.to = o.walk[Len(o.walk) + 1 - n]
  BY <1>1 DEF Carries, OnItsWay, Shape
<1>3. /\ o.walk \in Seq(Nodes) /\ Len(o.walk) \in Nat \ {0} /\ DOMAIN o.walk = 1..Len(o.walk)
      /\ o.walk # <<>> /\ n \in Nat \ {0}
      /\ \A k \in 1..Len(o.walk) : FromEnd(o.walk, k) \in Nodes
  BY <1>1, <1>2, OrderIs
<1> DEFINE m == Len(o.walk) + 1 - n
<1>4. m \in DOMAIN o.walk /\ p.to = o.walk[m]
  <2>1. m \in 1..Len(o.walk)
    <3>1. Len(o.walk) \in Nat /\ n \in 1..Len(o.walk)
      BY <1>2, <1>3
    <3> HIDE DEF n, o
    <3> QED BY <3>1
  <2> QED BY <1>2, <1>3, <2>1
<1>5. Meant!ElementAt(p, n - 1) = FromEnd(o.walk, n)
  <2>1. n - 1 < Len(p.elems) /\ n - 1 + 1 = n
    BY <1>2, <1>3
  <2> QED BY <1>2, <1>3, <2>1 DEF Meant!ElementAt
<1>6. FromEnd(o.walk, n) = Meant!ActionOn(o.walk, m)
  BY DEF FromEnd
<1>7. p.to \in Meant!Receivers(p.seq)
  BY <1>3, <1>4 DEF Meant!Receivers, Meant!ToSet
<1>8. MeantFor(p.to, Meant!ElementAt(p, n - 1), p.seq)
  BY <1>3, <1>4, <1>5, <1>6 DEF MeantFor
<1>9. Meant!ElementAt(p, n - 1) \in Nodes
  BY <1>2, <1>3, <1>5
<1>10. ASSUME NEW q \in Meant!Rest(p) PROVE q.seq = p.seq /\ Carries(q, o)
  <2>1. n # 1 /\ q = [p EXCEPT !.setLen = @ - 1, !.elems = Meant!Front(@), !.to = Meant!ElementAt(p, n - 1)]
    BY <1>10 DEF Meant!Rest
  <2>2. /\ Meant!Front(p.elems) \in Seq(Nodes) /\ Len(Meant!Front(p.elems)) = n - 1
        /\ \A k \in 1..(n - 1) : Meant!Front(p.elems)[k] = p.elems[k]
    <3>1. p.elems # <<>>
      BY <1>2, <1>3
    <3> QED BY <1>2, <3>1, FrontIs
  <2>3. n - 1 \in Nat \ {0}
    BY <1>3, <2>1
  <2>4. /\ q.kind = p.kind /\ q.seq = p.seq /\ q.real = p.real /\ q.path = p.path /\ q.pathLen = p.pathLen
        /\ q.elems = Meant!Front(p.elems) /\ q.setLen = n - 1 /\ q.to = FromEnd(o.walk, n)
        /\ q \in Shape
    BY <1>1, <1>2, <1>3, <1>5, <2>1, <2>2, <2>3 DEF Shape
  <2>5. OnItsWay(q, o)
    <3>a. Len(q.elems) = n - 1 /\ Len(o.walk) \in Nat /\ n \in 1..Len(o.walk) /\ n # 1
      BY <1>2, <1>3, <2>1, <2>2, <2>4
    <3>b. \A k \in 1..(n - 1) : k \in 1..n
      BY <1>3
    <3>1. Len(q.elems) \in 1..Len(o.walk) /\ \A k \in 1..Len(q.elems) : q.elems[k] = FromEnd(o.walk, k)
      <4>1. Len(q.elems) \in 1..Len(o.walk)
        <5> HIDE DEF n, o
        <5> QED BY <3>a
      <4>2. \A k \in 1..(n - 1) : q.elems[k] = FromEnd(o.walk, k)
        BY <1>2, <2>2, <2>4, <3>b
      <4> QED BY <3>a, <4>1, <4>2
    <3>2. m # Len(o.walk) /\ m + 1 = Len(o.walk) + 1 - Len(q.elems)
      <4> HIDE DEF n, o
      <4> QED BY <3>a
    <3>3. q.to = o.walk[m + 1]
      BY <1>6, <2>4, <3>2 DEF Meant!ActionOn
    <3> QED BY <2>4, <3>1, <3>2, <3>3 DEF OnItsWay
  <2> QED BY <1>1, <2>2, <2>4, <2>5 DEF Carries
<1> QED BY <1>7, <1>8, <1>9, <1>10

\* A packet that ends at its target is for it, if it has no walk.
LEMMA EndIsReceiver ==
    ASSUME WayInv, NEW p \in air, p.kind \in {"setup", "plain", "ack"}, p.to = p.real
    PROVE  p.to \in Meant!Receivers(p.seq) /\ p.real \in Nodes /\ MeantFor(p.to, p.real, p.seq)
<1>1. Carries(p, orders[p.seq]) /\ p \in Shape /\ orders[p.seq] \in Orders
  BY DEF WayInv, PacketsCarry, Carries, Meant!AsMeant, Meant!TypeOK
<1>2. orders[p.seq].walk = <<>>
  BY <1>1, OrderIs DEF Carries
<1> QED BY <1>1, <1>2 DEF Carries, Shape, Meant!Receivers, MeantFor, Meant!Last

-----------------------------------------------------------------------------
\* What an arrival does, one case for each way a packet is treated
LEMMA ArriveWay ==
    ASSUME NoMultControl, WayInv, NEW p \in air, Meant!Arrive(p)
    PROVE  WayInv'
<1>1. p.seq \in 1..Len(orders)
  BY DEF WayInv, PacketsCarry
<1>2. ASSUME NEW out, Meant!Take(p, out), \A q \in out : q.seq = p.seq /\ Carries(q, orders[p.seq]),
             \/ UNCHANGED <<actions, done>>
             \/ /\ p.to \in Meant!Receivers(p.seq) /\ done' = done \union {<<p.seq, p.to>>}
                /\ \/ actions' = actions
                   \/ \E a \in Nodes : MeantFor(p.to, a, p.seq) /\ actions' = [actions EXCEPT ![p.to] = a]
      PROVE  WayInv'
  <2>1. /\ air' = (air \ {p}) \union out /\ seen' = [seen EXCEPT ![p.to] = p.seq]
        /\ orders' = orders /\ lost' = lost
    BY <1>2 DEF Meant!Take
  <2>2. \A q \in air' : q \in air \/ (q.seq \in 1..Len(orders) /\ Carries(q, orders[q.seq]))
    BY <1>1, <1>2, <2>1
  <2> QED BY <1>2, <2>1, <2>2, WayKept
<1>3. CASE Meant!Drop(p)
  <2>1. /\ air' = air \ {p} /\ seen' = [seen EXCEPT ![p.to] = p.seq]
        /\ orders' = orders /\ lost' = lost /\ UNCHANGED <<actions, done>>
    BY <1>3 DEF Meant!Drop
  <2> QED BY <2>1, WayKept
<1>4. CASE Meant!FollowPath(p)
  BY <1>2, <1>4, FollowCarries DEF Meant!FollowPath
<1>5. CASE Meant!InstallSetup(p)
  <2>1. Meant!Take(p, {}) /\ p.to = p.real /\ p.kind \in {"setup", "plain", "ack"}
        /\ actions' = [actions EXCEPT ![p.to] = p.real] /\ done' = done \union {<<p.seq, p.to>>}
    BY <1>5 DEF Meant!InstallSetup, Meant!AtEnd, Meant!Treated
  <2>2. p.to \in Meant!Receivers(p.seq) /\ p.real \in Nodes /\ MeantFor(p.to, p.real, p.seq)
    BY <2>1, EndIsReceiver
  <2>3. PICK none : none = {}
    OBVIOUS
  <2>4. Meant!Take(p, none) /\ \A q \in none : q.seq = p.seq /\ Carries(q, orders[p.seq])
    BY <2>1, <2>3
  <2>5. \E a \in Nodes : MeantFor(p.to, a, p.seq) /\ actions' = [actions EXCEPT ![p.to] = a]
    BY <2>1, <2>2
  <2> QED BY <1>2, <2>1, <2>2, <2>4, <2>5
<1>6. CASE Meant!UseTable(p)
  <2>1. PICK q : q = [p EXCEPT !.kind = "plain", !.to = AddressHop[p.to][p.real]]
    OBVIOUS
  <2>2. Meant!Take(p, {q}) /\ UNCHANGED <<actions, done>> /\ p.kind = "setup"
    BY <1>6, <2>1 DEF Meant!UseTable
  <2>3. q.seq = p.seq /\ Carries(q, orders[p.seq])
    BY <2>1, <2>2, PlainCarries
  <2> QED BY <1>2, <2>2, <2>3
<1>7. CASE Meant!Relay(p)
  <2>1. [p EXCEPT !.to = AddressHop[p.to][p.real]]
            = [p EXCEPT !.kind = "plain", !.to = AddressHop[p.to][p.real]]
    <3>1. p \in Shape /\ p.kind = "plain"
      BY <1>7 DEF WayInv, PacketsCarry, Carries, Meant!Relay
    <3> QED BY <3>1 DEF Shape
  <2>2. PICK q : q = [p EXCEPT !.kind = "plain", !.to = AddressHop[p.to][p.real]]
    OBVIOUS
  <2>3. Meant!Take(p, {q}) /\ UNCHANGED <<actions, done>> /\ p.kind = "plain"
    BY <1>7, <2>1, <2>2 DEF Meant!Relay
  <2>4. q.seq = p.seq /\ Carries(q, orders[p.seq])
    BY <2>2, <2>3, PlainCarries
  <2> QED BY <1>2, <2>3, <2>4
<1>8. CASE Meant!ReceiveAck(p)
  <2>1. Meant!Take(p, {}) /\ actions' = actions /\ p.kind \in {"setup", "plain", "ack"}
    BY <1>8 DEF Meant!ReceiveAck
  <2>2. \/ done' = done
        \/ p.to = p.real /\ done' = done \union {<<p.seq, p.to>>}
    BY <1>8 DEF Meant!ReceiveAck, Meant!AtEnd, Meant!Treated
  <2> QED BY <1>2, <2>1, <2>2, EndIsReceiver
<1>9. CASE Meant!InstallMultData(p)
  <2>1. /\ Meant!Take(p, Meant!Rest(p)) /\ p.kind = "multData" /\ p.pathLen = 0
        /\ actions' = [actions EXCEPT ![p.to] = Meant!ElementAt(p, p.setLen - 1)]
        /\ done' = done \union {<<p.seq, p.to>>}
    BY <1>9 DEF Meant!InstallMultData, Meant!Treated
  <2> QED BY <1>2, <2>1, MultCarries
<1>10. ~Meant!InstallMultControl(p)
  <2>1. p \in Shape
    BY DEF WayInv, PacketsCarry, Carries
  <2> QED BY <2>1 DEF Shape, Meant!InstallMultControl
<1> QED BY <1>3, <1>4, <1>5, <1>6, <1>7, <1>8, <1>9, <1>10 DEF Meant!Arrive

\* A packet that is lost disturbs none.
LEMMA LoseWay == ASSUME WayInv, NEW p \in air, Meant!Lose(p) PROVE WayInv'
<1>1. /\ air' = air \ {p} /\ lost' = lost \union {p.seq}
      /\ orders' = orders /\ seen' = seen /\ UNCHANGED <<actions, done>>
  BY DEF Meant!Lose
<1> QED BY <1>1, WayKept

LEMMA WayInit == Meant!Init => WayInv
<1> SUFFICES ASSUME Meant!Init PROVE WayInv
  OBVIOUS
<1>1. /\ air = {} /\ orders = <<>> /\ done = {} /\ lost = {}
      /\ seen = [n \in Nodes |-> 0] /\ actions = [n \in Nodes |-> None] /\ MaxOrders \in Nat
  BY MeantAssumption DEF Meant!Init, Meant!SourceRouteAssumption
<1>2. orders \in Seq(Orders) /\ Len(orders) = 0
  BY <1>1
<1>3. Meant!TypeOK
  BY <1>1, <1>2 DEF Meant!TypeOK
<1> QED BY <1>1, <1>3 DEF WayInv, Meant!AsMeant, PacketsCarry, Meant!TreatedByReceivers, Meant!InstalledAsMeant

LEMMA WayStep == ASSUME NoMultControl, WayInv, [Meant!Next]_packetVars PROVE WayInv'
<1>1. ASSUME NEW o \in Orders, Meant!Send(o) PROVE WayInv'
  BY <1>1, SendWay
<1>2. ASSUME NEW p \in air, Meant!Arrive(p) PROVE WayInv'
  BY <1>2, ArriveWay
<1>3. ASSUME NEW p \in air, Meant!Lose(p) PROVE WayInv'
  BY <1>3, LoseWay
<1>4. CASE UNCHANGED packetVars
  <2>1. UNCHANGED <<air, seen, actions, orders, done, lost>>
    BY <1>4 DEF packetVars
  <2> QED BY <2>1, WayKept
<1> QED BY <1>1, <1>2, <1>3, <1>4 DEF Meant!Next

\* Along source routes and walks of any length, through any network and whatever is
\* lost, a node installs only an action that was sent to it, and only the receivers
\* of a packet treat it (treat_mult_data_flow_setup, treat_data_flow_setup).
THEOREM SetupsReachTheirNodes == ASSUME NoMultControl PROVE Meant!Spec => []Meant!AsMeant
<1>1. WayInv /\ [Meant!Next]_(Meant!vars) => WayInv'
  BY WayStep DEF Meant!vars, packetVars
<1>2. WayInv => Meant!AsMeant
  BY DEF WayInv
<1> QED BY WayInit, <1>1, <1>2, PTL DEF Meant!Spec

\* The same of the runs of MCSetups, whatever the other parts do.
THEOREM ActionsStayAsMeant == ASSUME NoMultControl PROVE AllSpec => []ActionsAsMeant
<1> DEFINE I == part = "meant" => WayInv
<1>1. AllInit => I
  <2>1. Onward!Init <=> Meant!Init
    BY DEF Onward!Init, Meant!Init
  <2> QED BY <2>1, WayInit DEF AllInit
<1>2. I /\ [AllNext]_all => I'
  <2> SUFFICES ASSUME I, [AllNext]_all, part' = "meant" PROVE WayInv'
    OBVIOUS
  <2>1. part = "meant" /\ [Meant!Next]_packetVars
    BY DEF AllNext, EntryMoves, PacketsMove, all, packetVars
  <2> QED BY <2>1, WayStep
<1>3. I => ActionsAsMeant
  BY DEF WayInv, ActionsAsMeant
<1> QED BY <1>1, <1>2, <1>3, PTL DEF AllSpec
=============================================================================
