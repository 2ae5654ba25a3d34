------------------------------ MODULE MCSetups ------------------------------
(* How a route comes from the controller to a node.  In each behavior one part
   moves: an entry of the cache, whose setups and acknowledgements may be lost
   and overtake each other, with the table of its node; the packets that carry
   their route through the network, without those that come back along it; and
   the same packets without the multiple setups of addresses. *)
EXTENDS RouteSetup, Sequences

CONSTANTS n1, n2, n3, n4,
          Nodes, Orders, MaxOrders, AddressHop, MayLose, None, Garbage  \* of SourceRoute

VARIABLES part,   \* what moves; it never changes
          air, seen, actions, orders, done, lost

-----------------------------------------------------------------------------
(* Four nodes behind the sender; n1 is its neighbor, and n1 - n2 - n3 - n4 a
   line with a way from n1 to n3. *)

FourNodes == {n1, n2, n3, n4}

\* Along the line
LineHop ==
    LET line == <<n1, n2, n3, n4>>
        place(n) == CHOOSE i \in 1..4 : line[i] = n
    IN  [a \in FourNodes |-> [b \in FourNodes |->
            IF place(a) < place(b) THEN line[place(a) + 1]
            ELSE IF place(a) > place(b) THEN line[place(a) - 1] ELSE a]]

Order(kind, route, cut, walk) == [kind |-> kind, route |-> route, cut |-> cut, walk |-> walk]

\* Setups and acknowledgements take every route, whole or cut; walks go on from
\* a route's end or come back along it.
Ways == {<<n1>>, <<n1, n2>>, <<n1, n3>>, <<n1, n2, n3>>, <<n1, n3, n4>>, <<n1, n2, n3, n4>>}
Walks == {<<<<n1>>, <<n1, n2, n3, n4>>>>, <<<<n1, n2>>, <<n2, n3, n4>>>>,
          <<<<n1, n2, n3>>, <<n3, n4>>>>}
Single == {Order(kind, way, FALSE, <<>>) : kind \in {"setup", "ack"}, way \in Ways}
          \union {Order("setup", way, TRUE, <<>>) : way \in {w \in Ways : Len(w) > 1}}
WalkOrders(kind) == {Order(kind, w[1], FALSE, w[2]) : w \in Walks}
Back == Order("multData", <<n1, n2, n3>>, FALSE, <<n3, n2, n1>>)

OnwardOrders == Single \union WalkOrders("multData") \union WalkOrders("multControl")
DataOrders == Single \union WalkOrders("multData") \union {Back}

-----------------------------------------------------------------------------
packetVars == <<air, seen, actions, orders, done, lost>>
all == <<part, vars, packetVars>>

Onward == INSTANCE SourceRoute WITH Orders <- OnwardOrders, table <- actions

Meant == INSTANCE SourceRoute WITH table <- actions

ASSUME Onward!SourceRouteAssumption
ASSUME MeantAssumption == Meant!SourceRouteAssumption

NoMultControl == \A o \in Orders : o.kind # "multControl"
ASSUME NoMultControl

Parts == {"entry", "onward", "meant"}

AllInit == part \in Parts /\ Init /\ Onward!Init

EntryMoves == part = "entry" /\ UNCHANGED <<part, packetVars>>
PacketsMove(p) == part = p /\ UNCHANGED <<part, vars>>

AllNext ==
    \/ EntryMoves /\ Next
    \/ PacketsMove("onward") /\ Onward!Next
    \/ PacketsMove("meant") /\ Meant!Next

\* The fairness of each part, on the steps of this module
AllFairness ==
    /\ WF_all(EntryMoves /\ Tick)
    /\ SF_all(EntryMoves /\ ReceiveSetup(current))
    /\ SF_all(EntryMoves /\ ReceiveAck(current))
    /\ WF_all(PacketsMove("onward") /\ \E p \in air : Onward!Arrive(p))

AllSpec == AllInit /\ [][AllNext]_all /\ AllFairness

-----------------------------------------------------------------------------
\* Whatever is lost or overtaken, and whatever fails at the node, an entry whose
\* route no longer changes is confirmed in the end; and the node has the route
\* then, if neither the entry nor, since then, the table went back.
FinallyConfirmed == part = "entry" => FinallyInstalled

\* No action of a source-routed or multiple setup ends up at a node it was not
\* sent to, and nobody but the receivers treats one.
ActionsAsMeant == part = "meant" => Meant!AsMeant

\* sdn-process-packets.c: "if there still are set flows in the packet, resend
\* it".  A packet that is not lost is treated by everyone it is for, and carries
\* the rest of its route on the way.
OnwardTreated == part = "onward" => Onward!AllTreated /\ []Onward!RestOfRoute
=============================================================================
