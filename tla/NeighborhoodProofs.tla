-------------------------- MODULE NeighborhoodProofs --------------------------
(***************************************************************************)
(* What a node does about its neighbors.  The discovery of the controller: *)
(* whatever a node has or tells is of links there are, in every network,   *)
(* so that the hop it takes hears it.  The neighbor table: whatever        *)
(* collect hears, forgets and measures, the table follows it in two        *)
(* passes, and no change of it is left out of the reports.  The            *)
(* commutator: each frame is reported to its sender, once, and as          *)
(* delivered only if it was, for any number of stacks and of frames,       *)
(* whichever callbacks send.                                               *)
(***************************************************************************)
EXTENDS MCNeighborhood, FiniteSetTheorems, WellFoundedInduction, TLAPS

-----------------------------------------------------------------------------
(* Numbers, sets and lists *)

\* What holds of zero, and of a number if it holds of the one before, holds up to m.
LEMMA CountUp ==
    ASSUME NEW m \in Nat, NEW G, 0 \in G, \A k \in 1..m : k - 1 \in G => k \in G
    PROVE  \A k \in 0..m : k \in G
<1> DEFINE Bad == {k \in 0..m : k \notin G}
           R == {ss \in Nat \X Nat : ss[1] < ss[2]}
<1> SUFFICES ASSUME Bad # {} PROVE FALSE
  OBVIOUS
<1>1. IsWellFoundedOn(R, Nat)
  BY NatLessThanWellFounded DEF OpToRel
<1> HIDE DEF R
<1>2. Bad \subseteq Nat
  OBVIOUS
<1> HIDE DEF Bad
<1>3. PICK k \in Bad : \A j \in Bad : ~(<<j, k>> \in R)
  BY <1>1, <1>2, WFMin, Zenon
<1>4. k \in 1..m
  BY DEF Bad
<1>5. k - 1 \in 0..m /\ k - 1 < k /\ k \in Nat /\ k - 1 \in Nat
  BY <1>4
<1>6. <<k - 1, k>> \in R
  BY <1>5 DEF R
<1>7. k - 1 \notin Bad
  BY <1>3, <1>6
<1>8. k - 1 \in G
  BY <1>5, <1>7 DEF Bad
<1> QED BY <1>4, <1>8 DEF Bad

\* g goes from b on, from each number to the next, by the steps f
Steps(m, S, b, f, g) ==
    /\ g \in [0..m -> S] /\ g[0] = b
    /\ \A i \in 1..m : g[i] = f[i][g[i - 1]]

\* A function that is defined from each number to the next is there, and stays in a
\* set that the steps stay in.
LEMMA StepsExist ==
    ASSUME NEW m \in Nat, NEW S, NEW b \in S, NEW f \in [1..m -> [S -> S]]
    PROVE  \E g : Steps(m, S, b, f, g)
<1> DEFINE Upto(n, g) == g[0] = b /\ \A i \in 1..n : g[i] = f[i][g[i - 1]]
           G == {n \in 0..m : \E g \in [0..n -> S] : Upto(n, g)}
<1>1. 0 \in G
  <2> DEFINE g == [i \in 0..0 |-> b]
  <2>1. g \in [0..0 -> S] /\ Upto(0, g)
    OBVIOUS
  <2> HIDE DEF g, Upto
  <2> QED BY <2>1
<1>2. ASSUME NEW n \in 1..m, n - 1 \in G PROVE n \in G
  <2>1. PICK g \in [0..(n - 1) -> S] : Upto(n - 1, g)
    BY <1>2
  <2>2. n \in Nat /\ n - 1 \in Nat /\ n - 1 < n /\ n - 1 \in 0..(n - 1)
    OBVIOUS
  <2>3. PICK y : y = f[n][g[n - 1]]
    OBVIOUS
  <2>4. y \in S
    <3>1. f[n] \in [S -> S] /\ g[n - 1] \in S
      BY <2>2
    <3> QED BY <2>3, <3>1
  <2> DEFINE h == [i \in 0..n |-> IF i = n THEN y ELSE g[i]]
  <2>5. h \in [0..n -> S]
    <3>1. ASSUME NEW i \in 0..n PROVE (IF i = n THEN y ELSE g[i]) \in S
      BY <2>2, <2>4
    <3> QED BY <3>1
  <2>6. h[0] = b
    BY <2>1, <2>2
  <2>7. ASSUME NEW i \in 1..n PROVE h[i] = f[i][h[i - 1]]
    <3>1. h[i - 1] = g[i - 1]
      BY <2>2
    <3>2. CASE i = n
      <4>1. h[i] = y
        BY <2>2, <3>2
      <4> HIDE DEF h
      <4> QED BY <2>3, <3>1, <3>2, <4>1
    <3>3. CASE i # n
      <4>1. i \in 1..(n - 1) /\ h[i] = g[i]
        BY <2>2, <3>3
      <4> QED BY <2>1, <3>1, <4>1
    <3> QED BY <3>2, <3>3
  <2> HIDE DEF h
  <2>8. Upto(n, h)
    BY <2>6, <2>7
  <2> HIDE DEF Upto
  <2> QED BY <2>5, <2>8
<1>3. m \in G
  <2> HIDE DEF G
  <2>1. \A n \in 0..m : n \in G
    BY <1>1, <1>2, CountUp
  <2> QED BY <2>1
<1> QED BY <1>3 DEF Steps

\* A set of numbers has a least one.
LEMMA LeastOf ==
    ASSUME NEW S \in SUBSET Nat, S # {}
    PROVE  \E k \in S : \A j \in S : k <= j
<1> DEFINE R == {ss \in Nat \X Nat : ss[1] < ss[2]}
<1>1. IsWellFoundedOn(R, Nat)
  BY NatLessThanWellFounded DEF OpToRel
<1> HIDE DEF R
<1>2. PICK k \in S : \A j \in S : ~(<<j, k>> \in R)
  BY <1>1, WFMin, Zenon
<1>3. \A j \in S : <<j, k>> \in R <=> j < k
  BY DEF R
<1>4. ASSUME NEW j \in S PROVE k <= j
  <2>1. ~(j < k) /\ j \in Nat /\ k \in Nat
    BY <1>2, <1>3
  <2> QED BY <2>1
<1> QED BY <1>4

\* What comes after a place of a list
LEMMA RestOf ==
    ASSUME NEW S, NEW l \in Seq(S), NEW k \in 1..Len(l), NEW r, r = SubSeq(l, k + 1, Len(l))
    PROVE  /\ r \in Seq(S) /\ Len(r) = Len(l) - k
           /\ \A i \in 1..(Len(l) - k) : r[i] = l[i + k]
<1>1. Len(l) \in Nat /\ k \in Nat
  OBVIOUS
<1>2. CASE k = Len(l)
  <2>1. r = <<>>
    BY <1>1, <1>2
  <2> QED BY <1>1, <1>2, <2>1
<1>3. CASE k < Len(l)
  <2>1. r \in Seq(S) /\ Len(r) = Len(l) - k
    BY <1>1, <1>3
  <2>2. \A i \in 1..(Len(l) - k) : r[i] = l[i + k]
    BY <1>1, <1>3
  <2> QED BY <2>1, <2>2
<1> QED BY <1>1, <1>2, <1>3

\* The numbers up to n are n.
LEMMA UptoFinite ==
    ASSUME NEW n \in Nat
    PROVE  IsFiniteSet(1..n) /\ Cardinality(1..n) = n
<1>1. IsFiniteSet(1..n) /\ Cardinality(1..n) = IF 1 > n THEN 0 ELSE n - 1 + 1
  BY FS_Interval
<1>2. (IF 1 > n THEN 0 ELSE n - 1 + 1) = n
  OBVIOUS
<1> QED BY <1>1, <1>2

\* The number of nodes is the one that the facts about finite sets are about.
LEMMA SameCardinality ==
    ASSUME NEW L, NEW Z, NEW M, NEW S
    PROVE  Net(L, Z, M)!Cardinality(S) = Cardinality(S)
  BY DEF Net!Cardinality, Cardinality

-----------------------------------------------------------------------------
(* The discovery: lists *)

Stations == Nodes \union {Controller}

Entry == [who : Stations, hop : Stations, metric : 0..Cardinality(Stations), life : 0..Lifetime]

\* Entries that tell of a link
Good(Links) == {e \in Entry : <<e.who, e.hop>> \in Links}

\* A list of such entries, one for each node it tells of
GoodList(Links, size, l) ==
    /\ l \in Seq(Good(Links)) /\ Len(l) <= size
    /\ \A i, j \in 1..Len(l) : l[i].who = l[j].who => i = j

\* What may be assumed of a network
Network(Links, size) ==
    /\ IsFiniteSet(Nodes) /\ Controller \notin Nodes /\ Nowhere \notin Stations
    /\ Links \subseteq Stations \X Stations
    /\ {Lifetime, size, Far} \subseteq Nat \ {0}

\* An entry that is heard keeps the list in shape.
LEMMA UpdatedGood ==
    ASSUME NEW L, NEW Z \in Nat, NEW M, NEW l, GoodList(L, Z, l), NEW e \in Good(L),
           NEW u, u = Net(L, Z, M)!Updated(l, e)
    PROVE  GoodList(L, Z, u)
<1> DEFINE P == Net(L, Z, M)!Places(l, e.who)
<1>1. /\ l \in Seq(Good(L)) /\ Len(l) <= Z /\ Len(l) \in Nat /\ DOMAIN l = 1..Len(l)
      /\ \A i, j \in 1..Len(l) : l[i].who = l[j].who => i = j
  BY DEF GoodList
<1>2. CASE P # {}
  <2>1. PICK i : i = CHOOSE k \in P : TRUE
    OBVIOUS
  <2>2. i \in 1..Len(l) /\ l[i].who = e.who
    <3>1. i \in P
      BY <1>2, <2>1
    <3> QED BY <1>1, <3>1 DEF Net!Places
  <2>3. u = l \/ u = [l EXCEPT ![i] = e]
    BY <1>2, <2>1 DEF Net!Updated
  <2>4. CASE u = [l EXCEPT ![i] = e]
    <3>1. u \in Seq(Good(L)) /\ Len(u) = Len(l) /\ \A j \in 1..Len(l) : u[j] = IF j = i THEN e ELSE l[j]
      BY <1>1, <2>2, <2>4
    <3>2. \A j \in 1..Len(l) : u[j].who = l[j].who
      BY <2>2, <3>1
    <3> QED BY <1>1, <3>1, <3>2 DEF GoodList
  <2> QED BY <2>3, <2>4
<1>3. CASE P = {}
  <2>1. \A i \in 1..Len(l) : l[i].who # e.who
    BY <1>1, <1>3 DEF Net!Places
  <2>2. u = l \/ (Len(l) < Z /\ u = Append(l, e))
    BY <1>3 DEF Net!Updated
  <2>3. CASE Len(l) < Z /\ u = Append(l, e)
    <3>1. /\ u \in Seq(Good(L)) /\ Len(u) = Len(l) + 1 /\ Len(u) <= Z
          /\ \A j \in 1..Len(u) : u[j] = IF j = Len(l) + 1 THEN e ELSE l[j]
      BY <1>1, <2>3
    <3>2. ASSUME NEW i \in 1..Len(u), NEW j \in 1..Len(u), u[i].who = u[j].who PROVE i = j
      BY <1>1, <2>1, <3>1, <3>2
    <3> QED BY <3>1, <3>2 DEF GoodList
  <2> QED BY <2>2, <2>3
<1> QED BY <1>2, <1>3

\* So does the controller's entry for a node it hears.
LEMMA DirectGood ==
    ASSUME NEW L, NEW Z \in Nat, NEW M, Network(L, Z), NEW l, GoodList(L, Z, l),
           NEW s \in Stations, <<s, Controller>> \in L,
           NEW u, u = Net(L, Z, M)!UpdatedDirect(l, s)
    PROVE  GoodList(L, Z, u)
<1> DEFINE P == Net(L, Z, M)!Places(l, s)
<1>1. /\ l \in Seq(Good(L)) /\ Len(l) <= Z /\ Len(l) \in Nat /\ DOMAIN l = 1..Len(l)
      /\ \A i, j \in 1..Len(l) : l[i].who = l[j].who => i = j
  BY DEF GoodList
<1>2. Cardinality(Stations) \in Nat /\ Controller \in Stations /\ Lifetime \in Nat
  BY FS_AddElement, FS_CardinalityType DEF Network, Stations
<1>3. CASE P # {}
  <2>1. PICK i : i = CHOOSE k \in P : TRUE
    OBVIOUS
  <2>2. i \in 1..Len(l) /\ l[i].who = s
    <3>1. i \in P
      BY <1>3, <2>1
    <3> QED BY <1>1, <3>1 DEF Net!Places
  <2>3. PICK e : e = [l[i] EXCEPT !.hop = Controller, !.metric = 0]
    OBVIOUS
  <2>4. u = [l EXCEPT ![i] = e]
    BY <1>3, <2>1, <2>3 DEF Net!UpdatedDirect
  <2>5. e \in Good(L) /\ e.who = l[i].who
    <3>1. l[i] \in Entry
      <4>1. l[i] \in Good(L)
        BY <1>1, <2>2
      <4> QED BY <4>1 DEF Good
    <3>2. e \in Entry /\ e.who = l[i].who /\ e.hop = Controller
      <4>1. PICK old : old = l[i]
        OBVIOUS
      <4>2. old \in Entry /\ e = [old EXCEPT !.hop = Controller, !.metric = 0]
        BY <2>3, <3>1, <4>1
      <4>3. 0 \in 0..Cardinality(Stations)
        BY <1>2
      <4>4. e \in Entry /\ e.who = old.who /\ e.hop = Controller
        BY <1>2, <4>2, <4>3 DEF Entry
      <4> QED BY <4>1, <4>4
    <3> QED BY <2>2, <3>2 DEF Good
  <2>6. u \in Seq(Good(L)) /\ Len(u) = Len(l) /\ \A j \in 1..Len(l) : u[j] = IF j = i THEN e ELSE l[j]
    BY <1>1, <2>2, <2>4, <2>5
  <2>7. \A j \in 1..Len(l) : u[j].who = l[j].who
    BY <2>5, <2>6
  <2> QED BY <1>1, <2>6, <2>7 DEF GoodList
<1>4. CASE P = {}
  <2>1. PICK e : e = [who |-> s, hop |-> Controller, metric |-> 0, life |-> Lifetime]
    OBVIOUS
  <2>2. e \in Good(L) /\ e.who = s
    BY <1>2, <2>1 DEF Good, Entry
  <2>3. \A i \in 1..Len(l) : l[i].who # s
    BY <1>1, <1>4 DEF Net!Places
  <2>4. u = l \/ (Len(l) < Z /\ u = Append(l, e))
    BY <1>4, <2>1 DEF Net!UpdatedDirect
  <2>5. CASE Len(l) < Z /\ u = Append(l, e)
    <3>1. /\ u \in Seq(Good(L)) /\ Len(u) = Len(l) + 1 /\ Len(u) <= Z
          /\ \A j \in 1..Len(u) : u[j] = IF j = Len(l) + 1 THEN e ELSE l[j]
      BY <1>1, <2>2, <2>5
    <3>2. ASSUME NEW i \in 1..Len(u), NEW j \in 1..Len(u), u[i].who = u[j].who PROVE i = j
      BY <1>1, <2>2, <2>3, <3>1, <3>2
    <3> QED BY <3>1, <3>2 DEF GoodList
  <2> QED BY <2>4, <2>5
<1> QED BY <1>3, <1>4

\* A list that has those of l at the places in P, each once
ComesFrom(S, l, P, a) ==
    /\ a \in Seq(S)
    /\ \E f \in Bijection(1..Len(a), P) : \A k \in 1..Len(a) : a[k] = l[f[k]]

\* What a list has at some places is one.
LEMMA AmongIs ==
    ASSUME NEW L, NEW Z, NEW M, NEW S, NEW l \in Seq(S), NEW P \in SUBSET DOMAIN l,
           NEW a, a = Net(L, Z, M)!Among(l, P)
    PROVE  ComesFrom(S, l, P, a)
<1> DEFINE m == Len(l)
           Step(g, i) == IF i \in P THEN Append(g, l[i]) ELSE g
           Rec(g) == g = [i \in 0..m |-> IF i = 0 THEN <<>> ELSE Step(g[i - 1], i)]
<1>1. m \in Nat /\ DOMAIN l = 1..m /\ \A i \in 1..m : l[i] \in S
  OBVIOUS
<1>2. PICK none : none = <<>>
  OBVIOUS
<1>3. none \in Seq(S) /\ Len(none) = 0
  BY <1>2
<1>4. PICK g : /\ a = g[m] /\ g[0] = none
               /\ \A i \in 1..m : g[i] = Step(g[i - 1], i)
  <2> DEFINE f == [i \in 1..m |-> [s \in Seq(S) |-> Step(s, i)]]
  <2>1. f \in [1..m -> [Seq(S) -> Seq(S)]]
    <3>1. ASSUME NEW s \in Seq(S), NEW i \in 1..m PROVE Step(s, i) \in Seq(S)
      BY <1>1
    <3> HIDE DEF Step, m
    <3> QED BY <3>1
  <2>2. PICK g \in [0..m -> Seq(S)] : g[0] = none /\ \A i \in 1..m : g[i] = f[i][g[i - 1]]
    <3> DEFINE X == Seq(S)
    <3>1. m \in Nat /\ none \in X /\ f \in [1..m -> [X -> X]]
      BY <1>1, <1>3, <2>1
    <3> HIDE DEF f, m, X
    <3>2. \E g : Steps(m, X, none, f, g)
      BY <3>1, StepsExist
    <3> QED BY <3>2 DEF X, Steps
  <2>3. Rec(g)
    <3>1. ASSUME NEW i \in 0..m PROVE g[i] = IF i = 0 THEN <<>> ELSE Step(g[i - 1], i)
      <4>1. CASE i = 0
        BY <1>2, <2>2, <4>1
      <4>2. CASE i # 0
        <5>1. i \in 1..m /\ i - 1 \in 0..m
          BY <1>1, <4>2
        <5>2. g[i] = f[i][g[i - 1]] /\ g[i - 1] \in Seq(S)
          BY <2>2, <5>1
        <5> HIDE DEF Step
        <5> QED BY <4>2, <5>2
      <4> QED BY <4>1, <4>2
    <3> HIDE DEF Step
    <3> QED BY <2>2, <3>1
  <2> DEFINE h == CHOOSE h : Rec(h)
  <2>4. a = h[m]
    BY DEF Net!Among
  <2>5. Rec(h)
    <3> HIDE DEF Rec
    <3> QED BY <2>3
  <2> HIDE DEF h
  <2>6. \A i \in 0..m : h[i] = IF i = 0 THEN <<>> ELSE Step(h[i - 1], i)
    <3> HIDE DEF Step
    <3> QED BY <2>5
  <2>7. h[0] = none /\ \A i \in 1..m : h[i] = Step(h[i - 1], i)
    <3>1. 0 \in 0..m /\ \A i \in 1..m : i \in 0..m /\ i # 0
      BY <1>1
    <3> HIDE DEF Step
    <3> QED BY <1>2, <2>6, <3>1
  <2> QED BY <2>4, <2>7
<1> DEFINE From(s, i) == /\ s \in Seq(S)
                         /\ \E f \in Bijection(1..Len(s), P \intersect (1..i)) :
                               \A k \in 1..Len(s) : s[k] = l[f[k]]
<1>5. From(none, 0)
  <2>1. PICK f : f = [k \in 1..Len(none) |-> 0]
    OBVIOUS
  <2>2. 1..Len(none) = {} /\ P \intersect (1..0) = {}
    BY <1>3
  <2>3. f \in Bijection(1..Len(none), P \intersect (1..0))
    BY <2>1, <2>2 DEF Bijection, Injection, Surjection, IsInjective
  <2> QED BY <1>3, <2>2, <2>3
<1>6. ASSUME NEW i \in 1..m, From(g[i - 1], i - 1) PROVE From(g[i], i)
  <2>1. PICK s, t : s = g[i - 1] /\ t = g[i]
    OBVIOUS
  <2>2. i \in Nat /\ i - 1 \in Nat /\ s \in Seq(S) /\ Len(s) \in Nat
    BY <1>1, <1>6, <2>1
  <2>3. t = Step(s, i)
    BY <1>4, <2>1
  <2>4. PICK f \in Bijection(1..Len(s), P \intersect (1..(i - 1))) :
           \A k \in 1..Len(s) : s[k] = l[f[k]]
    BY <1>6, <2>1
  <2>5. CASE i \notin P
    <3>1. P \intersect (1..i) = P \intersect (1..(i - 1)) /\ t = s
      BY <2>2, <2>3, <2>5
    <3>2. From(t, i)
      BY <2>2, <2>4, <3>1
    <3> QED BY <2>1, <3>2
  <2>6. CASE i \in P
    <3>1. /\ t \in Seq(S) /\ Len(t) = Len(s) + 1
          /\ \A k \in 1..Len(t) : t[k] = IF k = Len(s) + 1 THEN l[i] ELSE s[k]
      BY <1>1, <2>2, <2>3, <2>6
    <3> DEFINE h == [k \in 1..Len(t) |-> IF k = Len(s) + 1 THEN i ELSE f[k]]
    <3>2. /\ P \intersect (1..i) = (P \intersect (1..(i - 1))) \union {i}
          /\ i \notin P \intersect (1..(i - 1))
      BY <2>2, <2>6
    <3>3. 1..Len(t) = (1..Len(s)) \union {Len(s) + 1} /\ Len(s) + 1 \notin 1..Len(s)
      BY <2>2, <3>1
    <3>4. /\ f \in [1..Len(s) -> P \intersect (1..(i - 1))]
          /\ \A j, k \in 1..Len(s) : f[j] = f[k] => j = k
          /\ \A p \in P \intersect (1..(i - 1)) : \E k \in 1..Len(s) : f[k] = p
      BY <2>4 DEF Bijection, Injection, Surjection, IsInjective
    <3>5. h \in Bijection(1..Len(t), P \intersect (1..i))
      <4>1. h \in [1..Len(t) -> P \intersect (1..i)]
        BY <3>2, <3>3, <3>4
      <4>2. ASSUME NEW j \in 1..Len(t), NEW k \in 1..Len(t), h[j] = h[k] PROVE j = k
        BY <3>2, <3>3, <3>4, <4>2
      <4>3. ASSUME NEW p \in P \intersect (1..i) PROVE \E k \in 1..Len(t) : h[k] = p
        <5>1. CASE p = i
          <6>1. Len(s) + 1 \in 1..Len(t) /\ h[Len(s) + 1] = i
            BY <3>3
          <6> QED BY <5>1, <6>1
        <5>2. CASE p # i
          <6>1. PICK k \in 1..Len(s) : f[k] = p
            BY <3>2, <3>4, <5>2
          <6>2. k \in 1..Len(t) /\ h[k] = p
            BY <3>3, <6>1
          <6> QED BY <6>2
        <5> QED BY <5>1, <5>2
      <4> HIDE DEF h
      <4> QED BY <4>1, <4>2, <4>3 DEF Bijection, Injection, Surjection, IsInjective
    <3>6. \A k \in 1..Len(t) : t[k] = l[h[k]]
      BY <2>4, <3>1, <3>3
    <3> HIDE DEF h
    <3>7. From(t, i)
      BY <3>1, <3>5, <3>6
    <3> QED BY <2>1, <3>7
  <2> QED BY <2>5, <2>6
<1>7. From(g[m], m)
  <2> HIDE DEF From, m
  <2> DEFINE G == {i \in 0..m : From(g[i], i)}
  <2>1. 0 \in G /\ \A i \in 1..m : i - 1 \in G => i \in G
    BY <1>1, <1>4, <1>5, <1>6
  <2>2. \A i \in 0..m : i \in G
    <3> HIDE DEF G
    <3> QED BY <1>1, <2>1, CountUp
  <2> QED BY <1>1, <2>2
<1>8. From(a, m)
  <2> HIDE DEF From
  <2> QED BY <1>4, <1>7
<1>9. P \intersect (1..m) = P
  BY <1>1
<1> QED BY <1>8, <1>9 DEF ComesFrom

-----------------------------------------------------------------------------
(* The discovery: what a node hears *)

\* A node's list, hop and metric: they tell of links, and the hop is over one.
NodeGood(Links, size, n, s) ==
    /\ s \in [list : Seq(Good(Links)), hop : Stations \union {Nowhere}, metric : 0..Far]
    /\ GoodList(Links, size, s.list)
    /\ n # Controller /\ s.hop # Nowhere => <<n, s.hop>> \in Links

\* An entry that is heard keeps them so.
LEMMA HeardGood ==
    ASSUME NEW L, NEW Z \in Nat, NEW M, Network(L, Z), NEW n \in Stations,
           NEW s, NodeGood(L, Z, n, s), NEW e \in Good(L),
           NEW r, r = Net(L, Z, M)!Heard(n, s, e)
    PROVE  NodeGood(L, Z, n, r)
<1>1. PICK new : new = [e EXCEPT !.life = Lifetime]
  OBVIOUS
<1>2. PICK u : u = Net(L, Z, M)!Updated(s.list, new)
  OBVIOUS
<1>3. new \in Good(L) /\ e \in Entry /\ <<e.who, e.hop>> \in L
  <2>1. Lifetime \in 0..Lifetime
    BY DEF Network
  <2>2. e \in Entry /\ <<e.who, e.hop>> \in L
    BY DEF Good
  <2>3. new \in Entry /\ new.who = e.who /\ new.hop = e.hop
    BY <1>1, <2>1, <2>2 DEF Entry
  <2> QED BY <2>2, <2>3 DEF Good
<1>4. GoodList(L, Z, u)
  BY <1>2, <1>3, UpdatedGood DEF NodeGood
<1>5. u \in Seq(Good(L))
  BY <1>4 DEF GoodList
<1>6. \/ r = s
      \/ Net(L, Z, M)!Takes(n, s, e) /\ r = [list |-> u, hop |-> e.hop, metric |-> e.metric]
      \/ r = [s EXCEPT !.list = u]
  <2>1. r = IF e.who = Controller /\ n = Controller THEN s
            ELSE IF Net(L, Z, M)!Takes(n, s, e)
            THEN [list |-> Net(L, Z, M)!Updated(s.list, new), hop |-> e.hop, metric |-> e.metric]
            ELSE [s EXCEPT !.list = Net(L, Z, M)!Updated(s.list, new)]
    BY <1>1 DEF Net!Heard
  <2> QED BY <1>2, <2>1, Zenon
<1>7. CASE r = s
  BY <1>7
<1>8. CASE Net(L, Z, M)!Takes(n, s, e) /\ r = [list |-> u, hop |-> e.hop, metric |-> e.metric]
  <2>1. e.who = n /\ e.metric < s.metric
    BY <1>8 DEF Net!Takes
  <2>2. e.hop \in Stations /\ e.metric \in 0..Cardinality(Stations) /\ s.metric \in 0..Far
    BY <1>3 DEF Entry, NodeGood
  <2>3. e.metric \in 0..Far
    BY <2>1, <2>2 DEF Network
  <2>4. r.list = u /\ r.hop = e.hop
    BY <1>8
  <2>5. r \in [list : Seq(Good(L)), hop : Stations \union {Nowhere}, metric : 0..Far]
    BY <1>5, <1>8, <2>2, <2>3
  <2> QED BY <1>3, <1>4, <2>1, <2>4, <2>5 DEF NodeGood
<1>9. CASE r = [s EXCEPT !.list = u]
  <2>1. s \in [list : Seq(Good(L)), hop : Stations \union {Nowhere}, metric : 0..Far]
    BY DEF NodeGood
  <2>2. r.list = u /\ r.hop = s.hop
    BY <1>9, <2>1
  <2>3. r \in [list : Seq(Good(L)), hop : Stations \union {Nowhere}, metric : 0..Far]
    BY <1>5, <1>9, <2>1
  <2> QED BY <1>4, <2>2, <2>3 DEF NodeGood
<1> QED BY <1>6, <1>7, <1>8, <1>9

\* What a node of the network has
Here(n) == [list |-> list[n],
            hop |-> IF n = Controller THEN Controller ELSE hop[n],
            metric |-> IF n = Controller THEN 0 ELSE metric[n]]

\* So does a message.
LEMMA HeardAllGood ==
    ASSUME NEW L, NEW Z \in Nat, NEW M, Network(L, Z), NEW n \in Stations,
           NodeGood(L, Z, n, Here(n)), NEW l, GoodList(L, Z, l), NEW es \in Seq(Good(L)),
           NEW r, r = Net(L, Z, M)!HeardAll(n, l, es)
    PROVE  NodeGood(L, Z, n, r)
<1> DEFINE m == Len(es)
           h0 == IF n = Controller THEN Controller ELSE hop[n]
           m0 == IF n = Controller THEN 0 ELSE metric[n]
           Step(s, i) == Net(L, Z, M)!Heard(n, s, es[i])
<1>1. PICK b : b = [list |-> l, hop |-> h0, metric |-> m0]
  OBVIOUS
<1>2. NodeGood(L, Z, n, b)
  <2>1. h0 \in Stations \union {Nowhere} /\ m0 \in 0..Far /\ (n # Controller /\ h0 # Nowhere => <<n, h0>> \in L)
    <3>1. PICK s : s = Here(n)
      OBVIOUS
    <3>2. s.hop = h0 /\ s.metric = m0
      BY <3>1 DEF Here
    <3> HIDE DEF h0, m0
    <3>3. NodeGood(L, Z, n, s)
      BY <3>1
    <3> QED BY <3>2, <3>3 DEF NodeGood
  <2>2. l \in Seq(Good(L))
    BY DEF GoodList
  <2> HIDE DEF h0, m0
  <2>3. b \in [list : Seq(Good(L)), hop : Stations \union {Nowhere}, metric : 0..Far] /\ b.list = l /\ b.hop = h0
    BY <1>1, <2>1, <2>2
  <2> QED BY <2>1, <2>3 DEF NodeGood
<1>3. m \in Nat /\ \A i \in 1..m : es[i] \in Good(L)
  OBVIOUS
<1> DEFINE Rec(g, k) == g = [i \in 0..k |-> IF i = 0 THEN b ELSE Step(g[i - 1], i)]
<1>4. PICK g : Rec(g, m) /\ r = g[m]
  <2> DEFINE G == {k \in 0..m : \E g : Rec(g, k)}
  <2> HIDE DEF Step
  <2>1. 0 \in G
    <3> DEFINE g == [i \in 0..0 |-> b]
    <3>1. Rec(g, 0)
      OBVIOUS
    <3> HIDE DEF g, Rec
    <3> QED BY <1>3, <3>1
  <2>2. ASSUME NEW k \in 1..m, k - 1 \in G PROVE k \in G
    <3>1. PICK g : Rec(g, k - 1)
      BY <2>2
    <3> DEFINE h == [i \in 0..k |-> IF i = k THEN Step(g[k - 1], k) ELSE g[i]]
    <3>2. k \in Nat /\ k - 1 \in Nat /\ k - 1 < k
      BY <1>3
    <3>3. ASSUME NEW i \in 0..k PROVE h[i] = IF i = 0 THEN b ELSE Step(h[i - 1], i)
      <4>1. CASE i = k
        BY <3>2, <4>1
      <4>2. CASE i # k
        <5>1. i \in 0..(k - 1) /\ (i # 0 => i - 1 \in 0..k /\ i - 1 # k)
          BY <3>2, <4>2
        <5>2. g[i] = IF i = 0 THEN b ELSE Step(g[i - 1], i)
          BY <3>1, <5>1
        <5> QED BY <4>2, <5>1, <5>2
      <4> QED BY <4>1, <4>2
    <3>4. Rec(h, k)
      BY <3>3
    <3> HIDE DEF h, Rec
    <3> QED BY <3>4
  <2>3. \E g : Rec(g, m)
    <3> HIDE DEF Rec
    <3>1. \A k \in 0..m : k \in G
      <4> HIDE DEF G
      <4> QED BY <1>3, <2>1, <2>2, CountUp
    <3> QED BY <1>3, <3>1
  <2>4. r = (CHOOSE g : Rec(g, m))[m]
    BY <1>1 DEF Net!HeardAll, Step
  <2> HIDE DEF Rec
  <2> QED BY <2>3, <2>4
<1>5. ASSUME NEW i \in 0..m PROVE g[i] = IF i = 0 THEN b ELSE Step(g[i - 1], i)
  <2> HIDE DEF Step
  <2> QED BY <1>4
<1> DEFINE G == {i \in 0..m : NodeGood(L, Z, n, g[i])}
<1>6. 0 \in G
  <2>1. 0 \in 0..m
    BY <1>3
  <2> HIDE DEF Step
  <2> QED BY <1>2, <1>5, <2>1
<1>7. ASSUME NEW i \in 1..m, i - 1 \in G PROVE i \in G
  <2>1. PICK s, t : s = g[i - 1] /\ t = g[i]
    OBVIOUS
  <2>2. i \in 0..m /\ i # 0
    BY <1>3
  <2>3. t = Net(L, Z, M)!Heard(n, s, es[i]) /\ es[i] \in Good(L) /\ NodeGood(L, Z, n, s)
    BY <1>3, <1>5, <1>7, <2>1, <2>2
  <2>4. NodeGood(L, Z, n, t)
    BY <2>3, HeardGood
  <2> QED BY <2>1, <2>2, <2>4
<1>8. \A i \in 0..m : i \in G
  <2> HIDE DEF G, m
  <2> QED BY <1>3, <1>6, <1>7, CountUp
<1> QED BY <1>3, <1>4, <1>8
-----------------------------------------------------------------------------
(* The discovery: what a node tells *)

\* What is left of a list that tells of each node once does so too.
LEMMA AliveGood ==
    ASSUME NEW L, NEW Z \in Nat, NEW M, NEW l, GoodList(L, Z, l),
           NEW a, a = Net(L, Z, M)!Alive(l)
    PROVE  GoodList(L, Z, a)
<1>1. l \in Seq(Good(L)) /\ Len(l) <= Z /\ Len(l) \in Nat /\ \A i, j \in 1..Len(l) : l[i].who = l[j].who => i = j
  BY DEF GoodList
<1>2. PICK P : P = {i \in DOMAIN l : l[i].life > 0}
  OBVIOUS
<1>3. a = Net(L, Z, M)!Among(l, P)
  BY <1>2 DEF Net!Alive
<1>4. ComesFrom(Good(L), l, P, a)
  <2> DEFINE S == Good(L)
  <2>1. l \in Seq(S) /\ P \in SUBSET DOMAIN l
    BY <1>1, <1>2
  <2> HIDE DEF S
  <2>2. ComesFrom(S, l, P, a)
    BY <1>3, <2>1, AmongIs
  <2> QED BY <2>2 DEF S
<1>5. PICK f \in [1..Len(a) -> 1..Len(l)] :
         /\ \A k \in 1..Len(a) : a[k] = l[f[k]]
         /\ \A j, k \in 1..Len(a) : f[j] = f[k] => j = k
  <2>1. PICK f \in Bijection(1..Len(a), P) : \A k \in 1..Len(a) : a[k] = l[f[k]]
    BY <1>4 DEF ComesFrom
  <2>2. f \in [1..Len(a) -> P] /\ \A j, k \in 1..Len(a) : f[j] = f[k] => j = k
    BY <2>1 DEF Bijection, Injection, IsInjective
  <2>3. P \subseteq 1..Len(l)
    BY <1>1, <1>2
  <2>4. f \in [1..Len(a) -> 1..Len(l)]
    BY <2>2, <2>3
  <2> QED BY <2>1, <2>2, <2>4
<1>6. ASSUME NEW i \in 1..Len(a), NEW j \in 1..Len(a), a[i].who = a[j].who PROVE i = j
  <2>1. f[i] \in 1..Len(l) /\ f[j] \in 1..Len(l) /\ a[i] = l[f[i]] /\ a[j] = l[f[j]]
    BY <1>5
  <2>2. f[i] = f[j]
    BY <1>1, <1>6, <2>1
  <2> QED BY <1>5, <2>2
<1>7. a \in Seq(Good(L)) /\ Len(a) \in Nat
  BY <1>4 DEF ComesFrom
<1>8. Len(a) <= Len(l)
  <2>1. IsFiniteSet(1..Len(l)) /\ Cardinality(1..Len(l)) = Len(l) /\ Cardinality(1..Len(a)) = Len(a)
    BY <1>1, <1>7, UptoFinite
  <2>2. f \in Injection(1..Len(a), 1..Len(l))
    BY <1>5 DEF Injection, IsInjective
  <2>3. Cardinality(1..Len(a)) <= Cardinality(1..Len(l))
    BY <2>1, <2>2, FS_Injection
  <2> QED BY <2>1, <2>3
<1> QED BY <1>1, <1>6, <1>7, <1>8 DEF GoodList

\* Growing older changes what is told of nobody.
LEMMA AgedGood ==
    ASSUME NEW L, NEW Z \in Nat, NEW M, Network(L, Z), NEW l, GoodList(L, Z, l),
           NEW a, a = Net(L, Z, M)!Aged(l)
    PROVE  GoodList(L, Z, a)
<1>1. l \in Seq(Good(L)) /\ Len(l) <= Z /\ Len(l) \in Nat /\ DOMAIN l = 1..Len(l)
      /\ \A i, j \in 1..Len(l) : l[i].who = l[j].who => i = j
  BY DEF GoodList
<1>2. Lifetime \in Nat
  BY DEF Network
<1> DEFINE Older(e) == [e EXCEPT !.life = IF e.life > 0 THEN e.life - 1 ELSE 0]
<1>3. a = [i \in 1..Len(l) |-> Older(l[i])]
  BY <1>1 DEF Net!Aged
<1>4. ASSUME NEW e \in Good(L) PROVE Older(e) \in Good(L) /\ Older(e).who = e.who
  <2>1. PICK t : t = IF e.life > 0 THEN e.life - 1 ELSE 0
    OBVIOUS
  <2>2. PICK o : o = [e EXCEPT !.life = t]
    OBVIOUS
  <2>3. e \in Entry /\ <<e.who, e.hop>> \in L
    BY DEF Good
  <2>4. e.life \in 0..Lifetime
    BY <2>3 DEF Entry
  <2>5. t \in 0..Lifetime
    BY <1>2, <2>1, <2>4
  <2>6. o \in Entry /\ o.who = e.who /\ o.hop = e.hop
    BY <2>2, <2>3, <2>5 DEF Entry
  <2>7. o \in Good(L) /\ o.who = e.who
    BY <2>3, <2>6 DEF Good
  <2>8. o = Older(e)
    BY <2>1, <2>2
  <2> QED BY <2>7, <2>8
<1> HIDE DEF Older
<1>5. /\ a \in Seq(Good(L)) /\ Len(a) = Len(l)
      /\ \A i \in 1..Len(l) : a[i].who = l[i].who
  <2>1. \A i \in 1..Len(l) : l[i] \in Good(L)
    BY <1>1
  <2>2. \A i \in 1..Len(l) : Older(l[i]) \in Good(L) /\ Older(l[i]).who = l[i].who
    BY <1>4, <2>1
  <2>3. a \in [1..Len(l) -> Good(L)] /\ \A i \in 1..Len(l) : a[i] = Older(l[i])
    BY <1>3, <2>2
  <2>4. a \in Seq(Good(L)) /\ Len(a) = Len(l)
    BY <1>1, <2>3
  <2> QED BY <2>2, <2>3, <2>4
<1> QED BY <1>1, <1>5 DEF GoodList

\* What a beacon sends tells of links, and so does what it leaves.
LEMMA OutcomesGood ==
    ASSUME NEW L, NEW Z \in Nat, NEW M, Network(L, Z), NEW n, GoodList(L, Z, list[n]),
           NEW o \in Net(L, Z, M)!Outcomes(n)
    PROVE  o.sent \in Seq(Good(L)) /\ GoodList(L, Z, o.left)
<1>1. PICK l : l = list[n]
  OBVIOUS
<1>2. /\ GoodList(L, Z, l) /\ l \in Seq(Good(L)) /\ Len(l) <= Z /\ Len(l) \in Nat /\ DOMAIN l = 1..Len(l)
      /\ \A i, j \in 1..Len(l) : l[i].who = l[j].who => i = j
  BY <1>1 DEF GoodList
<1>3. PICK dead : dead = {i \in DOMAIN l : l[i].life = 0}
  OBVIOUS
<1>4. PICK first : first = CHOOSE i \in dead : \A j \in dead : i <= j
  OBVIOUS
<1>5. PICK alive, before, rest : /\ alive = Net(L, Z, M)!Alive(l)
                                 /\ before = SubSeq(l, 1, first - 1) /\ rest = SubSeq(l, first + 1, Len(l))
  OBVIOUS
<1>6. \/ o = [sent |-> alive, left |-> Net(L, Z, M)!Aged(l)]
      \/ o = [sent |-> alive, left |-> Net(L, Z, M)!Aged(alive)]
      \/ /\ dead # {}
         /\ o = [sent |-> before, left |-> Net(L, Z, M)!Aged(before) \o rest]
  BY <1>1, <1>3, <1>4, <1>5 DEF Net!Outcomes
<1>7. GoodList(L, Z, alive)
  BY <1>2, <1>5, AliveGood
<1>8. CASE o = [sent |-> alive, left |-> Net(L, Z, M)!Aged(l)]
  <2>1. GoodList(L, Z, o.left)
    BY <1>2, <1>8, AgedGood
  <2> QED BY <1>7, <1>8, <2>1 DEF GoodList
<1>9. CASE o = [sent |-> alive, left |-> Net(L, Z, M)!Aged(alive)]
  <2>1. GoodList(L, Z, o.left)
    BY <1>7, <1>9, AgedGood
  <2> QED BY <1>7, <1>9, <2>1 DEF GoodList
<1>10. CASE dead # {} /\ o = [sent |-> before, left |-> Net(L, Z, M)!Aged(before) \o rest]
  <2>1. first \in 1..Len(l)
    <3>1. dead \subseteq 1..Len(l) /\ dead \subseteq Nat
      BY <1>2, <1>3
    <3>2. \E i \in dead : \A j \in dead : i <= j
      BY <1>10, <3>1, LeastOf
    <3>3. first \in dead
      BY <1>4, <3>2
    <3> QED BY <3>1, <3>3
  <2>2. /\ before \in Seq(Good(L)) /\ Len(before) = first - 1
        /\ \A i \in 1..(first - 1) : before[i] = l[i]
    BY <1>2, <1>5, <2>1
  <2>3. /\ rest \in Seq(Good(L)) /\ Len(rest) = Len(l) - first
        /\ \A i \in 1..(Len(l) - first) : rest[i] = l[i + first]
    <3> DEFINE S == Good(L)
    <3>1. l \in Seq(S) /\ rest = SubSeq(l, first + 1, Len(l))
      BY <1>2, <1>5
    <3> HIDE DEF S
    <3>2. /\ rest \in Seq(S) /\ Len(rest) = Len(l) - first
          /\ \A i \in 1..(Len(l) - first) : rest[i] = l[i + first]
      BY <2>1, <3>1, RestOf
    <3> QED BY <3>2 DEF S
  <2>4. GoodList(L, Z, before)
    BY <1>2, <2>1, <2>2 DEF GoodList
  <2>5. PICK old : old = Net(L, Z, M)!Aged(before)
    OBVIOUS
  <2>6. /\ old \in Seq(Good(L)) /\ Len(old) = first - 1
        /\ \A i \in 1..(first - 1) : old[i].who = l[i].who
    <3>1. GoodList(L, Z, old)
      BY <2>4, <2>5, AgedGood
    <3>2. DOMAIN before = 1..(first - 1)
      BY <2>2
    <3>3. old = [i \in DOMAIN before |-> [before[i] EXCEPT !.life = IF @ > 0 THEN @ - 1 ELSE 0]]
      BY <2>5 DEF Net!Aged
    <3>4. DOMAIN old = 1..(first - 1)
      BY <3>2, <3>3
    <3>5. old \in Seq(Good(L))
      BY <3>1 DEF GoodList
    <3>6. Len(old) = first - 1
      BY <2>1, <3>4, <3>5
    <3>7. ASSUME NEW i \in 1..(first - 1) PROVE old[i].who = l[i].who
      <4>1. PICK e : e = before[i]
        OBVIOUS
      <4>2. PICK t : t = IF e.life > 0 THEN e.life - 1 ELSE 0
        OBVIOUS
      <4>3. old[i] = [e EXCEPT !.life = t]
        BY <3>2, <3>3, <4>1, <4>2
      <4>4. e \in Entry
        <5>1. e \in Good(L)
          BY <2>2, <4>1
        <5> QED BY <5>1 DEF Good
      <4>5. old[i].who = e.who
        BY <4>3, <4>4 DEF Entry
      <4> QED BY <2>2, <4>1, <4>5
    <3> QED BY <3>5, <3>6, <3>7
  <2>7. PICK left : left = old \o rest
    OBVIOUS
  <2>8. /\ left \in Seq(Good(L)) /\ Len(left) = Len(l) - 1
        /\ \A i \in 1..(Len(l) - 1) : left[i] = IF i < first THEN old[i] ELSE rest[i - first + 1]
    <3>1. left \in Seq(Good(L)) /\ Len(left) = Len(old) + Len(rest)
      <4> DEFINE S == Good(L)
      <4>1. old \in Seq(S) /\ rest \in Seq(S)
        BY <2>3, <2>6
      <4> HIDE DEF S
      <4>2. left \in Seq(S) /\ Len(left) = Len(old) + Len(rest)
        BY <2>7, <4>1
      <4> QED BY <4>2 DEF S
    <3>2. Len(left) = Len(l) - 1
      BY <1>2, <2>1, <2>3, <2>6, <3>1
    <3>3. ASSUME NEW i \in 1..(Len(l) - 1)
          PROVE  left[i] = IF i < first THEN old[i] ELSE rest[i - first + 1]
      <4>1. left[i] = IF i <= Len(old) THEN old[i] ELSE rest[i - Len(old)]
        BY <2>3, <2>6, <2>7, <3>1, <3>2
      <4>2. i \in Int /\ first \in Int /\ (i <= first - 1 <=> i < first) /\ i - (first - 1) = i - first + 1
        BY <1>2, <2>1
      <4> QED BY <2>6, <4>1, <4>2
    <3> QED BY <3>1, <3>2, <3>3
  <2>9. \A i \in 1..(Len(l) - 1) : left[i].who = l[IF i < first THEN i ELSE i + 1].who
    <3> SUFFICES ASSUME NEW i \in 1..(Len(l) - 1) PROVE left[i].who = l[IF i < first THEN i ELSE i + 1].who
      OBVIOUS
    <3>1. CASE i < first
      BY <1>2, <2>1, <2>6, <2>8, <3>1, SMTT(30)
    <3>2. CASE ~(i < first)
      <4>1. PICK k : k = i - first + 1
        OBVIOUS
      <4>2. k \in 1..(Len(l) - first) /\ k + first = i + 1
        BY <1>2, <2>1, <3>2, <4>1
      <4>3. rest[k] = l[i + 1]
        BY <2>3, <4>2
      <4> QED BY <2>8, <3>2, <4>1, <4>3
    <3> QED BY <3>1, <3>2
  <2>10. GoodList(L, Z, left)
    <3>1. ASSUME NEW i \in 1..Len(left), NEW j \in 1..Len(left), left[i].who = left[j].who PROVE i = j
      <4>1. PICK p, q : p = (IF i < first THEN i ELSE i + 1) /\ q = (IF j < first THEN j ELSE j + 1)
        OBVIOUS
      <4>2. p \in 1..Len(l) /\ q \in 1..Len(l) /\ i \in 1..(Len(l) - 1) /\ j \in 1..(Len(l) - 1)
        BY <1>2, <2>1, <2>8, <4>1
      <4>3. l[p].who = l[q].who
        BY <2>9, <3>1, <4>1, <4>2
      <4>4. p = q
        BY <1>2, <4>2, <4>3
      <4> QED BY <2>1, <4>1, <4>2, <4>4
    <3>2. Len(left) <= Z
      BY <1>2, <2>8
    <3> QED BY <2>8, <3>1, <3>2 DEF GoodList
  <2> QED BY <1>10, <2>2, <2>5, <2>7, <2>10
<1> QED BY <1>6, <1>8, <1>9, <1>10
\* What a report tells the controller is of links, and of no more hops than
\* there are nodes.
LEMMA NewsGood ==
    ASSUME NEW L, NEW Z \in Nat, NEW M, Network(L, Z), NEW n \in Stations,
           neighbors[n] \in Seq(Stations),
           \A i \in 1..Len(neighbors[n]) : <<neighbors[n][i], n>> \in L,
           Net(L, Z, M)!Reaches(n),
           NEW es, es = Net(L, Z, M)!News(n)
    PROVE  es \in Seq(Good(L))
<1> DEFINE All == Cardinality(Stations)
           D == Net(L, Z, M)!Distance(n)
<1>1. All \in Nat /\ Lifetime \in Nat
  BY FS_AddElement, FS_CardinalityType DEF Network, Stations
<1>2. D \in 0..All
  <2> DEFINE There == {k \in 0..All : Net(L, Z, M)!Follow(n, k) = Controller}
  <2>1. Net(L, Z, M)!Follow(n, All) = Controller
    <3>1. Net(L, Z, M)!Follow(n, Net(L, Z, M)!Cardinality(Stations)) = Controller
      BY DEF Net!Reaches, Net!All, Stations
    <3> QED BY <3>1, SameCardinality
  <2>2. There # {} /\ There \in SUBSET Nat
    BY <1>1, <2>1
  <2>3. PICK k \in There : \A j \in There : k <= j
    <3> HIDE DEF There
    <3> QED BY <2>2, LeastOf
  <2>4. k \in 0..All /\ Net(L, Z, M)!Follow(n, k) = Controller
    OBVIOUS
  <2>5. \A j \in 0..(k - 1) : Net(L, Z, M)!Follow(n, j) # Controller
    <3> SUFFICES ASSUME NEW j \in 0..(k - 1), Net(L, Z, M)!Follow(n, j) = Controller PROVE FALSE
      OBVIOUS
    <3>1. j \in 0..All /\ j < k
      BY <1>1, <2>4
    <3>2. j \in There
      BY <3>1
    <3>3. k <= j
      <4> HIDE DEF There
      <4> QED BY <2>3, <3>2
    <3> QED BY <1>1, <2>4, <3>1, <3>3
  <2>6. D = CHOOSE i \in 0..All : /\ Net(L, Z, M)!Follow(n, i) = Controller
                                  /\ \A j \in 0..(i - 1) : Net(L, Z, M)!Follow(n, j) # Controller
    <3>1. D = CHOOSE i \in 0..Net(L, Z, M)!Cardinality(Stations) :
                       /\ Net(L, Z, M)!Follow(n, i) = Controller
                       /\ \A j \in 0..(i - 1) : Net(L, Z, M)!Follow(n, j) # Controller
      BY DEF Net!Distance, Net!All, Stations
    <3>2. Net(L, Z, M)!Cardinality(Stations) = All
      BY SameCardinality
    <3> HIDE DEF D, All
    <3> QED BY <3>1, <3>2
  <2> HIDE DEF There, D, All
  <2> QED BY <2>4, <2>5, <2>6
<1>3. PICK heard : heard = neighbors[n]
  OBVIOUS
<1>4. PICK P : P = DOMAIN heard \ {i \in DOMAIN heard : <<heard[i], n>> \in graph}
  OBVIOUS
<1>5. PICK new : new = Net(L, Z, M)!Among(heard, P)
  OBVIOUS
<1>6. es = [i \in DOMAIN new |-> [who |-> new[i], hop |-> n, metric |-> D, life |-> Lifetime]]
  BY <1>3, <1>4, <1>5 DEF Net!News
<1>7. heard \in Seq(Stations) /\ \A i \in 1..Len(heard) : <<heard[i], n>> \in L
  BY <1>3
<1>8. ComesFrom(Stations, heard, P, new)
  <2> DEFINE S == Stations
  <2>1. heard \in Seq(S) /\ P \in SUBSET DOMAIN heard
    BY <1>4, <1>7
  <2> HIDE DEF S
  <2>2. ComesFrom(S, heard, P, new)
    BY <1>5, <2>1, AmongIs
  <2> QED BY <2>2 DEF S
<1>9. new \in Seq(Stations) /\ \A i \in 1..Len(new) : <<new[i], n>> \in L
  <2>1. PICK f \in [1..Len(new) -> P] : \A i \in 1..Len(new) : new[i] = heard[f[i]]
    BY <1>8 DEF ComesFrom, Bijection, Injection
  <2>2. ASSUME NEW i \in 1..Len(new) PROVE <<new[i], n>> \in L
    <3>1. f[i] \in P /\ new[i] = heard[f[i]]
      BY <2>1
    <3>2. P \subseteq 1..Len(heard)
      BY <1>4, <1>7
    <3> QED BY <1>7, <3>1, <3>2
  <2> QED BY <1>8, <2>2 DEF ComesFrom
<1>10. \A i \in 1..Len(new) : [who |-> new[i], hop |-> n, metric |-> D, life |-> Lifetime] \in Good(L)
  <2> SUFFICES ASSUME NEW i \in 1..Len(new)
               PROVE  [who |-> new[i], hop |-> n, metric |-> D, life |-> Lifetime] \in Good(L)
    OBVIOUS
  <2>1. new[i] \in Stations /\ <<new[i], n>> \in L
    BY <1>9
  <2> HIDE DEF D
  <2>2. [who |-> new[i], hop |-> n, metric |-> D, life |-> Lifetime] \in Entry
    BY <1>1, <1>2, <2>1 DEF Entry
  <2> QED BY <2>1, <2>2 DEF Good
<1> HIDE DEF D, All
<1>11. Len(new) \in Nat /\ DOMAIN new = 1..Len(new)
  BY <1>9
<1>12. es \in [1..Len(new) -> Good(L)]
  BY <1>6, <1>10, <1>11
<1> QED BY <1>11, <1>12

-----------------------------------------------------------------------------
(* The discovery: every step *)

\* Everything a node has or is told is over links.
DiscoveryInv(Links, size) ==
    /\ list \in [Stations -> Seq(Good(Links))] /\ \A n \in Stations : GoodList(Links, size, list[n])
    /\ hop \in [Nodes -> Stations \union {Nowhere}] /\ metric \in [Nodes -> 0..Far]
    /\ \A n \in Nodes : hop[n] # Nowhere => <<n, hop[n]>> \in Links
    /\ neighbors \in [Stations -> Seq(Stations)]
    /\ \A n \in Stations : \A i \in 1..Len(neighbors[n]) : <<neighbors[n][i], n>> \in Links
    /\ \A n \in Stations : \A i, j \in 1..Len(neighbors[n]) : neighbors[n][i] = neighbors[n][j] => i = j
    /\ report \in [Stations -> {"none", "due", "sent"}] /\ graph \subseteq Links

\* So it is for each node.
LEMMA HereGood ==
    ASSUME NEW L, NEW Z \in Nat, Network(L, Z), DiscoveryInv(L, Z), NEW n \in Stations
    PROVE  NodeGood(L, Z, n, Here(n))
<1>1. list[n] \in Seq(Good(L)) /\ GoodList(L, Z, list[n])
  BY DEF DiscoveryInv
<1>2. PICK l, h, k : /\ l = list[n] /\ h = (IF n = Controller THEN Controller ELSE hop[n])
                     /\ k = (IF n = Controller THEN 0 ELSE metric[n])
  OBVIOUS
<1>3. /\ h \in Stations \union {Nowhere} /\ k \in 0..Far
      /\ n # Controller /\ h # Nowhere => <<n, h>> \in L
  BY <1>2 DEF DiscoveryInv, Network, Stations
<1>4. PICK s : s = [list |-> l, hop |-> h, metric |-> k]
  OBVIOUS
<1>5. s = Here(n)
  BY <1>2, <1>4 DEF Here
<1>6. s \in [list : Seq(Good(L)), hop : Stations \union {Nowhere}, metric : 0..Far] /\ s.list = l /\ s.hop = h
  BY <1>1, <1>2, <1>3, <1>4
<1>7. NodeGood(L, Z, n, s)
  BY <1>1, <1>2, <1>3, <1>6 DEF NodeGood
<1> QED BY <1>5, <1>7

\* Before anything is heard, nothing is told.
LEMMA DiscoveryStarts ==
    ASSUME NEW L, NEW Z \in Nat, NEW M, Network(L, Z), Net(L, Z, M)!Init
    PROVE  DiscoveryInv(L, Z)
<1>1. PICK none : none = <<>>
  OBVIOUS
<1>2. none \in Seq(Good(L)) /\ none \in Seq(Stations) /\ Len(none) = 0 /\ 1..Len(none) = {}
  BY <1>1
<1>3. GoodList(L, Z, none)
  BY <1>2 DEF GoodList
<1>4. /\ list = [n \in Stations |-> none] /\ neighbors = [n \in Stations |-> none]
      /\ hop = [n \in Nodes |-> Nowhere] /\ metric = [n \in Nodes |-> Far]
      /\ report = [n \in Stations |-> "none"] /\ graph = {}
  BY <1>1 DEF Net!Init, Net!All, Stations
<1>5. list \in [Stations -> Seq(Good(L))] /\ \A n \in Stations : GoodList(L, Z, list[n])
  BY <1>2, <1>3, <1>4
<1>6. /\ hop \in [Nodes -> Stations \union {Nowhere}] /\ metric \in [Nodes -> 0..Far]
      /\ \A n \in Nodes : hop[n] # Nowhere => <<n, hop[n]>> \in L
  BY <1>4 DEF Network
<1>7. /\ neighbors \in [Stations -> Seq(Stations)]
      /\ \A n \in Stations : 1..Len(neighbors[n]) = {}
  BY <1>2, <1>4
<1>8. report \in [Stations -> {"none", "due", "sent"}] /\ graph \subseteq L
  BY <1>4
<1> QED BY <1>5, <1>6, <1>7, <1>8 DEF DiscoveryInv

\* A neighbor is heard.
LEMMA HearNeighborKeeps ==
    ASSUME NEW L, NEW Z \in Nat, NEW M, Network(L, Z), DiscoveryInv(L, Z),
           NEW n \in Stations, NEW m \in Stations, Net(L, Z, M)!HearNeighbor(n, m)
    PROVE  DiscoveryInv(L, Z)'
<1>1. /\ <<m, n>> \in L /\ \A i \in DOMAIN neighbors[n] : neighbors[n][i] # m
      /\ neighbors' = [neighbors EXCEPT ![n] = Append(neighbors[n], m)]
      /\ report' = [report EXCEPT ![n] = IF n = Controller \/ hop[n] # Nowhere THEN "sent" ELSE "due"]
      /\ UNCHANGED <<list, hop, metric, graph>>
  BY DEF Net!HearNeighbor
<1>2. PICK old, new : old = neighbors[n] /\ new = Append(old, m)
  OBVIOUS
<1>3. /\ old \in Seq(Stations) /\ Len(old) \in Nat
      /\ \A i \in 1..Len(old) : <<old[i], n>> \in L /\ old[i] # m
      /\ \A i, j \in 1..Len(old) : old[i] = old[j] => i = j
  <2>1. neighbors[n] \in Seq(Stations)
    BY DEF DiscoveryInv
  <2>2. DOMAIN neighbors[n] = 1..Len(neighbors[n]) /\ Len(neighbors[n]) \in Nat
    BY <2>1
  <2>3. \A i \in 1..Len(neighbors[n]) : <<neighbors[n][i], n>> \in L
    BY DEF DiscoveryInv
  <2>4. \A i, j \in 1..Len(neighbors[n]) : neighbors[n][i] = neighbors[n][j] => i = j
    BY DEF DiscoveryInv
  <2> QED BY <1>1, <1>2, <2>1, <2>2, <2>3, <2>4
<1>4. /\ new \in Seq(Stations) /\ Len(new) = Len(old) + 1
      /\ \A i \in 1..Len(new) : new[i] = IF i = Len(old) + 1 THEN m ELSE old[i]
  BY <1>2, <1>3
<1>5. ASSUME NEW i \in 1..Len(new) PROVE <<new[i], n>> \in L
  <2>1. i = Len(old) + 1 \/ i \in 1..Len(old)
    BY <1>3, <1>4
  <2> QED BY <1>1, <1>3, <1>4, <2>1
<1>6. ASSUME NEW i \in 1..Len(new), NEW j \in 1..Len(new), new[i] = new[j] PROVE i = j
  <2>1. (i = Len(old) + 1 \/ i \in 1..Len(old)) /\ (j = Len(old) + 1 \/ j \in 1..Len(old))
    BY <1>3, <1>4
  <2>2. new[i] = (IF i = Len(old) + 1 THEN m ELSE old[i]) /\ new[j] = (IF j = Len(old) + 1 THEN m ELSE old[j])
    BY <1>4
  <2>3. \A k \in 1..Len(old) : old[k] # m /\ k # Len(old) + 1
    <3>1. Len(old) \in Nat /\ \A k \in 1..Len(old) : old[k] # m
      BY <1>3
    <3>2. \A k \in 1..Len(old) : k # Len(old) + 1
      <4>1. Len(old) \in Nat
        BY <3>1
      <4> QED BY <4>1
    <3> QED BY <3>1, <3>2, Zenon
  <2>4. CASE i = Len(old) + 1
    BY <1>6, <2>1, <2>2, <2>3, <2>4
  <2>5. CASE j = Len(old) + 1
    BY <1>6, <2>1, <2>2, <2>3, <2>5
  <2>6. CASE i \in 1..Len(old) /\ j \in 1..Len(old)
    <3>1. old[i] = old[j]
      BY <1>6, <2>2, <2>3, <2>6
    <3> QED BY <1>3, <2>6, <3>1
  <2> QED BY <2>1, <2>4, <2>5, <2>6
<1>7. neighbors' = [neighbors EXCEPT ![n] = new] /\ neighbors \in [Stations -> Seq(Stations)]
  BY <1>1, <1>2 DEF DiscoveryInv
<1>8. neighbors' \in [Stations -> Seq(Stations)] /\ \A k \in Stations : neighbors'[k] = IF k = n THEN new ELSE neighbors[k]
  BY <1>4, <1>7
<1>9. /\ \A k \in Stations : \A i \in 1..Len(neighbors'[k]) : <<neighbors'[k][i], k>> \in L
      /\ \A k \in Stations : \A i, j \in 1..Len(neighbors'[k]) : neighbors'[k][i] = neighbors'[k][j] => i = j
  BY <1>5, <1>6, <1>8 DEF DiscoveryInv
<1>10. report' \in [Stations -> {"none", "due", "sent"}]
  BY <1>1 DEF DiscoveryInv
<1>11. /\ list' \in [Stations -> Seq(Good(L))] /\ \A k \in Stations : GoodList(L, Z, list'[k])
       /\ hop' \in [Nodes -> Stations \union {Nowhere}] /\ metric' \in [Nodes -> 0..Far]
       /\ \A k \in Nodes : hop'[k] # Nowhere => <<k, hop'[k]>> \in L
       /\ graph' \subseteq L
  BY <1>1 DEF DiscoveryInv
<1> QED BY <1>8, <1>9, <1>10, <1>11 DEF DiscoveryInv

\* A report arrives, or is lost.
LEMMA ArrivalKeeps ==
    ASSUME NEW L, NEW Z \in Nat, NEW M, Network(L, Z), DiscoveryInv(L, Z),
           NEW n \in Stations, Net(L, Z, M)!Report(n)
    PROVE  DiscoveryInv(L, Z)'
<1>1. report' \in [Stations -> {"none", "due", "sent"}] /\ UNCHANGED <<hop, metric, neighbors>>
  BY DEF Net!Report, DiscoveryInv
<1>2. CASE UNCHANGED <<list, graph>>
  BY <1>1, <1>2 DEF DiscoveryInv
<1>3. CASE /\ Net(L, Z, M)!Reaches(n)
           /\ graph' = graph \union {<<neighbors[n][i], n>> : i \in DOMAIN neighbors[n]}
           /\ list' = [list EXCEPT ![Controller] =
                  Net(L, Z, M)!HeardAll(Controller, list[Controller], Net(L, Z, M)!News(n)).list]
  <2>1. neighbors[n] \in Seq(Stations) /\ \A i \in 1..Len(neighbors[n]) : <<neighbors[n][i], n>> \in L
    BY DEF DiscoveryInv
  <2>2. graph' \subseteq L
    <3>1. DOMAIN neighbors[n] = 1..Len(neighbors[n])
      BY <2>1
    <3> QED BY <1>3, <2>1, <3>1 DEF DiscoveryInv
  <2>3. PICK es : es = Net(L, Z, M)!News(n)
    OBVIOUS
  <2>4. es \in Seq(Good(L))
    BY <1>3, <2>1, <2>3, NewsGood
  <2>5. PICK l : l = list[Controller]
    OBVIOUS
  <2>6. PICK r : r = Net(L, Z, M)!HeardAll(Controller, l, es)
    OBVIOUS
  <2>7. Controller \in Stations
    BY DEF Stations
  <2>8. NodeGood(L, Z, Controller, r)
    <3>1. NodeGood(L, Z, Controller, Here(Controller)) /\ GoodList(L, Z, l)
      BY <2>5, <2>7, HereGood DEF DiscoveryInv
    <3> QED BY <2>4, <2>6, <2>7, <3>1, HeardAllGood
  <2>9. r.list \in Seq(Good(L)) /\ GoodList(L, Z, r.list)
    BY <2>8 DEF NodeGood
  <2>10. list' = [list EXCEPT ![Controller] = r.list]
    BY <1>3, <2>3, <2>5, <2>6
  <2>11. list' \in [Stations -> Seq(Good(L))] /\ \A k \in Stations : GoodList(L, Z, list'[k])
    BY <2>7, <2>9, <2>10 DEF DiscoveryInv
  <2> QED BY <1>1, <2>2, <2>11 DEF DiscoveryInv
<1> QED BY <1>2, <1>3 DEF Net!Report

\* A node hears a beacon of one it is in reach of.
LEMMA ReceivedGood ==
    ASSUME NEW L, NEW Z \in Nat, NEW M, Network(L, Z), DiscoveryInv(L, Z),
           NEW n \in Stations, NEW m \in Stations, <<n, m>> \in L,
           NEW es \in Seq(Good(L)), NEW r, r = Net(L, Z, M)!Received(m, n, es)
    PROVE  NodeGood(L, Z, m, r)
<1>1. PICK l : l = IF m = Controller THEN Net(L, Z, M)!UpdatedDirect(list[m], n) ELSE list[m]
  OBVIOUS
<1>2. GoodList(L, Z, list[m]) /\ NodeGood(L, Z, m, Here(m))
  BY HereGood DEF DiscoveryInv
<1>3. GoodList(L, Z, l)
  <2>1. CASE m = Controller
    <3>1. l = Net(L, Z, M)!UpdatedDirect(list[m], n) /\ <<n, Controller>> \in L
      BY <1>1, <2>1
    <3> QED BY <1>2, <3>1, DirectGood
  <2> QED BY <1>1, <1>2, <2>1
<1>4. r = Net(L, Z, M)!HeardAll(m, l, es)
  BY <1>1 DEF Net!Received
<1> QED BY <1>2, <1>3, <1>4, HeardAllGood

\* A beacon is heard.
LEMMA BeaconKeeps ==
    ASSUME NEW L, NEW Z \in Nat, NEW M, Network(L, Z), DiscoveryInv(L, Z),
           NEW n \in Stations, Net(L, Z, M)!Beacon(n)
    PROVE  DiscoveryInv(L, Z)'
<1>1. PICK o \in Net(L, Z, M)!Outcomes(n), hearers \in SUBSET Net(L, Z, M)!Hearers(n) :
         LET got == IF o.sent = <<>> THEN {} ELSE hearers
             now == [m \in got |-> Net(L, Z, M)!Received(m, n, o.sent)]
         IN  /\ list' = [m \in Stations |-> IF m \in got THEN now[m].list
                                            ELSE IF m = n THEN o.left ELSE list[m]]
             /\ hop' = [m \in Nodes |-> IF m \in got THEN now[m].hop ELSE hop[m]]
             /\ metric' = [m \in Nodes |-> IF m \in got THEN now[m].metric ELSE metric[m]]
             /\ report' = [m \in Stations |->
                    IF m \in Nodes /\ hop'[m] # hop[m] /\ report[m] = "due"
                    THEN "sent" ELSE report[m]]
  BY DEF Net!Beacon, Net!All, Stations
<1>2. UNCHANGED <<neighbors, graph>>
  BY DEF Net!Beacon
<1>3. PICK got : got = IF o.sent = <<>> THEN {} ELSE hearers
  OBVIOUS
<1>4. PICK now : now = [m \in got |-> Net(L, Z, M)!Received(m, n, o.sent)]
  OBVIOUS
<1>5. /\ list' = [m \in Stations |-> IF m \in got THEN now[m].list ELSE IF m = n THEN o.left ELSE list[m]]
      /\ hop' = [m \in Nodes |-> IF m \in got THEN now[m].hop ELSE hop[m]]
      /\ metric' = [m \in Nodes |-> IF m \in got THEN now[m].metric ELSE metric[m]]
      /\ report' = [m \in Stations |-> IF m \in Nodes /\ hop'[m] # hop[m] /\ report[m] = "due"
                                       THEN "sent" ELSE report[m]]
  BY <1>1, <1>3, <1>4
<1>6. o.sent \in Seq(Good(L)) /\ GoodList(L, Z, o.left)
  <2>1. GoodList(L, Z, list[n])
    BY DEF DiscoveryInv
  <2> QED BY <2>1, OutcomesGood
<1>7. \A m \in got : m \in Stations /\ <<n, m>> \in L
  BY <1>3 DEF Net!Hearers, Net!All, Stations
<1>8. ASSUME NEW m \in got PROVE NodeGood(L, Z, m, now[m])
  <2>1. PICK r : r = Net(L, Z, M)!Received(m, n, o.sent)
    OBVIOUS
  <2>2. NodeGood(L, Z, m, r)
    BY <1>6, <1>7, <2>1, ReceivedGood
  <2> QED BY <1>4, <2>1, <2>2
<1>9. \A m \in Stations : GoodList(L, Z, list'[m]) /\ list'[m] \in Seq(Good(L))
  <2> SUFFICES ASSUME NEW m \in Stations PROVE GoodList(L, Z, list'[m])
    BY DEF GoodList
  <2>1. CASE m \in got
    BY <1>5, <1>8, <2>1 DEF NodeGood
  <2>2. CASE m \notin got /\ m = n
    BY <1>5, <1>6, <2>2
  <2>3. CASE m \notin got /\ m # n
    BY <1>5, <2>3 DEF DiscoveryInv
  <2> QED BY <2>1, <2>2, <2>3
<1>10. list' \in [Stations -> Seq(Good(L))] /\ \A m \in Stations : GoodList(L, Z, list'[m])
  <2>1. PICK v : v = list'
    OBVIOUS
  <2>2. v = [m \in Stations |-> v[m]]
    BY <1>5, <2>1
  <2> QED BY <1>9, <2>1, <2>2
<1>11. \A m \in Nodes : /\ hop'[m] \in Stations \union {Nowhere} /\ metric'[m] \in 0..Far
                        /\ hop'[m] # Nowhere => <<m, hop'[m]>> \in L
  <2> SUFFICES ASSUME NEW m \in Nodes
               PROVE  /\ hop'[m] \in Stations \union {Nowhere} /\ metric'[m] \in 0..Far
                      /\ hop'[m] # Nowhere => <<m, hop'[m]>> \in L
    OBVIOUS
  <2>1. m # Controller
    BY DEF Network
  <2>2. CASE m \in got
    <3>1. hop'[m] = now[m].hop /\ metric'[m] = now[m].metric
      BY <1>5, <2>2
    <3>2. NodeGood(L, Z, m, now[m])
      BY <1>8, <2>2
    <3> QED BY <2>1, <3>1, <3>2 DEF NodeGood
  <2>3. CASE m \notin got
    <3>1. hop'[m] = hop[m] /\ metric'[m] = metric[m]
      BY <1>5, <2>3
    <3> QED BY <3>1 DEF DiscoveryInv
  <2> QED BY <2>2, <2>3
<1>12. hop' \in [Nodes -> Stations \union {Nowhere}] /\ metric' \in [Nodes -> 0..Far]
  <2>1. PICK h, k : h = hop' /\ k = metric'
    OBVIOUS
  <2>2. h = [m \in Nodes |-> h[m]] /\ k = [m \in Nodes |-> k[m]]
    BY <1>5, <2>1
  <2> QED BY <1>11, <2>1, <2>2
<1>13. report' \in [Stations -> {"none", "due", "sent"}]
  BY <1>5 DEF DiscoveryInv
<1> QED BY <1>2, <1>10, <1>11, <1>12, <1>13 DEF DiscoveryInv

\* Every step of the discovery keeps what is told to links.
LEMMA DiscoveryKeeps ==
    ASSUME NEW L, NEW Z \in Nat, NEW M, Network(L, Z), DiscoveryInv(L, Z), Net(L, Z, M)!Next
    PROVE  DiscoveryInv(L, Z)'
<1>1. \/ \E n, m \in Stations : Net(L, Z, M)!HearNeighbor(n, m)
      \/ \E n \in Stations : Net(L, Z, M)!Beacon(n) \/ Net(L, Z, M)!Report(n)
  BY DEF Net!Next, Net!All, Stations
<1>2. CASE \E n, m \in Stations : Net(L, Z, M)!HearNeighbor(n, m)
  BY <1>2, HearNeighborKeeps
<1>3. CASE \E n \in Stations : Net(L, Z, M)!Beacon(n)
  BY <1>3, BeaconKeeps
<1>4. CASE \E n \in Stations : Net(L, Z, M)!Report(n)
  BY <1>4, ArrivalKeeps
<1> QED BY <1>1, <1>2, <1>3, <1>4

\* Then the types are right and the hop of a node hears it.
LEMMA DiscoveryTells ==
    ASSUME NEW L, NEW Z \in Nat, NEW M, Network(L, Z), DiscoveryInv(L, Z)
    PROVE  Net(L, Z, M)!TypeOK /\ Net(L, Z, M)!HopHears
<1>1. Net(L, Z, M)!All = Stations /\ Net(L, Z, M)!Cardinality(Stations) = Cardinality(Stations)
  BY SameCardinality DEF Net!All, Stations
<1>2. ASSUME NEW n \in Stations
      PROVE  /\ Len(list[n]) <= Z
             /\ \A i, j \in DOMAIN list[n] : list[n][i].who = list[n][j].who => i = j
             /\ \A i \in DOMAIN list[n] : list[n][i] \in Entry
  <2>1. PICK l : l = list[n]
    OBVIOUS
  <2>2. GoodList(L, Z, l)
    BY <2>1 DEF DiscoveryInv
  <2>3. l \in Seq(Good(L)) /\ Len(l) <= Z /\ \A i, j \in 1..Len(l) : l[i].who = l[j].who => i = j
    BY <2>2 DEF GoodList
  <2>4. DOMAIN l = 1..Len(l) /\ \A i \in 1..Len(l) : l[i] \in Good(L)
    BY <2>3
  <2>5. \A i \in 1..Len(l) : l[i] \in Entry
    BY <2>4 DEF Good
  <2> QED BY <2>1, <2>3, <2>4, <2>5
<1>3. ASSUME NEW n \in Stations
      PROVE  /\ \A i \in DOMAIN neighbors[n] : neighbors[n][i] \in Stations
             /\ \A i, j \in DOMAIN neighbors[n] : neighbors[n][i] = neighbors[n][j] => i = j
  <2>1. PICK l : l = neighbors[n]
    OBVIOUS
  <2>2. l \in Seq(Stations) /\ \A i, j \in 1..Len(l) : l[i] = l[j] => i = j
    BY <2>1 DEF DiscoveryInv
  <2>3. DOMAIN l = 1..Len(l) /\ \A i \in 1..Len(l) : l[i] \in Stations
    BY <2>2
  <2> QED BY <2>1, <2>2, <2>3
<1>4. Entry = [who : Stations, hop : Stations, metric : 0..Cardinality(Stations), life : 0..Lifetime]
  BY DEF Entry
<1>5. /\ hop \in [Nodes -> Stations \union {Nowhere}] /\ metric \in [Nodes -> 0..Far]
      /\ report \in [Stations -> {"none", "due", "sent"}] /\ graph \subseteq L
      /\ \A n \in Nodes : hop[n] # Nowhere => <<n, hop[n]>> \in L
  BY DEF DiscoveryInv
<1>6. Net(L, Z, M)!TypeOK
  BY <1>1, <1>2, <1>3, <1>4, <1>5 DEF Net!TypeOK
<1>7. Net(L, Z, M)!HopHears
  BY <1>5 DEF Net!HopHears
<1> QED BY <1>6, <1>7

-----------------------------------------------------------------------------
(* The discovery: every network *)

\* What the assumption of NaiveDiscovery says, in the operators of this module
LEMMA AnyNetwork ==
    ASSUME NEW L, NEW Z, NEW M, Net(L, Z, M)!NaiveDiscoveryAssumption
    PROVE  Network(L, Z) /\ Z \in Nat
<1>1. IsFiniteSet(Nodes)
  BY DEF Net!NaiveDiscoveryAssumption, Net!IsFiniteSet, IsFiniteSet
<1> QED BY <1>1 DEF Net!NaiveDiscoveryAssumption, Network, Stations

\* In every network, with any number of blocks, with or without loss: the hop a
\* node takes to the controller hears it, and its list has each node once, over a
\* link there is.  (ndcd_input takes the hop of whichever entry names the node.)
THEOREM HopsAlwaysHear ==
    ASSUME NEW CONSTANT L, NEW CONSTANT Z, NEW CONSTANT M, Net(L, Z, M)!NaiveDiscoveryAssumption
    PROVE  Net(L, Z, M)!Spec => [](Net(L, Z, M)!TypeOK /\ Net(L, Z, M)!HopHears)
<1>1. Network(L, Z) /\ Z \in Nat
  BY AnyNetwork
<1>2. Net(L, Z, M)!Init => DiscoveryInv(L, Z)
  BY <1>1, DiscoveryStarts
<1>3. DiscoveryInv(L, Z) /\ [Net(L, Z, M)!Next]_(Net(L, Z, M)!vars) => DiscoveryInv(L, Z)'
  <2> SUFFICES ASSUME DiscoveryInv(L, Z), [Net(L, Z, M)!Next]_(Net(L, Z, M)!vars)
               PROVE  DiscoveryInv(L, Z)'
    OBVIOUS
  <2>1. CASE Net(L, Z, M)!Next
    BY <1>1, <2>1, DiscoveryKeeps
  <2>2. CASE UNCHANGED Net(L, Z, M)!vars
    BY <2>2 DEF DiscoveryInv, Net!vars
  <2> QED BY <2>1, <2>2
<1>4. DiscoveryInv(L, Z) => Net(L, Z, M)!TypeOK /\ Net(L, Z, M)!HopHears
  BY <1>1, DiscoveryTells
<1> QED BY <1>2, <1>3, <1>4, PTL DEF Net!Spec

-----------------------------------------------------------------------------
(* The discovery: the two networks of the run *)

\* The invariant of the one that moves
DiscoveryIInv ==
    /\ part = "ring" => DiscoveryInv(RingLinks, 3)
    /\ part = "lossy" => DiscoveryInv(LossyLinks, 2)

\* Both are networks.
LEMMA Networks == Network(RingLinks, 3) /\ Network(LossyLinks, 2)
  BY NetAssumption, AnyNetwork

\* It holds at first
LEMMA HopsStart == AllInit => DiscoveryIInv
<1> SUFFICES ASSUME AllInit PROVE DiscoveryIInv
  OBVIOUS
<1>1. Net(RingLinks, 3, FALSE)!Init
  BY DEF AllInit
<1>2. Net(LossyLinks, 2, TRUE)!Init
  BY <1>1 DEF Net!Init, Net!All
<1> QED BY <1>1, <1>2, Networks, DiscoveryStarts DEF DiscoveryIInv

\* and after every step, of this part or another.
LEMMA HopsKeep == DiscoveryIInv /\ [AllNext]_all => DiscoveryIInv'
<1> SUFFICES ASSUME DiscoveryIInv, [AllNext]_all PROVE DiscoveryIInv'
  OBVIOUS
<1>1. CASE UNCHANGED <<part, discovery>>
  BY <1>1 DEF DiscoveryIInv, discovery, DiscoveryInv
<1>2. CASE part = "ring" /\ part' = part /\ Net(RingLinks, 3, FALSE)!Next
  BY <1>2, Networks, DiscoveryKeeps DEF DiscoveryIInv
<1>3. CASE part = "lossy" /\ part' = part /\ Net(LossyLinks, 2, TRUE)!Next
  BY <1>3, Networks, DiscoveryKeeps DEF DiscoveryIInv
<1> QED BY <1>1, <1>2, <1>3 DEF AllNext, CommutatorMoves, TableMoves, DiscoveryMoves, all

\* Over one-way links, with beacons and reports lost, reordered and late, the
\* hop that a node takes to the controller hears it (ndcd_input, as above).
THEOREM HopsStayHeard == AllSpec => []HopsHear
<1>1. DiscoveryIInv => HopsHear
  BY Networks, DiscoveryTells DEF DiscoveryIInv, HopsHear
<1> QED BY <1>1, HopsStart, HopsKeep, PTL DEF AllSpec

-----------------------------------------------------------------------------
(* The neighbor table: one neighbor *)

\* Entries of these neighbors and with these metrics
Row(N, V) == [addr : N, metric : V, status : {"STATIC", "CHANGED", "EDIT"}]

Rows(l) == {l[i] : i \in DOMAIN l}

\* A list with one entry for each neighbor it has
Distinct(l) == \A i, j \in DOMAIN l : l[i].addr = l[j].addr => i = j

\* A table with such entries and a block for each
Sound(N, V, t) ==
    /\ t \in [list : Seq(Row(N, V)), taken : Nat] /\ Distinct(t.list)
    /\ t.taken = Len(t.list) /\ t.taken <= TableSize

\* What has changed by at most Delta, or the factor
Close(held, m) ==
    \/ m <= held + Delta /\ held <= m + Delta
    \/ m <= held * Factor /\ held <= m * Factor

\* What the insertion of a neighbor makes of the entries: the neighbor's is
\* renewed, a new one is added, or there is no room.
InsertedRows(l, u, e, n, m) ==
    \/ /\ e \in Rows(l) /\ e.addr = n
       /\ Rows(u) = (Rows(l) \ {e}) \union {Table({}, {}, TRUE, 0)!Renewed(e, m)}
       /\ Len(u) = Len(l)
    \/ /\ \A r \in Rows(l) : r.addr # n
       /\ Rows(u) = Rows(l) \union {[addr |-> n, metric |-> m, status |-> "CHANGED"]}
       /\ Len(u) = Len(l) + 1
    \/ (\A r \in Rows(l) : r.addr # n) /\ Len(l) = TableSize /\ u = l

\* The entries of l without the one at a place
LessAt(S, l, p, w) ==
    /\ w \in Seq(S) /\ Len(w) = Len(l) - 1
    /\ \A k \in 1..Len(w) : w[k] = IF k < p THEN l[k] ELSE l[k + 1]

\* Taking it out leaves those.
LEMMA WithoutIs ==
    ASSUME NEW S, NEW l \in Seq(S), NEW p \in 1..Len(l)
    PROVE  \A w : w = SubSeq(l, 1, p - 1) \o SubSeq(l, p + 1, Len(l)) => LessAt(S, l, p, w)
<1>1. Len(l) \in Nat /\ p \in Nat /\ 1 <= p /\ p <= Len(l)
  OBVIOUS
<1>2. PICK x : x = SubSeq(l, 1, p - 1)
  OBVIOUS
<1>3. PICK y : y = SubSeq(l, p + 1, Len(l))
  OBVIOUS
<1>4. x \in Seq(S) /\ Len(x) = p - 1 /\ \A k \in 1..(p - 1) : x[k] = l[k]
  BY <1>1, <1>2
<1>5. y \in Seq(S) /\ Len(y) = Len(l) - p /\ \A k \in 1..(Len(l) - p) : y[k] = l[k + p]
  BY <1>1, <1>3, RestOf
<1>6. PICK v : v = x \o y
  OBVIOUS
<1>7. /\ v \in Seq(S) /\ Len(v) = Len(x) + Len(y)
      /\ \A k \in 1..Len(x) : v[k] = x[k]
      /\ \A k \in 1..Len(y) : v[Len(x) + k] = y[k]
  <2>1. x \in Seq(S) /\ y \in Seq(S)
    BY <1>4, <1>5
  <2>2. v \in Seq(S) /\ Len(v) = Len(x) + Len(y)
    BY <1>6, <2>1
  <2>3. \A k \in 1..Len(x) : v[k] = x[k]
    BY <1>6, <2>1
  <2>4. \A k \in 1..Len(y) : v[Len(x) + k] = y[k]
    BY <1>6, <2>1
  <2> QED BY <2>2, <2>3, <2>4
<1>8. Len(x) = p - 1 /\ Len(y) = Len(l) - p /\ Len(v) = Len(l) - 1
  BY <1>1, <1>4, <1>5, <1>7
<1>9. ASSUME NEW k \in 1..Len(v) PROVE v[k] = IF k < p THEN l[k] ELSE l[k + 1]
  <2>1. k \in Nat /\ 1 <= k /\ k <= Len(l) - 1
    BY <1>1, <1>8
  <2>2. CASE k < p
    <3>1. k \in 1..(p - 1) /\ k \in 1..Len(x)
      BY <1>1, <1>8, <2>1, <2>2
    <3> QED BY <1>4, <1>7, <2>2, <3>1
  <2>3. CASE ~(k < p)
    <3>1. PICK j : j = k - (p - 1)
      OBVIOUS
    <3>2. j \in 1..(Len(l) - p) /\ j + p = k + 1 /\ (p - 1) + j = k
      BY <1>1, <2>1, <2>3, <3>1
    <3>3. v[k] = y[j] /\ y[j] = l[k + 1]
      BY <1>5, <1>7, <1>8, <3>2
    <3> QED BY <2>3, <3>3
  <2> QED BY <2>2, <2>3
<1>10. v = SubSeq(l, 1, p - 1) \o SubSeq(l, p + 1, Len(l))
  BY <1>2, <1>3, <1>6
<1>11. LessAt(S, l, p, v)
  BY <1>7, <1>8, <1>9 DEF LessAt
<1> QED BY <1>10, <1>11

\* A list that has each neighbor once still does without one of its entries.
LEMMA LessOne ==
    ASSUME NEW S, NEW l \in Seq(S), Distinct(l), NEW p \in 1..Len(l),
           NEW w \in Seq(S), Len(w) = Len(l) - 1,
           \A k \in 1..Len(w) : w[k] = IF k < p THEN l[k] ELSE l[k + 1]
    PROVE  Distinct(w)
<1>1. DOMAIN w = 1..Len(w) /\ Len(w) \in Nat /\ p \in Nat /\ Len(l) \in Nat /\ DOMAIN l = 1..Len(l)
  OBVIOUS
<1>2. ASSUME NEW j \in 1..Len(w), NEW k \in 1..Len(w), w[j].addr = w[k].addr PROVE j = k
  <2>1. PICK a, b : a = (IF j < p THEN j ELSE j + 1) /\ b = (IF k < p THEN k ELSE k + 1)
    OBVIOUS
  <2>2. a \in 1..Len(l) /\ b \in 1..Len(l)
    BY <1>1, <2>1
  <2>3. w[j] = l[a] /\ w[k] = l[b]
    BY <2>1
  <2>4. a = b
    BY <1>1, <1>2, <2>2, <2>3 DEF Distinct
  <2> QED BY <1>1, <2>1, <2>4
<1> QED BY <1>1, <1>2 DEF Distinct

\* Taking one out of such a list leaves one.
LEMMA WithoutOne ==
    ASSUME NEW S, NEW l \in Seq(S), Distinct(l), NEW p \in 1..Len(l),
           NEW w, w = SubSeq(l, 1, p - 1) \o SubSeq(l, p + 1, Len(l))
    PROVE  w \in Seq(S) /\ Distinct(w)
<1>1. PICK v : v = w /\ LessAt(S, l, p, v)
  BY WithoutIs
<1>2. Distinct(v)
  BY <1>1, LessOne DEF LessAt
<1> QED BY <1>1, <1>2 DEF LessAt

\* One more entry, for a neighbor the list does not have
LEMMA AppendRow ==
    ASSUME NEW S, NEW l \in Seq(S), Distinct(l), NEW e \in S,
           \A i \in 1..Len(l) : l[i].addr # e.addr,
           NEW u \in Seq(S), Len(u) = Len(l) + 1,
           \A k \in 1..Len(u) : u[k] = IF k = Len(l) + 1 THEN e ELSE l[k]
    PROVE  Distinct(u) /\ Rows(u) = Rows(l) \union {e}
<1>1. Len(l) \in Nat /\ DOMAIN l = 1..Len(l)
  OBVIOUS
<1>3. DOMAIN u = 1..(Len(l) + 1)
  OBVIOUS
<1>4. 1..(Len(l) + 1) = (1..Len(l)) \union {Len(l) + 1} /\ Len(l) + 1 \notin 1..Len(l)
  BY <1>1
<1>5. Distinct(u)
  BY <1>1, <1>3, <1>4 DEF Distinct
<1>6. Rows(u) = Rows(l) \union {e}
  BY <1>1, <1>3, <1>4 DEF Rows
<1> QED BY <1>3, <1>5, <1>6

\* The insertion of a neighbor
LEMMA InsertIs ==
    ASSUME TableSize \in Nat, NEW N, NEW V, NEW t, Sound(N, V, t), NEW n \in N, NEW m \in V,
           NEW A, NEW B, NEW C, NEW X, NEW u, u = Table(A, B, C, X)!Insert(t, n, m)
    PROVE  Sound(N, V, u) /\ \E e : InsertedRows(t.list, u.list, e, n, m)
<1> DEFINE S == Row(N, V)
<1>1. PICK l : l = t.list
  OBVIOUS
<1>2. /\ l \in Seq(S) /\ Distinct(l) /\ t.taken = Len(l) /\ Len(l) \in Nat /\ Len(l) <= TableSize
      /\ DOMAIN l = 1..Len(l) /\ \A i \in 1..Len(l) : l[i] \in S
      /\ t = [list |-> l, taken |-> t.taken]
  BY <1>1 DEF Sound
<1>3. n \in Table(A, B, C, X)!Addresses(l) <=> \E i \in 1..Len(l) : l[i].addr = n
  BY <1>2 DEF Table!Addresses
<1>4. CASE \E i \in 1..Len(l) : l[i].addr = n
  <2>1. PICK p : p = Table(A, B, C, X)!PlaceOf(l, n)
    OBVIOUS
  <2>2. p \in 1..Len(l) /\ l[p].addr = n
    BY <1>2, <1>4, <2>1 DEF Table!PlaceOf
  <2>3. PICK w : w = SubSeq(l, 1, p - 1) \o SubSeq(l, p + 1, Len(l))
    OBVIOUS
  <2>4. /\ w \in Seq(S) /\ Len(w) = Len(l) - 1
        /\ \A k \in 1..Len(w) : w[k] = IF k < p THEN l[k] ELSE l[k + 1]
    <3> HIDE DEF S
    <3>1. LessAt(S, l, p, w)
      BY <1>2, <2>2, <2>3, WithoutIs
    <3> QED BY <3>1 DEF LessAt
  <2>5. PICK r : r = Table({}, {}, TRUE, 0)!Renewed(l[p], m)
    OBVIOUS
  <2>6. r \in S /\ r.addr = n
    BY <1>2, <2>2, <2>5 DEF Table!Renewed, Row
  <2>7. r = Table(A, B, C, X)!Renewed(l[p], m)
    BY <2>5 DEF Table!Renewed, Table!Considerable
  <2>8. u = [t EXCEPT !.list = Append(w, r)]
    <3>1. Table(A, B, C, X)!EntryOf(l, n) = l[p]
      BY <2>1 DEF Table!EntryOf
    <3>2. Table(A, B, C, X)!Without(l, p) = w
      BY <2>3 DEF Table!Without
    <3>3. n \in Table(A, B, C, X)!Addresses(l)
      BY <1>3, <1>4
    <3> HIDE DEF S
    <3> QED BY <1>1, <2>1, <2>7, <3>1, <3>2, <3>3 DEF Table!Insert
  <2>9. ASSUME NEW k \in 1..Len(w) PROVE \E i \in 1..Len(l) : i # p /\ w[k] = l[i] /\ i = IF k < p THEN k ELSE k + 1
    BY <1>2, <2>2, <2>4
  <2>10. \A k \in 1..Len(w) : w[k].addr # r.addr
    BY <1>2, <2>2, <2>6, <2>9 DEF Distinct
  <2>11. Distinct(w)
    <3> HIDE DEF S
    <3> QED BY <1>2, <2>2, <2>4, LessOne
  <2>12. Rows(w) = Rows(l) \ {l[p]}
    <3>1. DOMAIN w = 1..Len(w) /\ Len(w) \in Nat
      BY <2>4
    <3>2. ASSUME NEW i \in 1..Len(l), i # p PROVE \E k \in 1..Len(w) : w[k] = l[i]
      <4>1. CASE i < p
        <5>1. i \in 1..Len(w)
          BY <1>2, <2>2, <2>4, <4>1
        <5> QED BY <2>4, <4>1, <5>1
      <4>2. CASE ~(i < p)
        <5>1. i - 1 \in 1..Len(w) /\ ~(i - 1 < p) /\ (i - 1) + 1 = i
          BY <1>2, <2>2, <2>4, <3>2, <4>2
        <5> QED BY <2>4, <5>1
      <4> QED BY <4>1, <4>2
    <3>3. ASSUME NEW x \in Rows(w) PROVE x \in Rows(l) \ {l[p]}
      <4>1. PICK k \in 1..Len(w) : x = w[k]
        BY <3>1 DEF Rows
      <4>2. PICK i \in 1..Len(l) : i # p /\ w[k] = l[i]
        BY <2>9
      <4>3. l[i] # l[p]
        BY <1>2, <2>2, <4>2 DEF Distinct
      <4> QED BY <1>2, <4>1, <4>2, <4>3 DEF Rows
    <3>4. ASSUME NEW x \in Rows(l) \ {l[p]} PROVE x \in Rows(w)
      <4>1. PICK i \in 1..Len(l) : x = l[i]
        BY <1>2 DEF Rows
      <4>2. i # p
        BY <4>1
      <4> QED BY <3>1, <3>2, <4>1, <4>2 DEF Rows
    <3> QED BY <3>3, <3>4
  <2>13. PICK v : v = Append(w, r)
    OBVIOUS
  <2>14. v \in Seq(S) /\ Distinct(v) /\ Len(v) = Len(w) + 1 /\ Rows(v) = Rows(w) \union {r}
    <3> HIDE DEF S
    <3>1. /\ v \in Seq(S) /\ Len(v) = Len(w) + 1
          /\ \A k \in 1..Len(v) : v[k] = IF k = Len(w) + 1 THEN r ELSE w[k]
      BY <2>4, <2>6, <2>13
    <3> QED BY <2>4, <2>6, <2>10, <2>11, <3>1, AppendRow
  <2>15. u = [list |-> v, taken |-> t.taken]
    <3> HIDE DEF S
    <3> QED BY <1>2, <2>8, <2>13
  <2>16. Sound(N, V, u)
    BY <1>2, <2>4, <2>14, <2>15 DEF Sound
  <2>17. InsertedRows(l, v, l[p], n, m)
    <3>1. l[p] \in Rows(l) /\ Len(v) = Len(l)
      BY <1>2, <2>2, <2>4, <2>14 DEF Rows
    <3> QED BY <2>2, <2>5, <2>12, <2>14, <3>1 DEF InsertedRows
  <2> QED BY <1>1, <2>15, <2>16, <2>17
<1>5. CASE ~\E i \in 1..Len(l) : l[i].addr = n
  <2>1. \A r \in Rows(l) : r.addr # n
    BY <1>2, <1>5 DEF Rows
  <2>2. CASE t.taken < TableSize
    <3>1. PICK e : e = [addr |-> n, metric |-> m, status |-> "CHANGED"]
      OBVIOUS
    <3>2. e \in S /\ e.addr = n
      BY <3>1 DEF Row
    <3>3. PICK v : v = Append(l, e)
      OBVIOUS
    <3>4. v \in Seq(S) /\ Distinct(v) /\ Len(v) = Len(l) + 1 /\ Rows(v) = Rows(l) \union {e}
      <4> HIDE DEF S
      <4>1. /\ v \in Seq(S) /\ Len(v) = Len(l) + 1
            /\ \A k \in 1..Len(v) : v[k] = IF k = Len(l) + 1 THEN e ELSE l[k]
        BY <1>2, <3>2, <3>3
      <4> QED BY <1>2, <1>5, <3>2, <4>1, AppendRow
    <3>5. u = [list |-> v, taken |-> t.taken + 1]
      BY <1>1, <1>3, <1>5, <2>2, <3>1, <3>3 DEF Table!Insert
    <3>6. Sound(N, V, u)
      BY <1>2, <2>2, <3>4, <3>5 DEF Sound
    <3>7. InsertedRows(l, v, e, n, m)
      BY <2>1, <3>1, <3>4 DEF InsertedRows
    <3> QED BY <1>1, <3>5, <3>6, <3>7
  <2>3. CASE ~(t.taken < TableSize)
    <3>1. u = t
      BY <1>1, <1>3, <1>5, <2>3 DEF Table!Insert
    <3>2. Len(l) = TableSize
      BY <1>2, <2>3
    <3>3. InsertedRows(l, u.list, {}, n, m)
      BY <1>1, <2>1, <3>1, <3>2 DEF InsertedRows
    <3> QED BY <1>1, <3>1, <3>3
  <2> QED BY <2>2, <2>3
<1> QED BY <1>4, <1>5

-----------------------------------------------------------------------------
(* The neighbor table: a pass *)

\* Metrics that are not considerably different are close.
LEMMA NotConsiderable ==
    ASSUME UintMod \in Nat \ {0}, Delta \in Nat, Factor \in Nat \ {0},
           NEW held \in 0..(UintMod - 1), NEW m \in 0..(UintMod - 1),
           ~Table({}, {}, TRUE, 0)!Considerable(held, m)
    PROVE  Close(held, m)
<1>1. CASE ~(m > held * Factor \/ m * Factor < held)
  <2>1. held * Factor \in Nat /\ m * Factor \in Nat
    OBVIOUS
  <2>2. m <= held * Factor /\ held <= m * Factor
    BY <1>1, <2>1
  <2> QED BY <2>2 DEF Close
<1>2. CASE ~(m < (held - Delta) % UintMod \/ m > (held + Delta) % UintMod)
  <2>1. (held + Delta) % UintMod <= held + Delta /\ (held + Delta) % UintMod \in Nat
    <3>1. \A x \in Nat : x % UintMod <= x /\ x % UintMod \in Nat
      OBVIOUS
    <3>2. held + Delta \in Nat
      OBVIOUS
    <3> QED BY <3>1, <3>2
  <2>2. m <= held + Delta
    BY <1>2, <2>1
  <2>3. CASE held < Delta
    BY <2>2, <2>3 DEF Close
  <2>4. CASE Delta <= held
    <3>1. held - Delta \in 0..(UintMod - 1)
      BY <2>4
    <3>2. \A x \in 0..(UintMod - 1) : x % UintMod = x
      OBVIOUS
    <3>3. (held - Delta) % UintMod = held - Delta
      BY <3>1, <3>2
    <3>4. held - Delta <= m
      BY <1>2, <3>3
    <3> QED BY <2>2, <3>4 DEF Close
  <2> QED BY <2>3, <2>4
<1> QED BY <1>1, <1>2 DEF Table!Considerable

\* r is e after it was renewed.
RenewedWell(e, m, r) ==
    /\ r.addr = e.addr /\ Close(r.metric, m) /\ r.status # "EDIT"
    /\ r.status # "CHANGED" => r.metric = e.metric

\* The entry that is renewed is as close, and shows whether it has changed.
LEMMA RenewedIs ==
    ASSUME UintMod \in Nat \ {0}, Delta \in Nat, Factor \in Nat \ {0},
           NEW N, NEW V \in SUBSET (0..(UintMod - 1)), NEW e \in Row(N, V), NEW m \in V,
           NEW r, r = Table({}, {}, TRUE, 0)!Renewed(e, m)
    PROVE  RenewedWell(e, m, r)
<1>1. e.metric \in 0..(UintMod - 1) /\ m \in 0..(UintMod - 1)
  BY DEF Row
<1>2. CASE Table({}, {}, TRUE, 0)!Considerable(e.metric, m)
  <2>1. r = [e EXCEPT !.metric = m, !.status = "CHANGED"]
    BY <1>2 DEF Table!Renewed
  <2>2. r.addr = e.addr /\ r.metric = m /\ r.status = "CHANGED"
    BY <2>1 DEF Row
  <2>3. Close(m, m)
    BY <1>1 DEF Close
  <2> QED BY <2>2, <2>3 DEF RenewedWell
<1>3. CASE ~Table({}, {}, TRUE, 0)!Considerable(e.metric, m)
  <2>1. r = [e EXCEPT !.status = "STATIC"]
    BY <1>3 DEF Table!Renewed
  <2>2. r.addr = e.addr /\ r.metric = e.metric /\ r.status = "STATIC"
    BY <2>1 DEF Row
  <2>3. Close(e.metric, m)
    BY <1>1, <1>3, NotConsiderable
  <2> QED BY <2>2, <2>3 DEF RenewedWell
<1> QED BY <1>2, <1>3

\* What a pass has made of the table l after the first i neighbors of cs
Passing(N, V, l, cs, i, s) ==
    /\ Sound(N, V, s)
    /\ \A e \in Rows(s.list) : e.status = "EDIT" <=> ~\E j \in 1..i : cs[j].addr = e.addr
    /\ \A e \in Rows(s.list) :
          e.status # "CHANGED" => \E r \in Rows(l) : r.addr = e.addr /\ r.metric = e.metric
    /\ \A r \in Rows(l) : \/ \E e \in Rows(s.list) : r.addr = e.addr /\ r.metric = e.metric
                          \/ \E e \in Rows(s.list) : e.status = "CHANGED"
    /\ \A e \in Rows(s.list), j \in 1..i : cs[j].addr = e.addr => Close(e.metric, cs[j].metric)
    /\ \A j \in 1..i : (\E e \in Rows(s.list) : cs[j].addr = e.addr) \/ Len(s.list) = TableSize
    /\ \A e \in Rows(s.list) : (\E r \in Rows(l) : r.addr = e.addr) \/ \E j \in 1..i : cs[j].addr = e.addr
    /\ \A r \in Rows(l) : \E e \in Rows(s.list) : r.addr = e.addr

\* One neighbor more
LEMMA PassingStep ==
    ASSUME TableSize \in Nat, UintMod \in Nat \ {0}, Delta \in Nat, Factor \in Nat \ {0},
           NEW N, NEW V \in SUBSET (0..(UintMod - 1)), NEW l,
           NEW cs \in Seq([addr : N, metric : V]), Distinct(cs), NEW i \in 1..Len(cs),
           NEW s, Passing(N, V, l, cs, i - 1, s),
           NEW A, NEW B, NEW C, NEW X, NEW u, u = Table(A, B, C, X)!Insert(s, cs[i].addr, cs[i].metric)
    PROVE  Passing(N, V, l, cs, i, u)
<1>1. PICK n, m : n = cs[i].addr /\ m = cs[i].metric
  OBVIOUS
<1>2. n \in N /\ m \in V /\ m \in 0..(UintMod - 1)
  <2>1. cs[i] \in [addr : N, metric : V]
    <3> DEFINE S == [addr : N, metric : V]
    <3>1. cs \in Seq(S) /\ i \in 1..Len(cs)
      OBVIOUS
    <3> HIDE DEF S
    <3>2. cs[i] \in S
      BY <3>1
    <3> QED BY <3>2 DEF S
  <2>2. n \in N /\ m \in V
    BY <1>1, <2>1
  <2> QED BY <2>2
<1>3. Sound(N, V, s) /\ Sound(N, V, u) /\ \E e : InsertedRows(s.list, u.list, e, n, m)
  <2>1. Sound(N, V, s)
    BY DEF Passing
  <2> QED BY <1>1, <1>2, <2>1, InsertIs
<1>4. PICK e : InsertedRows(s.list, u.list, e, n, m)
  BY <1>3
<1>5. /\ 1..i = (1..(i - 1)) \union {i} /\ i \in 1..i
      /\ \A j \in 1..(i - 1) : cs[j].addr # n
  <2>1. i \in Nat /\ Len(cs) \in Nat /\ DOMAIN cs = 1..Len(cs)
    OBVIOUS
  <2>2. ASSUME NEW j \in 1..(i - 1) PROVE cs[j].addr # n
    <3>1. j \in DOMAIN cs /\ i \in DOMAIN cs /\ j # i
      BY <2>1
    <3> QED BY <1>1, <3>1 DEF Distinct
  <2> QED BY <2>1, <2>2
<1>6. PICK ss, us : ss = Rows(s.list) /\ us = Rows(u.list)
  OBVIOUS
<1>7. /\ ss \in SUBSET Row(N, V) /\ us \in SUBSET Row(N, V)
      /\ \A x, y \in us : x.addr = y.addr => x = y
      /\ Len(u.list) <= TableSize /\ {Len(u.list), Len(s.list)} \subseteq Nat
  <2>1. /\ s.list \in Seq(Row(N, V)) /\ u.list \in Seq(Row(N, V)) /\ Distinct(u.list)
        /\ Len(u.list) <= TableSize
    BY <1>3 DEF Sound
  <2>2. {Len(u.list), Len(s.list)} \subseteq Nat
    BY <2>1
  <2>3. \A r \in Seq(Row(N, V)) : Rows(r) \in SUBSET Row(N, V)
    BY DEF Rows
  <2>4. \A x, y \in us : x.addr = y.addr => x = y
    <3>1. us = {u.list[j] : j \in DOMAIN u.list}
      BY <1>6 DEF Rows
    <3> QED BY <2>1, <3>1 DEF Distinct
  <2> QED BY <1>6, <2>1, <2>2, <2>3, <2>4
<1>8. /\ \A x \in ss : x.status = "EDIT" <=> ~\E j \in 1..(i - 1) : cs[j].addr = x.addr
      /\ \A x \in ss : x.status # "CHANGED" => \E r \in Rows(l) : r.addr = x.addr /\ r.metric = x.metric
      /\ \A r \in Rows(l) : \/ \E x \in ss : r.addr = x.addr /\ r.metric = x.metric
                            \/ \E x \in ss : x.status = "CHANGED"
      /\ \A x \in ss, j \in 1..(i - 1) : cs[j].addr = x.addr => Close(x.metric, cs[j].metric)
      /\ \A j \in 1..(i - 1) : (\E x \in ss : cs[j].addr = x.addr) \/ Len(s.list) = TableSize
      /\ \A x \in ss : (\E r \in Rows(l) : r.addr = x.addr) \/ \E j \in 1..(i - 1) : cs[j].addr = x.addr
      /\ \A r \in Rows(l) : \E x \in ss : r.addr = x.addr
  BY <1>6 DEF Passing
<1>9. CASE /\ e \in ss /\ e.addr = n
           /\ us = (ss \ {e}) \union {Table({}, {}, TRUE, 0)!Renewed(e, m)}
           /\ Len(u.list) = Len(s.list)
  <2>1. PICK r : r = Table({}, {}, TRUE, 0)!Renewed(e, m)
    OBVIOUS
  <2>2. e \in Row(N, V)
    BY <1>7, <1>9
  <2>3. /\ r.addr = n /\ Close(r.metric, m) /\ r.status # "EDIT"
        /\ r.status # "CHANGED" => r.metric = e.metric
    <3>1. RenewedWell(e, m, r)
      BY <1>2, <2>1, <2>2, RenewedIs
    <3> QED BY <1>9, <3>1 DEF RenewedWell
  <2>4. us = (ss \ {e}) \union {r} /\ r \in us
    BY <1>9, <2>1
  <2>5. e.status = "EDIT"
    BY <1>5, <1>8, <1>9
  <2>6. \A x \in us : x # r => x \in ss /\ x # e /\ x.addr # n
    BY <1>7, <2>3, <2>4
  <2>14. ASSUME NEW x \in ss PROVE \E y \in us : y.addr = x.addr
    <3>1. CASE x = e
      BY <1>9, <2>3, <2>4, <3>1
    <3>2. CASE x # e
      BY <2>4, <3>2
    <3> QED BY <3>1, <3>2
  <2>7. \A x \in us : x.status = "EDIT" <=> ~\E j \in 1..i : cs[j].addr = x.addr
    BY <1>1, <1>5, <1>8, <2>3, <2>6
  <2>8. \A x \in us : x.status # "CHANGED" => \E y \in Rows(l) : y.addr = x.addr /\ y.metric = x.metric
    <3> SUFFICES ASSUME NEW x \in us, x.status # "CHANGED"
                 PROVE  \E y \in Rows(l) : y.addr = x.addr /\ y.metric = x.metric
      OBVIOUS
    <3>1. CASE x = r
      <4>1. PICK y \in Rows(l) : y.addr = e.addr /\ y.metric = e.metric
        BY <1>8, <1>9, <2>5
      <4>2. x.addr = e.addr /\ x.metric = e.metric
        BY <1>9, <2>3, <3>1
      <4> QED BY <4>1, <4>2
    <3>2. CASE x # r
      BY <1>8, <2>6, <3>2
    <3> QED BY <3>1, <3>2
  <2>9. \A y \in Rows(l) : \/ \E x \in us : y.addr = x.addr /\ y.metric = x.metric
                           \/ \E x \in us : x.status = "CHANGED"
    <3>1. CASE r.status = "CHANGED"
      BY <2>4, <3>1
    <3>2. CASE r.status # "CHANGED"
      <4>1. r.addr = e.addr /\ r.metric = e.metric
        BY <1>9, <2>3, <3>2
      <4>2. \A x \in ss : x # e => x \in us
        BY <2>4
      <4>3. e.status # "CHANGED"
        BY <2>5
      <4> QED BY <1>8, <2>4, <4>1, <4>2, <4>3
    <3> QED BY <3>1, <3>2
  <2>10. \A x \in us, j \in 1..i : cs[j].addr = x.addr => Close(x.metric, cs[j].metric)
    <3> SUFFICES ASSUME NEW x \in us, NEW j \in 1..i, cs[j].addr = x.addr PROVE Close(x.metric, cs[j].metric)
      OBVIOUS
    <3>1. CASE x = r
      BY <1>1, <1>5, <2>3, <3>1
    <3>2. CASE x # r
      BY <1>1, <1>5, <1>8, <2>6, <3>2
    <3> QED BY <3>1, <3>2
  <2>11. \A j \in 1..i : (\E x \in us : cs[j].addr = x.addr) \/ Len(u.list) = TableSize
    <3>1. \A x \in ss : \E y \in us : y.addr = x.addr
      BY <2>14
    <3>2. CASE Len(s.list) = TableSize
      BY <1>9, <3>2
    <3>3. ASSUME NEW j \in 1..i, Len(s.list) # TableSize PROVE \E x \in us : cs[j].addr = x.addr
      <4>1. CASE j = i
        BY <1>1, <2>3, <2>4, <4>1
      <4>2. CASE j # i
        <5>1. PICK x \in ss : cs[j].addr = x.addr
          BY <1>5, <1>8, <3>3, <4>2
        <5> QED BY <3>1, <5>1
      <4> QED BY <4>1, <4>2
    <3> QED BY <3>2, <3>3
  <2>12. \A x \in us : (\E y \in Rows(l) : y.addr = x.addr) \/ \E j \in 1..i : cs[j].addr = x.addr
    BY <1>1, <1>5, <1>8, <2>3, <2>6
  <2>13. ASSUME NEW y \in Rows(l) PROVE \E x \in us : y.addr = x.addr
    <3>1. PICK x \in ss : y.addr = x.addr
      BY <1>8
    <3> QED BY <2>14, <3>1
  <2> QED BY <1>3, <1>6, <2>7, <2>8, <2>9, <2>10, <2>11, <2>12, <2>13, ZenonT(40) DEF Passing
<1>10. CASE /\ \A r \in ss : r.addr # n
            /\ us = ss \union {[addr |-> n, metric |-> m, status |-> "CHANGED"]}
            /\ Len(u.list) = Len(s.list) + 1
  <2>1. PICK r : r = [addr |-> n, metric |-> m, status |-> "CHANGED"]
    OBVIOUS
  <2>2. r.addr = n /\ r.metric = m /\ r.status = "CHANGED" /\ us = ss \union {r} /\ r \in us
    BY <1>10, <2>1
  <2>3. Close(m, m)
    BY <1>2 DEF Close
  <2>4. \A x \in us : x.status = "EDIT" <=> ~\E j \in 1..i : cs[j].addr = x.addr
    BY <1>1, <1>5, <1>8, <1>10, <2>2
  <2>5. \A x \in us : x.status # "CHANGED" => \E y \in Rows(l) : y.addr = x.addr /\ y.metric = x.metric
    BY <1>8, <2>2
  <2>6. \A y \in Rows(l) : \/ \E x \in us : y.addr = x.addr /\ y.metric = x.metric
                           \/ \E x \in us : x.status = "CHANGED"
    BY <2>2
  <2>7. \A x \in us, j \in 1..i : cs[j].addr = x.addr => Close(x.metric, cs[j].metric)
    <3> SUFFICES ASSUME NEW x \in us, NEW j \in 1..i, cs[j].addr = x.addr PROVE Close(x.metric, cs[j].metric)
      OBVIOUS
    <3>1. CASE x = r
      BY <1>1, <1>5, <2>2, <2>3, <3>1
    <3>2. CASE x # r
      BY <1>1, <1>5, <1>8, <1>10, <2>2, <3>2
    <3> QED BY <3>1, <3>2
  <2>8. \A j \in 1..i : (\E x \in us : cs[j].addr = x.addr) \/ Len(u.list) = TableSize
    <3>1. Len(s.list) # TableSize
      BY <1>7, <1>10
    <3> QED BY <1>1, <1>5, <1>8, <2>2, <3>1
  <2>9. \A x \in us : (\E y \in Rows(l) : y.addr = x.addr) \/ \E j \in 1..i : cs[j].addr = x.addr
    BY <1>1, <1>5, <1>8, <2>2
  <2>10. \A y \in Rows(l) : \E x \in us : y.addr = x.addr
    BY <1>8, <2>2
  <2> QED BY <1>3, <1>6, <2>4, <2>5, <2>6, <2>7, <2>8, <2>9, <2>10, ZenonT(40) DEF Passing
<1>11. CASE (\A r \in ss : r.addr # n) /\ Len(s.list) = TableSize /\ u.list = s.list
  <2>1. us = ss
    BY <1>6, <1>11
  <2>2. \A x \in us : x.status = "EDIT" <=> ~\E j \in 1..i : cs[j].addr = x.addr
    BY <1>1, <1>5, <1>8, <1>11, <2>1
  <2>3. \A x \in us, j \in 1..i : cs[j].addr = x.addr => Close(x.metric, cs[j].metric)
    BY <1>1, <1>5, <1>8, <1>11, <2>1
  <2>4. \A x \in us : (\E y \in Rows(l) : y.addr = x.addr) \/ \E j \in 1..i : cs[j].addr = x.addr
    BY <1>5, <1>8, <2>1
  <2> QED BY <1>3, <1>6, <1>8, <1>11, <2>1, <2>2, <2>3, <2>4 DEF Passing
<1> QED BY <1>4, <1>6, <1>9, <1>10, <1>11 DEF InsertedRows

\* A whole pass
LEMMA PassedIs ==
    ASSUME TableSize \in Nat, UintMod \in Nat \ {0}, Delta \in Nat, Factor \in Nat \ {0},
           NEW N, NEW V \in SUBSET (0..(UintMod - 1)), NEW l, NEW k, Sound(N, V, [list |-> l, taken |-> k]),
           collected \in Seq([addr : N, metric : V]), Distinct(collected),
           NEW A, NEW B, NEW C, NEW X, NEW s, s = Table(A, B, C, X)!Passed(l, k)
    PROVE  Passing(N, V, l, collected, Len(collected), s)
<1> DEFINE m == Len(collected)
           S == {t \in [list : Seq(Row(N, V)), taken : Nat] : Sound(N, V, t)}
           start == [list |-> Table(A, B, C, X)!Edited(l), taken |-> k]
           Step(t, i) == Table(A, B, C, X)!Insert(t, collected[i].addr, collected[i].metric)
           Rec(g) == g = [i \in 0..m |-> IF i = 0 THEN start ELSE Step(g[i - 1], i)]
           P(i, t) == Passing(N, V, l, collected, i, t)
<1>1. /\ m \in Nat
      /\ \A i \in 1..m : collected[i] \in [addr : N, metric : V]
  <2> DEFINE Heard == [addr : N, metric : V]
  <2>1. collected \in Seq(Heard)
    OBVIOUS
  <2> HIDE DEF Heard
  <2>2. \A i \in 1..m : collected[i] \in Heard
    BY <2>1
  <2> QED BY <2>1, <2>2 DEF Heard
<1>2. /\ l \in Seq(Row(N, V)) /\ Distinct(l) /\ k \in Nat /\ k = Len(l) /\ k <= TableSize
  BY DEF Sound
<1>3. PICK e : e = Table(A, B, C, X)!Edited(l)
  OBVIOUS
<1>4. /\ e \in Seq(Row(N, V)) /\ DOMAIN e = DOMAIN l /\ Len(e) = Len(l)
      /\ \A i \in DOMAIN l : e[i] = [l[i] EXCEPT !.status = "EDIT"]
  <2> DEFINE Q == Row(N, V)
  <2>1. e = [i \in 1..Len(l) |-> [l[i] EXCEPT !.status = "EDIT"]] /\ Len(l) \in Nat /\ DOMAIN l = 1..Len(l)
    BY <1>2, <1>3 DEF Table!Edited
  <2>2. ASSUME NEW i \in 1..Len(l) PROVE [l[i] EXCEPT !.status = "EDIT"] \in Q
    <3>1. l[i] \in Row(N, V)
      BY <1>2
    <3>2. PICK r : r = l[i]
      OBVIOUS
    <3> QED BY <3>1, <3>2 DEF Row
  <2> HIDE DEF Q
  <2>3. e \in Seq(Q) /\ DOMAIN e = DOMAIN l /\ Len(e) = Len(l)
    BY <2>1, <2>2
  <2> QED BY <2>1, <2>3 DEF Q
<1>5. \A i \in DOMAIN l : e[i].addr = l[i].addr /\ e[i].metric = l[i].metric /\ e[i].status = "EDIT"
  <2> SUFFICES ASSUME NEW i \in DOMAIN l
               PROVE  e[i].addr = l[i].addr /\ e[i].metric = l[i].metric /\ e[i].status = "EDIT"
    OBVIOUS
  <2>1. l[i] \in Row(N, V)
    BY <1>2
  <2>2. PICK r : r = l[i]
    OBVIOUS
  <2> QED BY <1>4, <2>1, <2>2 DEF Row
<1>6. P(0, start)
  <2>1. start = [list |-> e, taken |-> k] /\ start.list = e
    BY <1>3
  <2>2. Sound(N, V, start)
    <3> HIDE DEF start
    <3>1. Distinct(e)
      BY <1>2, <1>4, <1>5 DEF Distinct
    <3>2. start \in [list : Seq(Row(N, V)), taken : Nat] /\ start.taken = k
      BY <1>2, <1>4, <2>1
    <3> QED BY <1>2, <1>4, <2>1, <3>1, <3>2 DEF Sound
  <2>3. \A x \in Rows(e) : x.status = "EDIT" /\ \E r \in Rows(l) : r.addr = x.addr /\ r.metric = x.metric
    BY <1>4, <1>5 DEF Rows
  <2>4. ASSUME NEW r \in Rows(l) PROVE \E x \in Rows(e) : r.addr = x.addr /\ r.metric = x.metric
    <3>1. PICK i \in DOMAIN l : r = l[i]
      BY DEF Rows
    <3>2. e[i] \in Rows(e)
      BY <1>4 DEF Rows
    <3> QED BY <1>5, <3>1, <3>2
  <2>5. 1..0 = {}
    OBVIOUS
  <2> HIDE DEF start
  <2> QED BY <2>1, <2>2, <2>3, <2>4, <2>5 DEF Passing
<1>7. ASSUME NEW i \in 1..m, NEW t, P(i - 1, t) PROVE P(i, Step(t, i))
  <2>1. PICK u : u = Step(t, i)
    OBVIOUS
  <2>2. P(i, u)
    BY <1>7, <2>1, PassingStep
  <2> QED BY <2>1, <2>2
<1>8. ASSUME NEW i \in 1..m, NEW t \in S PROVE Step(t, i) \in S
  <2>1. PICK u : u = Step(t, i)
    OBVIOUS
  <2>2. PICK n, v : n = collected[i].addr /\ v = collected[i].metric
    OBVIOUS
  <2>3. n \in N /\ v \in V
    <3>1. collected[i] \in [addr : N, metric : V]
      BY <1>1
    <3> QED BY <2>2, <3>1
  <2>4. u = Table(A, B, C, X)!Insert(t, n, v)
    BY <2>1, <2>2
  <2>5. Sound(N, V, u)
    BY <2>3, <2>4, InsertIs
  <2> QED BY <2>1, <2>5 DEF Sound
<1>9. start \in S
  BY <1>6 DEF Passing, Sound
<1>10. PICK g : /\ s = g[m] /\ g[0] = start
                /\ \A i \in 1..m : g[i] = Step(g[i - 1], i)
  <2> HIDE DEF start, P
  <2> DEFINE f == [i \in 1..m |-> [t \in S |-> Step(t, i)]]
  <2>1. f \in [1..m -> [S -> S]]
    <3> HIDE DEF Step, m, S
    <3> QED BY <1>8
  <2>2. PICK g : Steps(m, S, start, f, g)
    <3>1. m \in Nat /\ start \in S /\ f \in [1..m -> [S -> S]]
      BY <1>1, <1>9, <2>1
    <3> HIDE DEF f, m, S, Step, Rec
    <3> QED BY <3>1, StepsExist
  <2>3. Rec(g)
    <3> HIDE DEF S, Step
    <3>1. ASSUME NEW i \in 0..m PROVE g[i] = IF i = 0 THEN start ELSE Step(g[i - 1], i)
      <4>1. CASE i = 0
        BY <2>2, <4>1 DEF Steps
      <4>2. CASE i # 0
        <5>1. i \in 1..m /\ i - 1 \in 0..m
          BY <1>1, <4>2
        <5>2. g[i] = f[i][g[i - 1]] /\ g[i - 1] \in S
          BY <2>2, <5>1 DEF Steps
        <5> QED BY <4>2, <5>1, <5>2
      <4> QED BY <4>1, <4>2
    <3> QED BY <2>2, <3>1 DEF Steps
  <2> DEFINE h == CHOOSE h : Rec(h)
  <2>4. s = h[m]
    BY DEF Table!Passed, start
  <2>5. Rec(h)
    <3> HIDE DEF Rec
    <3> QED BY <2>3
  <2> HIDE DEF h
  <2>6. \A i \in 0..m : h[i] = IF i = 0 THEN start ELSE Step(h[i - 1], i)
    <3> HIDE DEF Step
    <3> QED BY <2>5
  <2>7. h[0] = start /\ \A i \in 1..m : h[i] = Step(h[i - 1], i)
    <3>1. 0 \in 0..m /\ \A i \in 1..m : i \in 0..m /\ i # 0
      BY <1>1
    <3> HIDE DEF Step
    <3> QED BY <2>6, <3>1
  <2> QED BY <2>4, <2>7
<1> HIDE DEF Step, start, m, S, P
<1>11. \A i \in 0..m : P(i, g[i])
  <2> DEFINE G == {i \in 0..m : P(i, g[i])}
  <2>1. 0 \in G /\ \A i \in 1..m : i - 1 \in G => i \in G
    BY <1>1, <1>6, <1>7, <1>10
  <2>2. \A i \in 0..m : i \in G
    <3> HIDE DEF G
    <3> QED BY <1>1, <2>1, CountUp
  <2> QED BY <2>2
<1>12. P(m, s)
  BY <1>1, <1>10, <1>11
<1> QED BY <1>12 DEF P, m

\* What is still marked goes, and its blocks with it.
LEMMA UpdatedIs ==
    ASSUME TableSize \in Nat, NEW N, NEW V, NEW t, Sound(N, V, t),
           NEW A, NEW B, NEW C, NEW X, NEW u, u = Table(A, B, C, X)!Updated(t)
    PROVE  Sound(N, V, u) /\ Rows(u.list) = {e \in Rows(t.list) : e.status # "EDIT"}
<1>1. PICK l : l = t.list
  OBVIOUS
<1>2. /\ l \in Seq(Row(N, V)) /\ Distinct(l) /\ t.taken = Len(l) /\ Len(l) \in Nat
      /\ Len(l) <= TableSize /\ DOMAIN l = 1..Len(l)
  BY <1>1 DEF Sound
<1>3. PICK Q, P : Q = Table(A, B, C, X)!Marked(l) /\ P = DOMAIN l \ Q
  OBVIOUS
<1>4. Q = {i \in DOMAIN l : l[i].status = "EDIT"}
  BY <1>3 DEF Table!Marked
<1>5. PICK a : a = Table(A, B, C, X)!Among(l, P)
  OBVIOUS
<1>6. ComesFrom(Row(N, V), l, P, a)
  <2> DEFINE S == Row(N, V)
  <2>1. a = Net({}, 0, TRUE)!Among(l, P)
    BY <1>5 DEF Table!Among, Net!Among
  <2>2. l \in Seq(S) /\ P \in SUBSET DOMAIN l
    BY <1>2, <1>3
  <2> HIDE DEF S
  <2>3. ComesFrom(S, l, P, a)
    BY <2>1, <2>2, AmongIs
  <2> QED BY <2>3 DEF S
<1>7. PICK f \in Bijection(1..Len(a), P) : \A k \in 1..Len(a) : a[k] = l[f[k]]
  BY <1>6 DEF ComesFrom
<1>8. a \in Seq(Row(N, V)) /\ Len(a) \in Nat /\ DOMAIN a = 1..Len(a)
  BY <1>6 DEF ComesFrom
<1>9. /\ f \in [1..Len(a) -> P]
      /\ \A j, k \in 1..Len(a) : f[j] = f[k] => j = k
      /\ \A p \in P : \E k \in 1..Len(a) : f[k] = p
  BY <1>7 DEF Bijection, Injection, Surjection, IsInjective
<1>10. Distinct(a)
  <2> SUFFICES ASSUME NEW j \in 1..Len(a), NEW k \in 1..Len(a), a[j].addr = a[k].addr PROVE j = k
    BY <1>8 DEF Distinct
  <2>1. f[j] \in DOMAIN l /\ f[k] \in DOMAIN l /\ a[j] = l[f[j]] /\ a[k] = l[f[k]]
    BY <1>3, <1>7, <1>9
  <2>2. f[j] = f[k]
    BY <1>2, <2>1 DEF Distinct
  <2> QED BY <1>9, <2>2
<1>11. Rows(a) = {e \in Rows(l) : e.status # "EDIT"}
  <2>1. ASSUME NEW k \in DOMAIN a PROVE a[k] \in {e \in Rows(l) : e.status # "EDIT"}
    <3>1. f[k] \in P /\ a[k] = l[f[k]]
      BY <1>7, <1>8, <1>9
    <3> QED BY <1>3, <1>4, <3>1 DEF Rows
  <2>2. ASSUME NEW e \in Rows(l), e.status # "EDIT" PROVE e \in Rows(a)
    <3>1. PICK i \in DOMAIN l : e = l[i]
      BY DEF Rows
    <3>2. i \in P
      BY <1>3, <1>4, <2>2, <3>1
    <3>3. PICK k \in 1..Len(a) : f[k] = i
      BY <1>9, <3>2
    <3>4. a[k] = e
      BY <1>7, <3>1, <3>3
    <3> QED BY <1>8, <3>4 DEF Rows
  <2> QED BY <2>1, <2>2 DEF Rows
<1>12. t.taken - Cardinality(Q) = Len(a)
  <2>1. IsFiniteSet(1..Len(l)) /\ Cardinality(1..Len(l)) = Len(l)
    BY <1>2, UptoFinite
  <2>2. IsFiniteSet(1..Len(a)) /\ Cardinality(1..Len(a)) = Len(a)
    BY <1>8, UptoFinite
  <2>3. Cardinality(P) = Len(a)
    <3>1. ExistsBijection(1..Len(a), P)
      BY <1>7 DEF ExistsBijection
    <3> QED BY <2>2, <3>1, FS_Bijection
  <2>4. Q \in SUBSET (1..Len(l)) /\ P = (1..Len(l)) \ Q /\ (1..Len(l)) \intersect Q = Q
    BY <1>2, <1>3, <1>4
  <2>5. Cardinality(P) = Len(l) - Cardinality(Q)
    <3>1. Cardinality((1..Len(l)) \ Q) = Cardinality(1..Len(l)) - Cardinality((1..Len(l)) \intersect Q)
      BY <2>1, FS_Difference
    <3> QED BY <2>1, <2>4, <3>1
  <2>6. Cardinality(Q) \in Nat
    BY <2>1, <2>4, FS_Subset, FS_CardinalityType
  <2> QED BY <1>2, <1>8, <2>3, <2>5, <2>6
<1>13. Len(a) <= TableSize
  <2>1. Cardinality(Q) \in Nat
    <3>1. IsFiniteSet(1..Len(l)) /\ Q \in SUBSET (1..Len(l))
      BY <1>2, <1>4, UptoFinite
    <3> QED BY <3>1, FS_Subset, FS_CardinalityType
  <2> QED BY <1>2, <1>8, <1>12, <2>1
<1>14. u = [list |-> a, taken |-> Len(a)]
  <2>1. Table(A, B, C, X)!Cardinality(Q) = Cardinality(Q)
    BY DEF Table!Cardinality, Cardinality
  <2>2. u = [list |-> Table(A, B, C, X)!Among(l, DOMAIN l \ Q), taken |-> t.taken - Table(A, B, C, X)!Cardinality(Q)]
    BY <1>1, <1>3 DEF Table!Updated
  <2> QED BY <1>3, <1>5, <1>12, <2>1, <2>2
<1> QED BY <1>1, <1>8, <1>10, <1>11, <1>13, <1>14 DEF Sound

\* A list of which another has all neighbors is no longer.
LEMMA NoLonger ==
    ASSUME NEW S, NEW T, NEW a \in Seq(S), NEW b \in Seq(T), Distinct(a),
           \A r \in Rows(a) : \E e \in Rows(b) : r.addr = e.addr
    PROVE  Len(a) <= Len(b)
<1>1. Len(a) \in Nat /\ DOMAIN a = 1..Len(a) /\ Len(b) \in Nat /\ DOMAIN b = 1..Len(b)
  OBVIOUS
<1>2. \A i \in 1..Len(a) : \E j \in 1..Len(b) : a[i].addr = b[j].addr
  BY <1>1 DEF Rows
<1> DEFINE f == [i \in 1..Len(a) |-> CHOOSE j \in 1..Len(b) : a[i].addr = b[j].addr]
<1>3. ASSUME NEW i \in 1..Len(a) PROVE f[i] \in 1..Len(b) /\ a[i].addr = b[f[i]].addr
  BY <1>2
<1>4. f \in Injection(1..Len(a), 1..Len(b))
  <2>1. f \in [1..Len(a) -> 1..Len(b)]
    BY <1>3
  <2>2. \A i, j \in 1..Len(a) : f[i] = f[j] => i = j
    <3> SUFFICES ASSUME NEW i \in 1..Len(a), NEW j \in 1..Len(a), f[i] = f[j] PROVE i = j
      OBVIOUS
    <3>1. a[i].addr = a[j].addr
      <4>1. a[i].addr = b[f[i]].addr /\ a[j].addr = b[f[j]].addr
        BY <1>3
      <4> HIDE DEF f
      <4> QED BY <4>1
    <3> QED BY <1>1, <3>1 DEF Distinct
  <2> HIDE DEF f
  <2> QED BY <2>1, <2>2 DEF Injection, IsInjective
<1>6. IsFiniteSet(1..Len(b)) /\ Cardinality(1..Len(b)) = Len(b)
  BY <1>1, UptoFinite
<1>7. Cardinality(1..Len(a)) = Len(a)
  BY <1>1, UptoFinite
<1> HIDE DEF f
<1>8. Cardinality(1..Len(a)) <= Cardinality(1..Len(b))
  BY <1>4, <1>6, FS_Injection
<1> QED BY <1>1, <1>6, <1>7, <1>8

-----------------------------------------------------------------------------
(* The neighbor table: the inductive invariant *)

\* What may be assumed of a node
Node(M, C, X) ==
    /\ TableSize \in Nat \ {0} /\ UintMod \in Nat \ {0} /\ Delta \in Nat /\ Factor \in Nat \ {0}
    /\ M \in SUBSET (0..(UintMod - 1)) /\ C \in BOOLEAN /\ X \in Nat

\* The metrics in its table: those that collect gives, or the one of naive-nd
Held(M, C) == IF C THEN M ELSE {1}

Typed(N, X) ==
    /\ {steady, due, locked, refused} \subseteq BOOLEAN
    /\ \A r \in {reported, known} : \A e \in r : e.addr \in N /\ e.metric \in Nat
    /\ passes \in 0..2 /\ changes \in 0..X

\* Collect's list has each neighbor once.
CollectedOK(N, M) == collected \in Seq([addr : N, metric : M]) /\ Distinct(collected)

\* The table has a block for each neighbor, and none of them is marked.
TableOK(N, V) ==
    /\ Sound(N, V, [list |-> table, taken |-> taken])
    /\ \A e \in Rows(table) : e.status # "EDIT"

\* After a pass the table has only neighbors that collect knows, with their metrics
\* or close to them, and after two all of them or as many as fit.
Follows ==
    /\ passes > 0 => \A e \in Rows(table) : \E r \in Rows(collected) : e.addr = r.addr
    /\ passes > 0 => \A e \in Rows(table), r \in Rows(collected) :
                        e.addr = r.addr => Close(e.metric, r.metric)
    /\ passes = 2 => \/ \A r \in Rows(collected) : \E e \in Rows(table) : r.addr = e.addr
                     \/ Len(table) = TableSize

\* What a report would say
Says(l) == {[addr |-> e.addr, metric |-> e.metric] : e \in Rows(l)}

\* Before the controller is found nothing was reported, and a table that is not empty
\* is to be; after that the last report has the table, unless one was refused.
Told ==
    /\ steady /\ ~refused => reported = Says(table)
    /\ ~steady => reported = {}
    /\ ~steady /\ table # <<>> => due

TableInv(N, M, C, X) ==
    /\ Typed(N, X) /\ CollectedOK(N, M) /\ TableOK(N, Held(M, C))
    /\ ~C => passes = 0
    /\ Follows /\ Told

\* What a report says of a table
LEMMA SaysIs ==
    ASSUME NEW A, NEW B, NEW C, NEW X, NEW l
    PROVE  Table(A, B, C, X)!Content(l) = Says(l)
  BY DEF Table!Content, Says, Rows

\* and what is in it
LEMMA SaysTyped ==
    ASSUME UintMod \in Nat \ {0}, NEW M \in SUBSET (0..(UintMod - 1)), NEW C \in BOOLEAN,
           NEW N, NEW l \in Seq(Row(N, Held(M, C)))
    PROVE  \A e \in Says(l) : e.addr \in N /\ e.metric \in Nat
<1> SUFFICES ASSUME NEW e \in Rows(l) PROVE e.addr \in N /\ e.metric \in Nat
  BY DEF Says
<1>1. e \in Row(N, Held(M, C))
  BY DEF Rows
<1>2. e.addr \in N /\ e.metric \in Held(M, C)
  BY <1>1 DEF Row
<1>3. Held(M, C) \subseteq Nat
  BY DEF Held
<1> QED BY <1>2, <1>3

\* The table is told of, or will be, if it was or nothing in it has changed.
LEMMA EventTells ==
    ASSUME NEW N, NEW X, NEW A, NEW B, NEW C, Typed(N, X), Told, UNCHANGED steady,
           \A e \in Says(table') : e.addr \in N /\ e.metric \in Nat,
           Table(A, B, C, X)!NdEvent(table')
    PROVE  /\ Told' /\ {due', locked', refused'} \subseteq BOOLEAN
           /\ \A r \in {reported', known'} : \A e \in r : e.addr \in N /\ e.metric \in Nat
<1>1. Table(A, B, C, X)!Content(table') = Says(table')
  BY SaysIs
<1>2. CASE steady
  <2>1. Table(A, B, C, X)!Report(table') /\ UNCHANGED due
    BY <1>2 DEF Table!NdEvent
  <2>2. \/ refused' = TRUE /\ UNCHANGED <<locked, reported, known>>
        \/ refused' = FALSE /\ locked' = TRUE /\ reported' = Says(table') /\ UNCHANGED known
    BY <1>1, <2>1 DEF Table!Report
  <2>3. Told'
    BY <1>2, <2>2 DEF Told, Says, Rows
  <2> QED BY <2>1, <2>2, <2>3 DEF Typed
<1>3. CASE ~steady
  <2>1. due' = TRUE /\ UNCHANGED <<locked, reported, known, refused>>
    BY <1>3 DEF Table!NdEvent
  <2> QED BY <1>3, <2>1 DEF Told, Typed
<1> QED BY <1>2, <1>3

\* At first there is nothing.
LEMMA TableStarts ==
    ASSUME NEW N, NEW M, NEW C, NEW X, Node(M, C, X), Table(N, M, C, X)!Init
    PROVE  TableInv(N, M, C, X)
<1>1. /\ table = <<>> /\ taken = 0 /\ collected = <<>> /\ steady = FALSE /\ due = FALSE
      /\ locked = FALSE /\ reported = {} /\ known = {} /\ refused = FALSE /\ passes = 0 /\ changes = 0
  BY DEF Table!Init
<1>2. PICK none : none = <<>>
  OBVIOUS
<1>3. Rows(none) = {} /\ Distinct(none) /\ Len(none) = 0
  BY <1>2 DEF Rows, Distinct
<1>4. Typed(N, X)
  <2>1. passes \in 0..2 /\ changes \in 0..X
    BY <1>1 DEF Node
  <2>2. {steady, due, locked, refused} \subseteq BOOLEAN
    BY <1>1
  <2>3. \A r \in {reported, known} : \A e \in r : e.addr \in N /\ e.metric \in Nat
    BY <1>1
  <2> QED BY <2>1, <2>2, <2>3 DEF Typed
<1>5. CollectedOK(N, M)
  <2>1. none \in Seq([addr : N, metric : M])
    BY <1>2
  <2> QED BY <1>1, <1>2, <1>3, <2>1 DEF CollectedOK
<1>6. TableOK(N, Held(M, C))
  <2>1. none \in Seq(Row(N, Held(M, C)))
    BY <1>2
  <2>2. Sound(N, Held(M, C), [list |-> none, taken |-> 0])
    BY <1>3, <2>1 DEF Sound, Node
  <2> QED BY <1>1, <1>2, <1>3, <2>2 DEF TableOK
<1>7. Follows /\ Told
  BY <1>1, <1>2, <1>3 DEF Follows, Told, Says
<1> QED BY <1>1, <1>4, <1>5, <1>6, <1>7 DEF TableInv

\* A pass of collect-nd
LEMMA PassKeeps ==
    ASSUME NEW N, NEW M, NEW C, NEW X, Node(M, C, X), TableInv(N, M, C, X),
           Table(N, M, C, X)!CollectPass
    PROVE  TableInv(N, M, C, X)'
<1>1. /\ C = TRUE /\ Held(M, C) = M /\ M \in SUBSET (0..(UintMod - 1))
      /\ UNCHANGED <<collected, steady, changes>>
      /\ passes' = IF passes = 2 THEN 2 ELSE passes + 1
  BY DEF Node, Held, Table!CollectPass
<1>2. PICK t : t = Table(N, M, C, X)!Passed(table, taken)
  OBVIOUS
<1>3. PICK u : u = Table(N, M, C, X)!Updated(t)
  OBVIOUS
<1>4. /\ table' = u.list /\ taken' = u.taken
      /\ \/ Table(N, M, C, X)!HasNews(t) /\ Table(N, M, C, X)!NdEvent(table')
         \/ ~Table(N, M, C, X)!HasNews(t) /\ UNCHANGED <<due, locked, reported, known, refused>>
  BY <1>2, <1>3 DEF Table!CollectPass
<1>5. Passing(N, M, table, collected, Len(collected), t)
  <2>1. Sound(N, M, [list |-> table, taken |-> taken])
    BY <1>1 DEF TableInv, TableOK
  <2>2. /\ TableSize \in Nat /\ UintMod \in Nat \ {0} /\ Delta \in Nat /\ Factor \in Nat \ {0}
        /\ collected \in Seq([addr : N, metric : M]) /\ Distinct(collected)
    BY DEF Node, TableInv, CollectedOK
  <2> QED BY <1>1, <1>2, <2>1, <2>2, PassedIs
<1>6. Sound(N, M, t)
  BY <1>5 DEF Passing
<1>7. Sound(N, M, u) /\ Rows(u.list) = {e \in Rows(t.list) : e.status # "EDIT"}
  BY <1>3, <1>6, UpdatedIs DEF Node
<1>8. \A r : r \in Rows(collected) <=> \E j \in 1..Len(collected) : r = collected[j]
  BY DEF Rows, TableInv, CollectedOK
<1>9. /\ \A e \in Rows(t.list) : e.status = "EDIT" <=> ~\E j \in 1..Len(collected) : collected[j].addr = e.addr
      /\ \A e \in Rows(t.list) :
            e.status # "CHANGED" => \E r \in Rows(table) : r.addr = e.addr /\ r.metric = e.metric
      /\ \A r \in Rows(table) : \/ \E e \in Rows(t.list) : r.addr = e.addr /\ r.metric = e.metric
                                \/ \E e \in Rows(t.list) : e.status = "CHANGED"
      /\ \A e \in Rows(t.list), j \in 1..Len(collected) :
            collected[j].addr = e.addr => Close(e.metric, collected[j].metric)
      /\ \A j \in 1..Len(collected) : \/ \E e \in Rows(t.list) : collected[j].addr = e.addr
                                      \/ Len(t.list) = TableSize
      /\ \A e \in Rows(t.list) : \/ \E r \in Rows(table) : r.addr = e.addr
                                 \/ \E j \in 1..Len(collected) : collected[j].addr = e.addr
      /\ \A r \in Rows(table) : \E e \in Rows(t.list) : r.addr = e.addr
  BY <1>5 DEF Passing
<1>10. PICK now : now = Rows(u.list)
  OBVIOUS
<1>11. \A e \in now : e \in Rows(t.list) /\ e.status # "EDIT"
  BY <1>7, <1>10
<1>12. TableOK(N, Held(M, C))'
  <2>1. u = [list |-> table', taken |-> taken']
    BY <1>4, <1>7 DEF Sound
  <2> QED BY <1>1, <1>4, <1>7, <1>10, <1>11, <2>1 DEF TableOK, Sound, Rows
<1>13. CollectedOK(N, M)'
  BY <1>1 DEF TableInv, CollectedOK, Distinct
<1>14. Rows(table)' = now /\ Rows(collected)' = Rows(collected) /\ table' = u.list
  BY <1>1, <1>4, <1>10 DEF Rows
<1>15. Follows'
  <2>1. ASSUME NEW e \in now PROVE \E r \in Rows(collected) : e.addr = r.addr
    BY <1>8, <1>9, <1>11
  <2>2. ASSUME NEW e \in now, NEW r \in Rows(collected), e.addr = r.addr PROVE Close(e.metric, r.metric)
    BY <1>8, <1>9, <1>11, <2>2
  <2>3. ASSUME passes > 0
        PROVE  \/ \A r \in Rows(collected) : \E e \in now : r.addr = e.addr
               \/ Len(u.list) = TableSize
    <3>1. \A e \in Rows(table) : \E r \in Rows(collected) : e.addr = r.addr
      BY <2>3 DEF TableInv, Follows
    <3>2. \A e \in Rows(t.list) : \E j \in 1..Len(collected) : collected[j].addr = e.addr
      BY <1>8, <1>9, <3>1
    <3>3. now = Rows(t.list)
      BY <1>7, <1>9, <1>10, <3>2
    <3>4. CASE \A j \in 1..Len(collected) : \E e \in Rows(t.list) : collected[j].addr = e.addr
      BY <1>8, <3>3, <3>4
    <3>5. CASE Len(t.list) = TableSize
      <4>1. Len(t.list) <= Len(u.list)
        <5>1. \A r \in Rows(t.list) : \E e \in Rows(u.list) : r.addr = e.addr
          BY <1>10, <3>3
        <5>2. t.list \in Seq(Row(N, M)) /\ u.list \in Seq(Row(N, M)) /\ Distinct(t.list)
          BY <1>6, <1>7 DEF Sound
        <5> QED BY <5>1, <5>2, NoLonger
      <4>2. Len(u.list) <= TableSize /\ Len(u.list) \in Nat
        BY <1>7 DEF Sound
      <4> QED BY <3>5, <4>1, <4>2 DEF Node
    <3> QED BY <1>9, <3>4, <3>5
  <2>4. passes' = 2 => passes > 0
    BY <1>1 DEF TableInv, Typed
  <2> QED BY <1>14, <2>1, <2>2, <2>3, <2>4 DEF Follows
<1>16. /\ Told' /\ {due', locked', refused'} \subseteq BOOLEAN
       /\ \A r \in {reported', known'} : \A e \in r : e.addr \in N /\ e.metric \in Nat
  <2>1. CASE Table(N, M, C, X)!NdEvent(table')
    <3>1. \A e \in Says(table') : e.addr \in N /\ e.metric \in Nat
      <4>1. UintMod \in Nat \ {0} /\ C \in BOOLEAN /\ u.list \in Seq(Row(N, Held(M, C)))
        BY <1>1, <1>7 DEF Sound, Node
      <4> QED BY <1>1, <1>4, <4>1, SaysTyped
    <3> QED BY <1>1, <2>1, <3>1, EventTells DEF TableInv
  <2>2. CASE ~Table(N, M, C, X)!HasNews(t) /\ UNCHANGED <<due, locked, reported, known, refused>>
    <3>1. \A e \in Rows(t.list) : e.status \notin {"EDIT", "CHANGED"}
      BY <2>2 DEF Table!HasNews, Rows
    <3>2. now = Rows(t.list)
      BY <1>7, <1>10, <3>1
    <3>3. Says(table') = Says(table)
      <4>1. Says(table') = {[addr |-> e.addr, metric |-> e.metric] : e \in now}
        BY <1>4, <1>10 DEF Says
      <4>2. ASSUME NEW e \in now PROVE [addr |-> e.addr, metric |-> e.metric] \in Says(table)
        BY <1>9, <3>1, <3>2 DEF Says
      <4>3. ASSUME NEW r \in Rows(table)
            PROVE  [addr |-> r.addr, metric |-> r.metric] \in {[addr |-> e.addr, metric |-> e.metric] : e \in now}
        BY <1>9, <3>1, <3>2
      <4> QED BY <4>1, <4>2, <4>3 DEF Says
    <3>4. table' # <<>> => table # <<>>
      <4>1. table = <<>> => Says(table) = {}
        BY DEF Says, Rows
      <4>2. table' # <<>> => Says(table') # {}
        <5> SUFFICES ASSUME u.list # <<>> PROVE Rows(u.list) # {}
          BY <1>4 DEF Says
        <5>1. u.list \in Seq(Row(N, M))
          BY <1>7 DEF Sound
        <5>2. 1 \in DOMAIN u.list
          BY <5>1
        <5> QED BY <5>2 DEF Rows
      <4> QED BY <3>3, <4>1, <4>2
    <3>5. Told'
      BY <1>1, <2>2, <3>3, <3>4 DEF TableInv, Told, Says, Rows
    <3> QED BY <2>2, <3>5 DEF TableInv, Typed
  <2> QED BY <1>4, <2>1, <2>2
<1>17. Typed(N, X)'
  BY <1>1, <1>16 DEF TableInv, Typed
<1> QED BY <1>1, <1>12, <1>13, <1>15, <1>16, <1>17 DEF TableInv

\* A beacon of naive-nd
LEMMA NaiveBeaconKeeps ==
    ASSUME NEW N, NEW M, NEW C, NEW X, Node(M, C, X), TableInv(N, M, C, X),
           NEW n \in N, Table(N, M, C, X)!NaiveBeacon(n)
    PROVE  TableInv(N, M, C, X)'
<1>1. C = FALSE /\ Held(M, C) = {1} /\ UNCHANGED <<collected, steady, passes, changes>>
  BY DEF Node, Held, Table!NaiveBeacon
<1>2. PICK s : s = [list |-> table, taken |-> taken]
  OBVIOUS
<1>3. PICK t : t = Table(N, M, C, X)!Insert(s, n, 1)
  OBVIOUS
<1>4. table' = t.list /\ taken' = t.taken /\ Table(N, M, C, X)!NdEvent(table')
  BY <1>2, <1>3 DEF Table!NaiveBeacon
<1>5. Sound(N, {1}, s) /\ s.list = table
  BY <1>1, <1>2 DEF TableInv, TableOK
<1>6. Sound(N, {1}, t) /\ \E e : InsertedRows(s.list, t.list, e, n, 1)
  BY <1>3, <1>5, InsertIs DEF Node
<1>7. \A e \in Rows(t.list) : e \in Rows(table) \/ e.status # "EDIT"
  <2>1. PICK e : InsertedRows(s.list, t.list, e, n, 1)
    BY <1>6
  <2>2. \A r \in Rows(table) : r.addr # n
    BY DEF Table!NaiveBeacon, Table!Addresses, Rows
  <2>3. \/ Rows(t.list) = Rows(table) \union {[addr |-> n, metric |-> 1, status |-> "CHANGED"]}
        \/ t.list = table
    BY <1>5, <2>1, <2>2 DEF InsertedRows
  <2> QED BY <2>3
<1>8. TableOK(N, Held(M, C))'
  <2>1. [list |-> table', taken |-> taken'] = t
    BY <1>4, <1>6 DEF Sound
  <2>2. \A e \in Rows(t.list) : e.status # "EDIT"
    BY <1>7 DEF TableInv, TableOK
  <2> QED BY <1>1, <1>4, <1>6, <2>1, <2>2 DEF TableOK, Sound, Rows
<1>9. CollectedOK(N, M)'
  BY <1>1 DEF TableInv, CollectedOK, Distinct
<1>10. passes = 0 /\ passes' = 0
  BY <1>1 DEF TableInv
<1>11. Follows'
  BY <1>10 DEF Follows
<1>12. /\ Told' /\ {due', locked', refused'} \subseteq BOOLEAN
       /\ \A r \in {reported', known'} : \A e \in r : e.addr \in N /\ e.metric \in Nat
  <2>1. \A e \in Says(table') : e.addr \in N /\ e.metric \in Nat
    <3>1. UintMod \in Nat \ {0} /\ C \in BOOLEAN /\ t.list \in Seq(Row(N, Held(M, C))) /\ M \in SUBSET (0..(UintMod - 1))
      BY <1>1, <1>6 DEF Sound, Node
    <3> QED BY <1>4, <3>1, SaysTyped
  <2> QED BY <1>1, <1>4, <2>1, EventTells DEF TableInv
<1>13. Typed(N, X)'
  BY <1>1, <1>12 DEF TableInv, Typed
<1> QED BY <1>8, <1>9, <1>10, <1>11, <1>12, <1>13 DEF TableInv

\* What collect knows changes.
LEMMA ChangeKeeps ==
    ASSUME NEW N, NEW M, NEW C, NEW X, Node(M, C, X), TableInv(N, M, C, X),
           Table(N, M, C, X)!CollectChanges
    PROVE  TableInv(N, M, C, X)'
<1>1. /\ changes < X /\ changes' = changes + 1 /\ passes' = 0 /\ C
      /\ UNCHANGED <<table, taken, steady, due, locked, reported, known, refused>>
  BY DEF Table!CollectChanges
<1> DEFINE S == [addr : N, metric : M]
<1>2. /\ collected \in Seq(S) /\ Distinct(collected)
      /\ Len(collected) \in Nat /\ DOMAIN collected = 1..Len(collected)
  BY DEF TableInv, CollectedOK
<1>3. CollectedOK(N, M)'
  <2>1. ASSUME NEW n \in N \ Table(N, M, C, X)!Addresses(collected), NEW m \in M,
               collected' = Append(collected, [addr |-> n, metric |-> m])
        PROVE  CollectedOK(N, M)'
    <3>1. PICK e : e = [addr |-> n, metric |-> m]
      OBVIOUS
    <3>2. e \in S /\ e.addr = n
      BY <3>1
    <3>3. \A i \in 1..Len(collected) : collected[i].addr # e.addr
      BY <1>2, <3>2 DEF Table!Addresses
    <3>4. PICK u : u = collected'
      OBVIOUS
    <3> HIDE DEF S
    <3>5. /\ u \in Seq(S) /\ Len(u) = Len(collected) + 1
          /\ \A k \in 1..Len(u) : u[k] = IF k = Len(collected) + 1 THEN e ELSE collected[k]
      BY <1>2, <2>1, <3>1, <3>2, <3>4
    <3>6. Distinct(u)
      BY <1>2, <3>2, <3>3, <3>5, AppendRow
    <3> QED BY <3>4, <3>5, <3>6 DEF CollectedOK, S
  <2>2. ASSUME NEW p \in DOMAIN collected, collected' = Table(N, M, C, X)!Without(collected, p)
        PROVE  CollectedOK(N, M)'
    <3> HIDE DEF S
    <3>1. PICK l : l = collected
      OBVIOUS
    <3>2. PICK w : w = SubSeq(l, 1, p - 1) \o SubSeq(l, p + 1, Len(l))
      OBVIOUS
    <3>3. l \in Seq(S) /\ Distinct(l) /\ p \in 1..Len(l)
      BY <1>2, <3>1
    <3>4. w \in Seq(S) /\ Distinct(w)
      BY <3>2, <3>3, WithoutOne
    <3>5. collected' = w
      BY <2>2, <3>1, <3>2 DEF Table!Without
    <3> QED BY <3>4, <3>5 DEF CollectedOK, S
  <2>3. ASSUME NEW i \in DOMAIN collected, NEW m \in M, collected' = [collected EXCEPT ![i].metric = m]
        PROVE  CollectedOK(N, M)'
    <3>1. PICK x : x = collected[i]
      OBVIOUS
    <3>2. x \in S
      <4> HIDE DEF S
      <4> QED BY <1>2, <3>1
    <3>3. PICK y : y = [x EXCEPT !.metric = m]
      OBVIOUS
    <3>4. y \in S /\ y.addr = x.addr
      BY <3>2, <3>3
    <3>5. PICK u : u = collected'
      OBVIOUS
    <3>6. u = [collected EXCEPT ![i] = y]
      BY <2>3, <3>1, <3>3, <3>5
    <3>7. u \in Seq(S) /\ DOMAIN u = DOMAIN collected /\ \A j \in DOMAIN collected : u[j] = IF j = i THEN y ELSE collected[j]
      <4> HIDE DEF S
      <4> QED BY <1>2, <3>4, <3>6
    <3>8. \A j \in DOMAIN collected : u[j].addr = collected[j].addr
      BY <3>1, <3>4, <3>7
    <3>9. Distinct(u)
      BY <1>2, <3>7, <3>8 DEF Distinct
    <3> QED BY <3>5, <3>7, <3>9 DEF CollectedOK
  <2> QED BY <2>1, <2>2, <2>3 DEF Table!CollectChanges
<1>4. TableOK(N, Held(M, C))'
  BY <1>1 DEF TableInv, TableOK, Rows, Sound, Distinct
<1>5. Follows'
  BY <1>1 DEF Follows
<1>6. Told'
  BY <1>1 DEF TableInv, Told, Says, Rows
<1>7. Typed(N, X)'
  <2>1. changes' \in 0..X
    BY <1>1 DEF TableInv, Typed, Node
  <2> QED BY <1>1, <2>1 DEF TableInv, Typed
<1> QED BY <1>1, <1>3, <1>4, <1>5, <1>6, <1>7 DEF TableInv

\* The controller is found, and the table reported if it is due.
LEMMA FoundKeeps ==
    ASSUME NEW N, NEW M, NEW C, NEW X, Node(M, C, X), TableInv(N, M, C, X),
           Table(N, M, C, X)!ControllerFound
    PROVE  TableInv(N, M, C, X)'
<1>1. /\ ~steady /\ steady' = TRUE /\ due' = FALSE
      /\ UNCHANGED <<table, taken, collected, passes, changes>>
  BY DEF Table!ControllerFound
<1>2. Table(N, M, C, X)!Content(table) = Says(table)
  BY SaysIs
<1>3. \A e \in Says(table) : e.addr \in N /\ e.metric \in Nat
  <2>1. /\ UintMod \in Nat \ {0} /\ C \in BOOLEAN /\ table \in Seq(Row(N, Held(M, C)))
        /\ M \in SUBSET (0..(UintMod - 1))
    BY DEF TableInv, TableOK, Sound, Node
  <2> QED BY <2>1, SaysTyped
<1>4. /\ UNCHANGED known /\ {locked', refused'} \subseteq BOOLEAN /\ reported' \in {reported, Says(table)}
      /\ ~refused' => reported' = Says(table)
  <2>1. CASE due
    <3>1. Table(N, M, C, X)!Report(table)
      BY <2>1 DEF Table!ControllerFound
    <3> QED BY <1>2, <3>1 DEF Table!Report, TableInv, Typed
  <2>2. CASE ~due
    <3>1. UNCHANGED <<locked, reported, known, refused>>
      BY <2>2 DEF Table!ControllerFound
    <3>2. reported = {} /\ table = <<>>
      BY <1>1, <2>2 DEF TableInv, Told
    <3>3. Says(<<>>) = {}
      BY DEF Says, Rows
    <3>4. {locked, refused} \subseteq BOOLEAN
      BY DEF TableInv, Typed
    <3> QED BY <3>1, <3>2, <3>3, <3>4
  <2> QED BY <2>1, <2>2
<1>5. TableOK(N, Held(M, C))'
  BY <1>1 DEF TableInv, TableOK, Rows, Sound, Distinct
<1>6. CollectedOK(N, M)' /\ Follows'
  BY <1>1 DEF TableInv, CollectedOK, Distinct, Follows, Rows, Close
<1>7. Told'
  BY <1>1, <1>4 DEF Told, Says, Rows
<1>8. Typed(N, X)'
  BY <1>1, <1>3, <1>4 DEF TableInv, Typed
<1> QED BY <1>1, <1>5, <1>6, <1>7, <1>8 DEF TableInv

\* The report is acknowledged.
LEMMA AcknowledgedKeeps ==
    ASSUME NEW N, NEW M, NEW C, NEW X, TableInv(N, M, C, X), Table(N, M, C, X)!Acknowledged
    PROVE  TableInv(N, M, C, X)'
<1>1. /\ locked' = FALSE /\ known' = reported
      /\ UNCHANGED <<table, taken, collected, steady, due, reported, refused, passes, changes>>
  BY DEF Table!Acknowledged
<1>2. TableOK(N, Held(M, C))'
  BY <1>1 DEF TableInv, TableOK, Rows, Sound, Distinct
<1>3. CollectedOK(N, M)' /\ Follows' /\ Told'
  BY <1>1 DEF TableInv, CollectedOK, Distinct, Follows, Rows, Close, Told, Says
<1>4. Typed(N, X)'
  BY <1>1 DEF TableInv, Typed
<1> QED BY <1>1, <1>2, <1>3, <1>4 DEF TableInv

\* Every step keeps the invariant.
LEMMA TableKeeps ==
    ASSUME NEW N, NEW M, NEW C, NEW X, Node(M, C, X), TableInv(N, M, C, X),
           Table(N, M, C, X)!Next
    PROVE  TableInv(N, M, C, X)'
<1>1. CASE Table(N, M, C, X)!CollectPass
  BY <1>1, PassKeeps
<1>2. ASSUME NEW n \in N, Table(N, M, C, X)!NaiveBeacon(n) PROVE TableInv(N, M, C, X)'
  BY <1>2, NaiveBeaconKeeps
<1>3. CASE Table(N, M, C, X)!CollectChanges
  BY <1>3, ChangeKeeps
<1>4. CASE Table(N, M, C, X)!ControllerFound
  BY <1>4, FoundKeeps
<1>5. CASE Table(N, M, C, X)!Acknowledged
  BY <1>5, AcknowledgedKeeps
<1> QED BY <1>1, <1>2, <1>3, <1>4, <1>5 DEF Table!Next

\* The invariant says what the table promises.
LEMMA TableTells ==
    ASSUME NEW N, NEW M, NEW C, NEW X, Node(M, C, X), TableInv(N, M, C, X)
    PROVE  /\ Table(N, M, C, X)!TypeOK /\ Table(N, M, C, X)!TableSound
           /\ Table(N, M, C, X)!SettledInTwo /\ Table(N, M, C, X)!MetricsClose
           /\ Table(N, M, C, X)!EveryChangeTold
<1>1. /\ table \in Seq(Row(N, Held(M, C))) /\ Distinct(table) /\ Len(table) \in Nat
      /\ taken = Len(table) /\ taken <= TableSize /\ DOMAIN table = 1..Len(table)
      /\ \A i \in 1..Len(table) : table[i] \in Rows(table) /\ table[i].status # "EDIT"
  BY DEF TableInv, TableOK, Sound, Rows
<1>2. /\ collected \in Seq([addr : N, metric : M]) /\ Distinct(collected) /\ Len(collected) \in Nat
      /\ DOMAIN collected = 1..Len(collected) /\ \A i \in 1..Len(collected) : collected[i] \in Rows(collected)
  BY DEF TableInv, CollectedOK, Rows
<1>3. Table(N, M, C, X)!TypeOK
  <2> DEFINE S == [addr : N, metric : Nat, status : {"STATIC", "CHANGED"}]
  <2>1. ASSUME NEW i \in 1..Len(table) PROVE table[i] \in S
    <3>1. table[i] \in Row(N, Held(M, C)) /\ table[i].status # "EDIT"
      BY <1>1
    <3>2. Held(M, C) \subseteq Nat
      BY DEF Held, Node
    <3> QED BY <3>1, <3>2 DEF Row
  <2>2. table \in Seq(S)
    <3> HIDE DEF S
    <3> QED BY <1>1, <2>1
  <2> QED BY <1>2, <2>2 DEF TableInv, Typed, Table!TypeOK
<1>4. Table(N, M, C, X)!TableSound
  BY <1>1 DEF Table!TableSound, Distinct
<1>5. Table(N, M, C, X)!SettledInTwo
  <2> SUFFICES ASSUME C, passes = 2
               PROVE  /\ Table(N, M, C, X)!Addresses(table) \subseteq Table(N, M, C, X)!Addresses(collected)
                      /\ Len(table) = IF Len(collected) < TableSize THEN Len(collected) ELSE TableSize
    BY DEF Table!SettledInTwo
  <2>1. \A e \in Rows(table) : \E r \in Rows(collected) : e.addr = r.addr
    BY DEF TableInv, Follows
  <2>2. Table(N, M, C, X)!Addresses(table) \subseteq Table(N, M, C, X)!Addresses(collected)
    BY <2>1 DEF Table!Addresses, Rows
  <2>3. Len(table) <= Len(collected)
    BY <1>1, <1>2, <2>1, NoLonger
  <2>4. ASSUME \A r \in Rows(collected) : \E e \in Rows(table) : r.addr = e.addr
        PROVE  Len(collected) <= Len(table)
    BY <1>1, <1>2, <2>4, NoLonger
  <2>5. Len(collected) <= Len(table) \/ Len(table) = TableSize
    BY <2>4 DEF TableInv, Follows
  <2>6. \A x, y, s \in Nat : (x <= y /\ x <= s /\ (y <= x \/ x = s)) => x = IF y < s THEN y ELSE s
    OBVIOUS
  <2>7. Len(table) \in Nat /\ Len(collected) \in Nat /\ TableSize \in Nat /\ Len(table) <= TableSize
    BY <1>1, <1>2 DEF Node
  <2> QED BY <2>2, <2>3, <2>5, <2>6, <2>7
<1>6. Table(N, M, C, X)!MetricsClose
  <2> SUFFICES ASSUME passes > 0, NEW n \in Table(N, M, C, X)!Addresses(table) \intersect Table(N, M, C, X)!Addresses(collected)
               PROVE  Close(Table(N, M, C, X)!EntryOf(table, n).metric, Table(N, M, C, X)!EntryOf(collected, n).metric)
    BY DEF Table!MetricsClose, Close
  <2>1. PICK i : i = Table(N, M, C, X)!PlaceOf(table, n)
    OBVIOUS
  <2>2. i \in DOMAIN table /\ table[i].addr = n
    BY <2>1 DEF Table!PlaceOf, Table!Addresses
  <2>3. PICK j : j = Table(N, M, C, X)!PlaceOf(collected, n)
    OBVIOUS
  <2>4. j \in DOMAIN collected /\ collected[j].addr = n
    BY <2>3 DEF Table!PlaceOf, Table!Addresses
  <2>5. Close(table[i].metric, collected[j].metric)
    BY <1>1, <1>2, <2>2, <2>4 DEF TableInv, Follows
  <2> QED BY <2>1, <2>3, <2>5 DEF Table!EntryOf
<1>7. Table(N, M, C, X)!EveryChangeTold
  BY SaysIs DEF TableInv, Told, Table!EveryChangeTold
<1> QED BY <1>3, <1>4, <1>5, <1>6, <1>7

\* What the assumption of the module says
LEMMA AnyNode ==
    ASSUME NEW N, NEW M, NEW C, NEW X, Table(N, M, C, X)!NeighborTableAssumption
    PROVE  Node(M, C, X)
  BY DEF Table!NeighborTableAssumption, Node

\* Nothing of it is lost while the table and what was told stand still.
LEMMA TableStands ==
    ASSUME NEW N, NEW M, NEW C, NEW X, TableInv(N, M, C, X), UNCHANGED neighborTable
    PROVE  TableInv(N, M, C, X)'
  BY DEF TableInv, Typed, CollectedOK, Distinct, TableOK, Sound, Rows, Follows, Close, Told, Says, neighborTable

\* Whatever the neighbors, their metrics and the room for them, and whatever collect
\* hears: each neighbor has one entry and one block, the table has what collect knows
\* after two passes, the metrics that are told stay close to those measured, and the
\* last report shows the table unless one was refused.  (sdn_neighbor_table_insert
\* and _update, which mark, move and remove the entries, and nd_event.)
THEOREM TableAlwaysFollows ==
    ASSUME NEW CONSTANT N, NEW CONSTANT M, NEW CONSTANT C, NEW CONSTANT X,
           Table(N, M, C, X)!NeighborTableAssumption
    PROVE  Table(N, M, C, X)!Spec =>
              [](/\ Table(N, M, C, X)!TypeOK /\ Table(N, M, C, X)!TableSound
                 /\ Table(N, M, C, X)!SettledInTwo /\ Table(N, M, C, X)!MetricsClose
                 /\ Table(N, M, C, X)!EveryChangeTold)
<1>1. Node(M, C, X)
  BY AnyNode
<1>2. Table(N, M, C, X)!Init => TableInv(N, M, C, X)
  BY <1>1, TableStarts
<1>3. TableInv(N, M, C, X) /\ [Table(N, M, C, X)!Next]_(Table(N, M, C, X)!vars) => TableInv(N, M, C, X)'
  <2> SUFFICES ASSUME TableInv(N, M, C, X), [Table(N, M, C, X)!Next]_(Table(N, M, C, X)!vars)
               PROVE  TableInv(N, M, C, X)'
    OBVIOUS
  <2>1. CASE Table(N, M, C, X)!Next
    BY <1>1, <2>1, TableKeeps
  <2>2. CASE UNCHANGED Table(N, M, C, X)!vars
    BY <2>2, TableStands DEF Table!vars, neighborTable
  <2> QED BY <2>1, <2>2
<1>4. TableInv(N, M, C, X) =>
         /\ Table(N, M, C, X)!TypeOK /\ Table(N, M, C, X)!TableSound
         /\ Table(N, M, C, X)!SettledInTwo /\ Table(N, M, C, X)!MetricsClose
         /\ Table(N, M, C, X)!EveryChangeTold
  BY <1>1, TableTells
<1> QED BY <1>2, <1>3, <1>4, PTL DEF Table!Spec

-----------------------------------------------------------------------------
(* The neighbor table: the three nodes of the run *)

\* The invariant of the one that moves
TableIInv ==
    /\ part = "collect" => TableInv(Few, Rough, TRUE, 4)
    /\ part = "metrics" => TableInv(Two, Fine, TRUE, 3)
    /\ part = "naive" => TableInv(Many, {16}, FALSE, 0)

\* They are nodes.
LEMMA Tables == Node(Rough, TRUE, 4) /\ Node(Fine, TRUE, 3) /\ Node({16}, FALSE, 0)
<1>1. Node(Rough, TRUE, 4)
  BY TableAssumption, AnyNode
<1>2. Node(Fine, TRUE, 3)
  BY TableAssumption, AnyNode
<1>3. Node({16}, FALSE, 0)
  BY TableAssumption, AnyNode
<1> QED BY <1>1, <1>2, <1>3

\* It holds at first
LEMMA TablesStart == AllInit => TableIInv
<1> SUFFICES ASSUME AllInit PROVE TableIInv
  OBVIOUS
<1>1. Table(Few, Rough, TRUE, 4)!Init
  BY DEF AllInit
<1>2. Table(Two, Fine, TRUE, 3)!Init /\ Table(Many, {16}, FALSE, 0)!Init
  BY <1>1 DEF Table!Init
<1> QED BY <1>1, <1>2, Tables, TableStarts DEF TableIInv

\* and every step of every part keeps it.
LEMMA TablesKeep == TableIInv /\ [AllNext]_all => TableIInv'
<1> SUFFICES ASSUME TableIInv, [AllNext]_all PROVE TableIInv'
  OBVIOUS
<1>1. ASSUME UNCHANGED <<part, neighborTable>> PROVE TableIInv'
  <2>1. part' = part /\ UNCHANGED neighborTable
    BY <1>1
  <2>2. part = "collect" => TableInv(Few, Rough, TRUE, 4)'
    BY <2>1, TableStands DEF TableIInv
  <2>3. part = "metrics" => TableInv(Two, Fine, TRUE, 3)'
    BY <2>1, TableStands DEF TableIInv
  <2>4. part = "naive" => TableInv(Many, {16}, FALSE, 0)'
    BY <2>1, TableStands DEF TableIInv
  <2> QED BY <2>1, <2>2, <2>3, <2>4 DEF TableIInv
<1>2. CASE TableMoves("collect") /\ Table(Few, Rough, TRUE, 4)!Next
  BY <1>2, Tables, TableKeeps DEF TableIInv, TableMoves
<1>3. CASE TableMoves("metrics") /\ Table(Two, Fine, TRUE, 3)!Next
  BY <1>3, Tables, TableKeeps DEF TableIInv, TableMoves
<1>4. CASE TableMoves("naive") /\ Table(Many, {16}, FALSE, 0)!Next
  BY <1>4, Tables, TableKeeps DEF TableIInv, TableMoves
<1> QED BY <1>1, <1>2, <1>3, <1>4 DEF AllNext, CommutatorMoves, DiscoveryMoves, all

\* The table keeps one entry and one block for each neighbor, holds what collect
\* knows after two passes, stays close to what it measures, and no change of it is
\* left out of the reports (as above).
THEOREM TableStaysFollowing == AllSpec => []TableFollows
<1>1. TableIInv => TableFollows
  BY Tables, TableTells DEF TableIInv, TableFollows
<1> QED BY <1>1, TablesStart, TablesKeep, PTL DEF AllSpec

-----------------------------------------------------------------------------
(* The commutator: the inductive invariant *)

USE CommutatorAssumption

\* The MAC has at most one frame, and while it has one the count is not zero and
\* the callback is the sender's, or was erased by the callback that sent it.
OneFrame ==
    /\ mac = <<>> => callback = Nobody
    /\ mac # <<>> => /\ mac = <<Head(mac)>> /\ sending # 0
                     /\ callback \in {Nobody, Head(mac)[1]}
                     /\ Head(mac)[2] <= sent[Head(mac)[1]]

\* A frame that was not sent, or is in the MAC, has no status and no report.
Open(f) == f[2] > sent[f[1]] \/ mac = <<f>>

StillOpen == \A f \in Frames : Open(f) => reports[f] = <<>> /\ finished[f] = {}

Inv == TypeOK /\ OneFrame /\ StillOpen /\ ReportedToSender /\ SuccessIsTrue

-----------------------------------------------------------------------------
\* The frame u sends next is an open one.
LEMMA NewFrameOpen ==
    ASSUME Inv, NEW u \in Users, sent[u] < MaxSends
    PROVE  /\ NewFrame(u) \in Frames /\ NewFrame(u)[1] = u /\ NewFrame(u)[2] = sent[u] + 1
           /\ reports[NewFrame(u)] = <<>> /\ finished[NewFrame(u)] = {}
           /\ \A s : mac = <<s>> => s # NewFrame(u)
<1>1. sent[u] \in Nat
  BY DEF Inv, TypeOK
<1>2. NewFrame(u) \in Frames /\ NewFrame(u)[1] = u /\ NewFrame(u)[2] = sent[u] + 1
  BY <1>1 DEF NewFrame, Frames
<1>3. Open(NewFrame(u))
  BY <1>1, <1>2 DEF Open
<1>4. ASSUME mac = <<NewFrame(u)>> PROVE FALSE
  BY <1>1, <1>2, <1>4 DEF Inv, OneFrame
<1> QED BY <1>2, <1>3, <1>4 DEF Inv, StillOpen

\* A report of a frame without one, to its sender, and truthful.
LEMMA ReportKeeps ==
    ASSUME Inv, NEW f \in Frames, reports[f] = <<>>, NEW status \in Statuses,
           reports' = Reported(reports, f, f[1], status),
           finished' \in [Frames -> SUBSET Statuses],
           \A g \in Frames \ {f} : finished'[g] = finished[g] \/ reports[g] = <<>>,
           status = "OK" => finished'[f] = {"OK"}
    PROVE  /\ reports' \in [Frames -> Seq([to : Users \union {Nobody}, status : Statuses])]
           /\ \A g \in Frames \ {f} : reports'[g] = reports[g]
           /\ ReportedToSender' /\ SuccessIsTrue'
<1>1. reports \in [Frames -> Seq([to : Users \union {Nobody}, status : Statuses])]
  BY DEF Inv, TypeOK
<1> DEFINE r == [to |-> f[1], status |-> status]
<1>2. r \in [to : Users \union {Nobody}, status : Statuses]
  BY DEF Frames
<1>3. reports' = [reports EXCEPT ![f] = <<r>>]
  BY <1>1, <1>2 DEF Reported
<1>4. <<r>> \in Seq([to : Users \union {Nobody}, status : Statuses])
  BY <1>2
<1>5. /\ reports' \in [Frames -> Seq([to : Users \union {Nobody}, status : Statuses])]
      /\ reports'[f] = <<r>> /\ \A g \in Frames \ {f} : reports'[g] = reports[g]
  BY <1>1, <1>3, <1>4
<1> r.to = f[1] /\ r.status = status
  OBVIOUS
<1> HIDE DEF r
<1>6. ReportedToSender'
  <2> SUFFICES ASSUME NEW g \in Frames
               PROVE  Len(reports'[g]) <= 1 /\ \A i \in DOMAIN reports'[g] : reports'[g][i].to = g[1]
    BY DEF ReportedToSender
  <2>1. CASE g = f
    <3>1. Len(<<r>>) = 1 /\ \A i \in DOMAIN <<r>> : <<r>>[i] = r
      OBVIOUS
    <3>2. reports'[g] = <<r>>
      BY <1>5, <2>1
    <3> HIDE <1>5
    <3> QED BY <2>1, <3>1, <3>2
  <2>2. CASE g # f
    <3>1. reports'[g] = reports[g]
      BY <1>5, <2>2
    <3>2. Len(reports[g]) <= 1 /\ \A i \in DOMAIN reports[g] : reports[g][i].to = g[1]
      BY DEF Inv, ReportedToSender
    <3> QED BY <3>1, <3>2
  <2> QED BY <2>1, <2>2
<1>7. SuccessIsTrue'
  <2> SUFFICES ASSUME NEW g \in Frames, NEW i \in DOMAIN reports'[g], reports'[g][i].status = "OK"
               PROVE  finished'[g] = {"OK"}
    BY DEF SuccessIsTrue
  <2>1. CASE g = f
    <3>1. \A k \in DOMAIN <<r>> : <<r>>[k] = r
      OBVIOUS
    <3> QED BY <1>5, <2>1, <3>1
  <2>2. CASE g # f
    <3>1. finished[g] = {"OK"} /\ reports[g] # <<>>
      BY <1>5, <2>2 DEF Inv, SuccessIsTrue
    <3> QED BY <2>2, <3>1
  <2> QED BY <2>1, <2>2
<1> QED BY <1>5, <1>6, <1>7

\* A send: passed to the MAC, refused with a report, or dropped for want of battery
LEMMA SendStep == ASSUME Inv, ~MayWrap, NEW u \in Users, Send(u) PROVE Inv'
<1> DEFINE new == NewFrame(u)
<1>1. /\ new \in Frames /\ new[1] = u /\ new[2] = sent[u] + 1
      /\ reports[new] = <<>> /\ finished[new] = {}
      /\ \A s : mac = <<s>> => s # new
      /\ sent[u] < MaxSends /\ sent[u] \in 0..MaxSends
      /\ sent' = [sent EXCEPT ![u] = @ + 1] /\ finished' = finished /\ battery' = battery
  BY NewFrameOpen DEF Send, Inv, TypeOK
<1> HIDE DEF new
<1>2. /\ sent' \in [Users -> 0..MaxSends] /\ sent'[u] = sent[u] + 1
      /\ \A w \in Users : sent[w] <= sent'[w]
  BY <1>1 DEF Inv, TypeOK
<1>3. \A f \in Frames : f[2] > sent'[f[1]] => f[2] > sent[f[1]] /\ f # new
  <2> TAKE f \in Frames
  <2>1. f[1] \in Users /\ f[2] \in Nat
    BY DEF Frames
  <2>2. sent[f[1]] \in Nat /\ sent'[f[1]] \in Nat
    BY <1>2, <2>1 DEF Inv, TypeOK
  <2> QED BY <1>1, <1>2, <2>1, <2>2
<1>4. CASE ~battery
  <2>1. UNCHANGED <<sending, callback, mac, reports>>
    BY <1>4 DEF Send
  <2>2. TypeOK' /\ ReportedToSender' /\ SuccessIsTrue'
    <3>1. ReportedToSender'
      BY <2>1 DEF Inv, ReportedToSender
    <3>2. SuccessIsTrue'
      BY <1>1, <2>1 DEF Inv, SuccessIsTrue
    <3>3. TypeOK'
      BY <1>1, <1>2, <2>1 DEF Inv, TypeOK
    <3> QED BY <3>1, <3>2, <3>3
  <2>3. OneFrame'
    <3>1. ASSUME mac # <<>> PROVE Head(mac)[2] <= sent'[Head(mac)[1]]
      <4>1. Head(mac) \in Frames /\ Head(mac)[2] <= sent[Head(mac)[1]]
        BY <3>1 DEF Inv, TypeOK, OneFrame
      <4>2. Head(mac)[1] \in Users /\ Head(mac)[2] \in Nat
        BY <4>1 DEF Frames
      <4> QED BY <1>2, <4>1, <4>2 DEF Inv, TypeOK
    <3> QED BY <2>1, <3>1 DEF Inv, OneFrame
  <2>4. StillOpen'
    BY <1>1, <1>3, <2>1 DEF Inv, StillOpen, Open
  <2> QED BY <2>2, <2>3, <2>4 DEF Inv
<1>5. CASE battery /\ sending = 0
  <2>1. mac = <<>>
    BY <1>5 DEF Inv, OneFrame
  <2>2. /\ sending' = 1 /\ callback' = u /\ mac' = <<new>> /\ reports' = reports
    BY <1>5, <2>1 DEF Send, CallbackAfter, Passes, new
  <2>3. TypeOK' /\ ReportedToSender' /\ SuccessIsTrue'
    <3>1. mac' \in Seq(Frames)
      BY <1>1, <2>2
    <3>2. ReportedToSender'
      BY <2>2 DEF Inv, ReportedToSender
    <3>3. SuccessIsTrue'
      BY <1>1, <2>2 DEF Inv, SuccessIsTrue
    <3>4. TypeOK'
      <4>1. sending' \in 0..(Width - 1) /\ callback' \in Users \union {Nobody}
        BY <2>2
      <4>2. /\ battery' \in BOOLEAN /\ finished' \in [Frames -> SUBSET Statuses]
            /\ reports' \in [Frames -> Seq([to : Users \union {Nobody}, status : Statuses])]
        BY <1>1, <2>2 DEF Inv, TypeOK
      <4> QED BY <1>2, <3>1, <4>1, <4>2 DEF TypeOK
    <3> QED BY <3>2, <3>3, <3>4
  <2>4. OneFrame'
    BY <1>1, <1>2, <2>2 DEF OneFrame
  <2>5. StillOpen'
    BY <1>1, <1>3, <2>2 DEF Inv, StillOpen, Open
  <2> QED BY <2>3, <2>4, <2>5 DEF Inv
<1>6. CASE battery /\ sending # 0
  <2>1. /\ sending' = (sending + 1) % Width /\ callback' = callback /\ mac' = mac
        /\ reports' = Reported(reports, new, new[1], "ERR")
    BY <1>1, <1>6 DEF Send, CallbackAfter, Passes, Refused, new
  <2>2. /\ reports' \in [Frames -> Seq([to : Users \union {Nobody}, status : Statuses])]
        /\ \A g \in Frames \ {new} : reports'[g] = reports[g]
        /\ ReportedToSender' /\ SuccessIsTrue'
    <3>1. "ERR" \in Statuses /\ finished' \in [Frames -> SUBSET Statuses]
      BY <1>1 DEF Statuses, Inv, TypeOK
    <3> QED BY <1>1, <2>1, <3>1, ReportKeeps
  <2>3. sending' \in 0..(Width - 1) /\ (mac # <<>> => sending' # 0)
    <3>1. sending \in 0..(Width - 1) /\ (mac # <<>> => sending < Width - 1)
      BY DEF Inv, TypeOK, Send
    <3>2. sending < Width - 1 => sending' = sending + 1
      BY <2>1, <3>1, SMT
    <3>3. sending = Width - 1 => sending' = 0
      BY <2>1, <3>1, SMT
    <3> QED BY <3>1, <3>2, <3>3
  <2>4. TypeOK'
    BY <1>1, <1>2, <2>1, <2>2, <2>3 DEF Inv, TypeOK
  <2>5. OneFrame'
    <3>1. ASSUME mac # <<>> PROVE Head(mac)[2] <= sent'[Head(mac)[1]]
      <4>1. Head(mac) \in Frames /\ Head(mac)[2] <= sent[Head(mac)[1]]
        BY <3>1 DEF Inv, TypeOK, OneFrame
      <4>2. Head(mac)[1] \in Users /\ Head(mac)[2] \in Nat
        BY <4>1 DEF Frames
      <4> QED BY <1>2, <4>1, <4>2 DEF Inv, TypeOK
    <3> QED BY <2>1, <2>3, <3>1 DEF Inv, OneFrame
  <2>6. StillOpen'
    BY <1>1, <1>3, <2>1, <2>2 DEF Inv, StillOpen, Open
  <2> QED BY <2>2, <2>4, <2>5, <2>6 DEF Inv
<1> QED BY <1>4, <1>5, <1>6

\* A report of the MAC, with or without a callback to give it to
LEMMA ReportStep == ASSUME Inv, NEW status \in Statuses, MacReports(status) PROVE Inv'
<1> DEFINE f == Head(mac)
<1>1. /\ mac = <<f>> /\ f \in Frames /\ f[1] \in Users /\ f[2] \in Nat /\ f[2] <= sent[f[1]]
      /\ Tail(mac) = <<>>
      /\ sending # 0 /\ callback \in {Nobody, f[1]}
  <2>1. f \in Frames /\ mac = <<f>>
    BY DEF MacReports, Inv, TypeOK, OneFrame
  <2>2. f[1] \in Users /\ f[2] \in Nat
    BY <2>1 DEF Frames
  <2>3. Tail(mac) = <<>>
    <3>1. \A x : Tail(<<x>>) = <<>>
      OBVIOUS
    <3> QED BY <2>1, <3>1
  <2> QED BY <2>1, <2>2, <2>3 DEF MacReports, Inv, OneFrame
<1>2. /\ reports[f] = <<>> /\ finished[f] = {}
      /\ finished' = [finished EXCEPT ![f] = @ \union {status}] /\ battery' = battery
  BY <1>1 DEF Inv, StillOpen, Open, MacReports
<1> HIDE DEF f
<1>3. /\ finished' \in [Frames -> SUBSET Statuses] /\ finished'[f] = {status}
      /\ \A g \in Frames \ {f} : finished'[g] = finished[g]
  BY <1>1, <1>2 DEF Inv, TypeOK
\* Frames that are open after the report, if counts do not fall and another frame
\* in the MAC is a new one
<1>4. ASSUME NEW g \in Frames, g # f, g[2] > sent[g[1]] \/ mac = <<g>>
      PROVE  finished'[g] = {} /\ reports[g] = <<>>
  BY <1>1, <1>3, <1>4 DEF Inv, StillOpen, Open
<1>5. CASE callback = Nobody
  <2>1. mac' = <<>> /\ UNCHANGED <<sending, callback, sent, reports>>
    BY <1>1, <1>5 DEF MacReports
  <2>2. TypeOK'
    <3>1. mac' \in Seq(Frames)
      BY <2>1
    <3>2. /\ sending' \in 0..(Width - 1) /\ callback' \in Users \union {Nobody}
          /\ sent' \in [Users -> 0..MaxSends] /\ battery' \in BOOLEAN
          /\ reports' \in [Frames -> Seq([to : Users \union {Nobody}, status : Statuses])]
      BY <1>2, <2>1 DEF Inv, TypeOK
    <3> QED BY <1>3, <3>1, <3>2 DEF TypeOK
  <2>3. OneFrame'
    BY <1>5, <2>1 DEF OneFrame
  <2>4. StillOpen'
    <3> SUFFICES ASSUME NEW g \in Frames, g[2] > sent[g[1]] PROVE reports[g] = <<>> /\ finished'[g] = {}
      BY <2>1 DEF StillOpen, Open
    <3>1. sent[f[1]] \in Nat
      BY <1>1 DEF Inv, TypeOK
    <3>2. g # f
      BY <1>1, <3>1
    <3> QED BY <1>4, <3>2
  <2>5. ReportedToSender'
    BY <2>1 DEF Inv, ReportedToSender
  <2>6. SuccessIsTrue'
    <3> SUFFICES ASSUME NEW g \in Frames, NEW i \in DOMAIN reports[g], reports[g][i].status = "OK"
                 PROVE  finished'[g] = {"OK"}
      BY <2>1 DEF SuccessIsTrue
    <3>1. finished[g] = {"OK"}
      BY DEF Inv, SuccessIsTrue
    <3>2. g # f
      BY <1>2, <3>1
    <3> QED BY <1>3, <3>1, <3>2
  <2> QED BY <2>2, <2>3, <2>4, <2>5, <2>6 DEF Inv
<1>6. CASE callback # Nobody
  <2>1. callback = f[1] /\ callback' = Nobody
        /\ reports' = Reported(reports, f, f[1], StatusReported(status))
    BY <1>1, <1>6 DEF MacReports, f
  <2>2. /\ reports' \in [Frames -> Seq([to : Users \union {Nobody}, status : Statuses])]
        /\ \A g \in Frames \ {f} : reports'[g] = reports[g]
        /\ ReportedToSender' /\ SuccessIsTrue'
    <3>1. StatusReported(status) \in Statuses /\ (StatusReported(status) = "OK" => status = "OK")
      BY DEF StatusReported, Statuses
    <3> HIDE DEF f
    <3> QED BY <1>1, <1>2, <1>3, <2>1, <3>1, ReportKeeps
  <2>3. CASE Returns(callback)
    <3>1. sending' = 0 /\ mac' = <<>> /\ sent' = sent
      BY <1>1, <2>3 DEF Returns
    <3>2. TypeOK'
      <4>1. mac' \in Seq(Frames) /\ sent' \in [Users -> 0..MaxSends]
        BY <3>1 DEF Inv, TypeOK
      <4>2. sending' \in 0..(Width - 1) /\ callback' \in Users \union {Nobody}
        BY <2>1, <3>1
      <4>3. battery' \in BOOLEAN
        BY <1>2 DEF Inv, TypeOK
      <4> QED BY <1>3, <2>2, <4>1, <4>2, <4>3 DEF TypeOK
    <3>3. OneFrame'
      BY <2>1, <3>1 DEF OneFrame
    <3>4. StillOpen'
      <4> SUFFICES ASSUME NEW g \in Frames, g[2] > sent[g[1]] PROVE reports'[g] = <<>> /\ finished'[g] = {}
        BY <3>1 DEF StillOpen, Open
      <4>1. sent[f[1]] \in Nat
        BY <1>1 DEF Inv, TypeOK
      <4>2. g # f
        BY <1>1, <4>1
      <4> QED BY <1>4, <2>2, <4>2
    <3> QED BY <2>2, <3>2, <3>3, <3>4 DEF Inv
  <2>4. CASE SendsAgain(callback)
    <3> DEFINE who == f[1]
               new == NewFrame(who)
    <3>1. /\ who \in Users /\ sent[who] < MaxSends /\ sending' = 1
          /\ mac' = <<new>> /\ sent' = [sent EXCEPT ![who] = @ + 1]
      <4>1. Append(<<>>, new) = <<new>>
        OBVIOUS
      <4> QED BY <1>1, <2>1, <2>4, <4>1 DEF SendsAgain
    <3>2. /\ new \in Frames /\ new[1] = who /\ new[2] = sent[who] + 1
          /\ reports[new] = <<>> /\ finished[new] = {} /\ new # f
      BY <1>1, <3>1, NewFrameOpen
    <3> HIDE DEF new
    <3>3. /\ sent[who] \in 0..MaxSends /\ sent' \in [Users -> 0..MaxSends] /\ sent'[who] = sent[who] + 1
          /\ \A w \in Users \ {who} : sent'[w] = sent[w]
      BY <3>1 DEF Inv, TypeOK
    <3>4. TypeOK'
      <4>1. mac' \in Seq(Frames)
        BY <3>1, <3>2
      <4>2. sending' \in 0..(Width - 1) /\ callback' \in Users \union {Nobody}
        BY <2>1, <3>1
      <4>3. battery' \in BOOLEAN
        BY <1>2 DEF Inv, TypeOK
      <4> QED BY <1>3, <2>2, <3>3, <4>1, <4>2, <4>3 DEF TypeOK
    <3>5. OneFrame'
      BY <2>1, <3>1, <3>2, <3>3 DEF OneFrame
    <3>6. StillOpen'
      <4> SUFFICES ASSUME NEW g \in Frames, g[2] > sent'[g[1]] \/ g = new
                   PROVE  reports'[g] = <<>> /\ finished'[g] = {}
        BY <3>1 DEF StillOpen, Open
      <4>1. CASE g = new
        BY <1>3, <2>2, <3>2, <4>1
      <4>2. CASE g # new
        <5>1. g[1] \in Users /\ g[2] \in Nat
          BY DEF Frames
        <5>2. /\ sent[g[1]] \in Nat /\ sent[f[1]] \in Nat
              /\ sent'[g[1]] = sent[g[1]] \/ sent'[g[1]] = sent[g[1]] + 1
          <6>1. \A w \in Users : sent[w] \in Nat
            BY DEF Inv, TypeOK
          <6>2. g[1] = who \/ g[1] \in Users \ {who}
            BY <5>1
          <6> QED BY <1>1, <3>3, <5>1, <6>1, <6>2
        <5>3. g[2] > sent[g[1]] /\ g # f
          BY <1>1, <4>2, <5>1, <5>2
        <5> QED BY <1>4, <2>2, <5>3
      <4> QED BY <4>1, <4>2
    <3> QED BY <2>2, <3>4, <3>5, <3>6 DEF Inv
  <2>5. Returns(callback) \/ SendsAgain(callback)
    BY <1>6 DEF MacReports
  <2> QED BY <2>3, <2>4, <2>5
<1> QED BY <1>5, <1>6

\* Nothing is sent at first.
LEMMA InitInv == Init => Inv
<1> SUFFICES ASSUME Init PROVE Inv
  OBVIOUS
<1>1. TypeOK
  BY DEF Init, TypeOK
<1>2. OneFrame /\ StillOpen
  BY DEF Init, OneFrame, StillOpen
<1>3. ReportedToSender /\ SuccessIsTrue
  BY DEF Init, ReportedToSender, SuccessIsTrue
<1> QED BY <1>1, <1>2, <1>3 DEF Inv

\* Every step keeps the invariant, unless the count comes round.
LEMMA NextInv == ASSUME Inv, ~MayWrap, [Next]_vars PROVE Inv'
<1>1. ASSUME NEW u \in Users, Send(u) PROVE Inv'
  BY <1>1, SendStep
<1>2. ASSUME NEW status \in Statuses, MacReports(status) PROVE Inv'
  BY <1>2, ReportStep
<1>3. ASSUME UNCHANGED <<sending, callback, mac, sent, finished, reports>>, battery' \in BOOLEAN PROVE Inv'
  <2>1. TypeOK'
    BY <1>3 DEF Inv, TypeOK
  <2>2. OneFrame' /\ StillOpen'
    BY <1>3 DEF Inv, OneFrame, StillOpen, Open
  <2>3. ReportedToSender' /\ SuccessIsTrue'
    BY <1>3 DEF Inv, ReportedToSender, SuccessIsTrue
  <2> QED BY <2>1, <2>2, <2>3 DEF Inv
<1>4. CASE BatteryEmpty
  BY <1>3, <1>4 DEF BatteryEmpty
<1>5. CASE UNCHANGED vars
  BY <1>3, <1>5 DEF vars, Inv, TypeOK
<1> QED BY <1>1, <1>2, <1>4, <1>5 DEF Next

-----------------------------------------------------------------------------
\* Whatever two or more stacks send meanwhile, and even if callbacks send again, a
\* frame is reported to who sent it, at most once, and as delivered only if the MAC
\* delivered it (protocol-commutator.c: send, llsec_sent).
THEOREM ReportsStayTrue == ASSUME ~MayWrap PROVE Spec => []ReportsTrue
<1>1. Init => Inv
  BY InitInv
<1>2. Inv /\ [Next]_vars => Inv'
  BY NextInv
<1>3. Inv => ReportsTrue
  BY DEF Inv, ReportsTrue
<1> QED BY <1>1, <1>2, <1>3, PTL DEF Spec

\* If no callback sends, the count is zero when the MAC is free, and the callback is
\* there when it is not.
Counted ==
    /\ mac = <<>> => sending = 0
    /\ mac # <<>> => callback # Nobody

\* Every step keeps that, if no callback sends.
LEMMA CountedStep == ASSUME Inv, Counted, ~MayWrap, Nesting = {}, [Next]_vars PROVE Counted'
<1>1. ASSUME NEW u \in Users, Send(u) PROVE Counted'
  <2>1. CASE mac = <<>>
    <3>1. sending = 0
      BY <2>1 DEF Counted
    <3>2. \/ UNCHANGED <<sending, callback, mac>>
          \/ callback' = u /\ mac' = <<NewFrame(u)>>
      BY <1>1, <2>1, <3>1 DEF Send, CallbackAfter, Passes
    <3> QED BY <3>2 DEF Counted
  <2>2. CASE mac # <<>>
    <3>1. mac' = mac /\ callback' = callback
      BY <1>1, <2>2 DEF Inv, OneFrame, Send, CallbackAfter, Passes
    <3> QED BY <2>2, <3>1 DEF Counted
  <2> QED BY <2>1, <2>2
<1>2. ASSUME NEW status \in Statuses, MacReports(status) PROVE Counted'
  <2>1. mac # <<>> /\ callback # Nobody /\ Returns(callback)
    BY <1>2 DEF MacReports, Counted, SendsAgain
  <2>2. mac' = <<>>
    <3>1. \A x : Tail(<<x>>) = <<>>
      OBVIOUS
    <3> QED BY <2>1, <3>1 DEF Returns, Inv, OneFrame
  <2> QED BY <2>1, <2>2 DEF Returns, Counted
<1>3. ASSUME UNCHANGED <<sending, callback, mac>> PROVE Counted'
  BY <1>3 DEF Counted
<1> QED BY <1>1, <1>2, <1>3 DEF Next, BatteryEmpty, vars

\* With callbacks that only return, the count says whether the MAC has a frame, and
\* the callback that is kept is that of the frame: no send is lost.
THEOREM CountIsTrue == ASSUME ~MayWrap, Nesting = {} PROVE Spec => []OneUnderWay
<1>1. Init => Inv /\ Counted
  BY InitInv DEF Init, Counted
<1>2. Inv /\ Counted /\ [Next]_vars => Inv' /\ Counted'
  BY NextInv, CountedStep
<1>3. Inv /\ Counted => OneUnderWay
  <2> SUFFICES ASSUME Inv, Counted PROVE OneUnderWay
    OBVIOUS
  <2>1. mac = <<>> <=> sending = 0
    BY DEF Inv, OneFrame, Counted
  <2>2. mac = <<>> <=> callback = Nobody
    BY DEF Inv, OneFrame, Counted
  <2>3. mac # <<>> => callback = Head(mac)[1]
    BY DEF Inv, OneFrame, Counted
  <2>4. Len(mac) <= 1
    <3>1. CASE mac = <<>>
      BY <3>1
    <3>2. ASSUME NEW x, mac = <<x>> PROVE Len(mac) <= 1
      BY <3>2
    <3> QED BY <3>1, <3>2 DEF Inv, OneFrame
  <2> QED BY <2>1, <2>2, <2>3, <2>4 DEF OneUnderWay
<1> QED BY <1>1, <1>2, <1>3, PTL DEF Spec
=============================================================================
