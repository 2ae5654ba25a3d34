---------------------------- MODULE GraphProofs ----------------------------
(***************************************************************************)
(* The graph library and the route search, for any nodes and any graph:    *)
(* what each operation makes of a graph, and what a search finds.          *)
(***************************************************************************)
EXTENDS DijkstraOps, ReportOps, FiniteSetTheorems, WellFoundedInduction, TLAPS

-----------------------------------------------------------------------------
(* Numbers and lists *)

\* What holds of zero, and of a number if it holds of the one before, holds up to m.
LEMMA CountUp ==
    ASSUME NEW m \in Nat, NEW G, 0 \in G, \A k \in 1..m : k - 1 \in G => k \in G
    PROVE  \A k \in 0..m : k \in G
<1> DEFINE Bad == {k \in 0..m : k \notin G}
           R == {ss \in Nat \X Nat : ss[1] < ss[2]}
<1> SUFFICES ASSUME Bad # {} PROVE FALSE
  OBVIOUS
<1>1. IsWellFoundedOn(R, Nat)
  BY NatLessThanWellFounded DEF OpToRel
<1> HIDE DEF R
<1>2. Bad \subseteq Nat
  OBVIOUS
<1> HIDE DEF Bad
<1>3. PICK k \in Bad : \A j \in Bad : ~(<<j, k>> \in R)
  BY <1>1, <1>2, WFMin, Zenon
<1>4. k \in 1..m
  BY DEF Bad
<1>5. k - 1 \in 0..m /\ k - 1 < k /\ k \in Nat /\ k - 1 \in Nat
  BY <1>4
<1>6. <<k - 1, k>> \in R
  BY <1>5 DEF R
<1>7. k - 1 \notin Bad
  BY <1>3, <1>6
<1>8. k - 1 \in G
  BY <1>5, <1>7 DEF Bad
<1> QED BY <1>4, <1>8 DEF Bad

\* g goes from b on, from each number to the next, by the steps f
Steps(m, S, b, f, g) ==
    /\ g \in [0..m -> S] /\ g[0] = b
    /\ \A i \in 1..m : g[i] = f[i][g[i - 1]]

\* A function that is defined from each number to the next is there, and stays in a
\* set that the steps stay in.
LEMMA StepsExist ==
    ASSUME NEW m \in Nat, NEW S, NEW b \in S, NEW f \in [1..m -> [S -> S]]
    PROVE  \E g : Steps(m, S, b, f, g)
<1> DEFINE Upto(n, g) == g[0] = b /\ \A i \in 1..n : g[i] = f[i][g[i - 1]]
           G == {n \in 0..m : \E g \in [0..n -> S] : Upto(n, g)}
<1>1. 0 \in G
  <2> DEFINE g == [i \in 0..0 |-> b]
  <2>1. g \in [0..0 -> S] /\ Upto(0, g)
    OBVIOUS
  <2> HIDE DEF g, Upto
  <2> QED BY <2>1
<1>2. ASSUME NEW n \in 1..m, n - 1 \in G PROVE n \in G
  <2>1. PICK g \in [0..(n - 1) -> S] : Upto(n - 1, g)
    BY <1>2
  <2>2. n \in Nat /\ n - 1 \in Nat /\ n - 1 < n /\ n - 1 \in 0..(n - 1)
    OBVIOUS
  <2>3. PICK y : y = f[n][g[n - 1]]
    OBVIOUS
  <2>4. y \in S
    <3>1. f[n] \in [S -> S] /\ g[n - 1] \in S
      BY <2>2
    <3> QED BY <2>3, <3>1
  <2> DEFINE h == [i \in 0..n |-> IF i = n THEN y ELSE g[i]]
  <2>5. h \in [0..n -> S]
    <3>1. ASSUME NEW i \in 0..n PROVE (IF i = n THEN y ELSE g[i]) \in S
      BY <2>2, <2>4
    <3> QED BY <3>1
  <2>6. h[0] = b
    BY <2>1, <2>2
  <2>7. ASSUME NEW i \in 1..n PROVE h[i] = f[i][h[i - 1]]
    <3>1. h[i - 1] = g[i - 1]
      BY <2>2
    <3>2. CASE i = n
      <4>1. h[i] = y
        BY <2>2, <3>2
      <4> HIDE DEF h
      <4> QED BY <2>3, <3>1, <3>2, <4>1
    <3>3. CASE i # n
      <4>1. i \in 1..(n - 1) /\ h[i] = g[i]
        BY <2>2, <3>3
      <4> QED BY <2>1, <3>1, <4>1
    <3> QED BY <3>2, <3>3
  <2> HIDE DEF h
  <2>8. Upto(n, h)
    BY <2>6, <2>7
  <2> HIDE DEF Upto
  <2> QED BY <2>5, <2>8
<1>3. m \in G
  <2> HIDE DEF G
  <2>1. \A n \in 0..m : n \in G
    BY <1>1, <1>2, CountUp
  <2> QED BY <2>1
<1> QED BY <1>3 DEF Steps

\* A set of numbers has a least one.
LEMMA LeastOf ==
    ASSUME NEW S \in SUBSET Nat, S # {}
    PROVE  \E k \in S : \A j \in S : k <= j
<1> DEFINE R == {ss \in Nat \X Nat : ss[1] < ss[2]}
<1>1. IsWellFoundedOn(R, Nat)
  BY NatLessThanWellFounded DEF OpToRel
<1> HIDE DEF R
<1>2. PICK k \in S : \A j \in S : ~(<<j, k>> \in R)
  BY <1>1, WFMin, Zenon
<1>3. \A j \in S : <<j, k>> \in R <=> j < k
  BY DEF R
<1>4. ASSUME NEW j \in S PROVE k <= j
  <2>1. ~(j < k) /\ j \in Nat /\ k \in Nat
    BY <1>2, <1>3
  <2> QED BY <2>1
<1> QED BY <1>4

\* A list that has those of l at the places in P, each once
ComesFrom(S, l, P, a) ==
    /\ a \in Seq(S)
    /\ \E f \in Bijection(1..Len(a), P) : \A k \in 1..Len(a) : a[k] = l[f[k]]

\* What a list has at some places is one.
LEMMA AmongIs ==
    ASSUME NEW S, NEW l \in Seq(S), NEW P \in SUBSET DOMAIN l,
           NEW a, a = Among(l, P)
    PROVE  ComesFrom(S, l, P, a)
<1> DEFINE m == Len(l)
           Step(g, i) == IF i \in P THEN Append(g, l[i]) ELSE g
           Rec(g) == g = [i \in 0..m |-> IF i = 0 THEN <<>> ELSE Step(g[i - 1], i)]
<1>1. m \in Nat /\ DOMAIN l = 1..m /\ \A i \in 1..m : l[i] \in S
  OBVIOUS
<1>2. PICK empty : empty = <<>>
  OBVIOUS
<1>3. empty \in Seq(S) /\ Len(empty) = 0
  BY <1>2
<1>4. PICK g : /\ a = g[m] /\ g[0] = empty
               /\ \A i \in 1..m : g[i] = Step(g[i - 1], i)
  <2> DEFINE f == [i \in 1..m |-> [s \in Seq(S) |-> Step(s, i)]]
  <2>1. f \in [1..m -> [Seq(S) -> Seq(S)]]
    <3>1. ASSUME NEW s \in Seq(S), NEW i \in 1..m PROVE Step(s, i) \in Seq(S)
      BY <1>1
    <3> HIDE DEF Step, m
    <3> QED BY <3>1
  <2>2. PICK g \in [0..m -> Seq(S)] : g[0] = empty /\ \A i \in 1..m : g[i] = f[i][g[i - 1]]
    <3> DEFINE X == Seq(S)
    <3>1. m \in Nat /\ empty \in X /\ f \in [1..m -> [X -> X]]
      BY <1>1, <1>3, <2>1
    <3> HIDE DEF f, m, X
    <3>2. \E g : Steps(m, X, empty, f, g)
      BY <3>1, StepsExist
    <3> QED BY <3>2 DEF X, Steps
  <2>3. Rec(g)
    <3>1. ASSUME NEW i \in 0..m PROVE g[i] = IF i = 0 THEN <<>> ELSE Step(g[i - 1], i)
      <4>1. CASE i = 0
        BY <1>2, <2>2, <4>1
      <4>2. CASE i # 0
        <5>1. i \in 1..m /\ i - 1 \in 0..m
          BY <1>1, <4>2
        <5>2. g[i] = f[i][g[i - 1]] /\ g[i - 1] \in Seq(S)
          BY <2>2, <5>1
        <5> HIDE DEF Step
        <5> QED BY <4>2, <5>2
      <4> QED BY <4>1, <4>2
    <3> HIDE DEF Step
    <3> QED BY <2>2, <3>1
  <2> DEFINE h == CHOOSE h : Rec(h)
  <2>4. a = h[m]
    BY DEF Among
  <2>5. Rec(h)
    <3> HIDE DEF Rec
    <3> QED BY <2>3
  <2> HIDE DEF h
  <2>6. \A i \in 0..m : h[i] = IF i = 0 THEN <<>> ELSE Step(h[i - 1], i)
    <3> HIDE DEF Step
    <3> QED BY <2>5
  <2>7. h[0] = empty /\ \A i \in 1..m : h[i] = Step(h[i - 1], i)
    <3>1. 0 \in 0..m /\ \A i \in 1..m : i \in 0..m /\ i # 0
      BY <1>1
    <3> HIDE DEF Step
    <3> QED BY <1>2, <2>6, <3>1
  <2> QED BY <2>4, <2>7
<1> DEFINE From(s, i) == /\ s \in Seq(S)
                         /\ \E f \in Bijection(1..Len(s), P \intersect (1..i)) :
                               \A k \in 1..Len(s) : s[k] = l[f[k]]
<1>5. From(empty, 0)
  <2>1. PICK f : f = [k \in 1..Len(empty) |-> 0]
    OBVIOUS
  <2>2. 1..Len(empty) = {} /\ P \intersect (1..0) = {}
    BY <1>3
  <2>3. f \in Bijection(1..Len(empty), P \intersect (1..0))
    BY <2>1, <2>2 DEF Bijection, Injection, Surjection, IsInjective
  <2> QED BY <1>3, <2>2, <2>3
<1>6. ASSUME NEW i \in 1..m, From(g[i - 1], i - 1) PROVE From(g[i], i)
  <2>1. PICK s, t : s = g[i - 1] /\ t = g[i]
    OBVIOUS
  <2>2. i \in Nat /\ i - 1 \in Nat /\ s \in Seq(S) /\ Len(s) \in Nat
    BY <1>1, <1>6, <2>1
  <2>3. t = Step(s, i)
    BY <1>4, <2>1
  <2>4. PICK f \in Bijection(1..Len(s), P \intersect (1..(i - 1))) :
           \A k \in 1..Len(s) : s[k] = l[f[k]]
    BY <1>6, <2>1
  <2>5. CASE i \notin P
    <3>1. P \intersect (1..i) = P \intersect (1..(i - 1)) /\ t = s
      BY <2>2, <2>3, <2>5
    <3>2. From(t, i)
      BY <2>2, <2>4, <3>1
    <3> QED BY <2>1, <3>2
  <2>6. CASE i \in P
    <3>1. /\ t \in Seq(S) /\ Len(t) = Len(s) + 1
          /\ \A k \in 1..Len(t) : t[k] = IF k = Len(s) + 1 THEN l[i] ELSE s[k]
      BY <1>1, <2>2, <2>3, <2>6
    <3> DEFINE h == [k \in 1..Len(t) |-> IF k = Len(s) + 1 THEN i ELSE f[k]]
    <3>2. /\ P \intersect (1..i) = (P \intersect (1..(i - 1))) \union {i}
          /\ i \notin P \intersect (1..(i - 1))
      BY <2>2, <2>6
    <3>3. 1..Len(t) = (1..Len(s)) \union {Len(s) + 1} /\ Len(s) + 1 \notin 1..Len(s)
      BY <2>2, <3>1
    <3>4. /\ f \in [1..Len(s) -> P \intersect (1..(i - 1))]
          /\ \A j, k \in 1..Len(s) : f[j] = f[k] => j = k
          /\ \A p \in P \intersect (1..(i - 1)) : \E k \in 1..Len(s) : f[k] = p
      BY <2>4 DEF Bijection, Injection, Surjection, IsInjective
    <3>5. h \in Bijection(1..Len(t), P \intersect (1..i))
      <4>1. h \in [1..Len(t) -> P \intersect (1..i)]
        BY <3>2, <3>3, <3>4
      <4>2. ASSUME NEW j \in 1..Len(t), NEW k \in 1..Len(t), h[j] = h[k] PROVE j = k
        BY <3>2, <3>3, <3>4, <4>2
      <4>3. ASSUME NEW p \in P \intersect (1..i) PROVE \E k \in 1..Len(t) : h[k] = p
        <5>1. CASE p = i
          <6>1. Len(s) + 1 \in 1..Len(t) /\ h[Len(s) + 1] = i
            BY <3>3
          <6> QED BY <5>1, <6>1
        <5>2. CASE p # i
          <6>1. PICK k \in 1..Len(s) : f[k] = p
            BY <3>2, <3>4, <5>2
          <6>2. k \in 1..Len(t) /\ h[k] = p
            BY <3>3, <6>1
          <6> QED BY <6>2
        <5> QED BY <5>1, <5>2
      <4> HIDE DEF h
      <4> QED BY <4>1, <4>2, <4>3 DEF Bijection, Injection, Surjection, IsInjective
    <3>6. \A k \in 1..Len(t) : t[k] = l[h[k]]
      BY <2>4, <3>1, <3>3
    <3> HIDE DEF h
    <3>7. From(t, i)
      BY <3>1, <3>5, <3>6
    <3> QED BY <2>1, <3>7
  <2> QED BY <2>5, <2>6
<1>7. From(g[m], m)
  <2> HIDE DEF From, m
  <2> DEFINE G == {i \in 0..m : From(g[i], i)}
  <2>1. 0 \in G /\ \A i \in 1..m : i - 1 \in G => i \in G
    BY <1>1, <1>4, <1>5, <1>6
  <2>2. \A i \in 0..m : i \in G
    <3> HIDE DEF G
    <3> QED BY <1>1, <2>1, CountUp
  <2> QED BY <1>1, <2>2
<1>8. From(a, m)
  <2> HIDE DEF From
  <2> QED BY <1>4, <1>7
<1>9. P \intersect (1..m) = P
  BY <1>1
<1> QED BY <1>8, <1>9 DEF ComesFrom

\* Of l, what is at the places in P, each once
Thinned(S, l, P, a) ==
    /\ a \in Seq(S)
    /\ \A k \in 1..Len(a) : \E p \in P : a[k] = l[p]
    /\ \A p \in P : \E k \in 1..Len(a) : a[k] = l[p]
    /\ \A j, k \in 1..Len(a) : j # k => \E p, q \in P : p # q /\ a[j] = l[p] /\ a[k] = l[q]

\* Without the entries that go, the others stay, each once.
LEMMA AmongHas ==
    ASSUME NEW S, NEW l \in Seq(S), NEW P \in SUBSET (1..Len(l)), NEW a, a = Among(l, P)
    PROVE  Thinned(S, l, P, a)
<1>1. DOMAIN l = 1..Len(l) /\ P \in SUBSET DOMAIN l
  OBVIOUS
<1>2. a \in Seq(S) /\ \E f \in Bijection(1..Len(a), P) : \A k \in 1..Len(a) : a[k] = l[f[k]]
  BY <1>1, AmongIs DEF ComesFrom
<1>3. PICK f \in Bijection(1..Len(a), P) : \A k \in 1..Len(a) : a[k] = l[f[k]]
  BY <1>2
<1>4. /\ f \in [1..Len(a) -> P]
      /\ \A j, k \in 1..Len(a) : f[j] = f[k] => j = k
      /\ \A p \in P : \E k \in 1..Len(a) : f[k] = p
  BY <1>3 DEF Bijection, Injection, Surjection, IsInjective
<1>5. ASSUME NEW k \in 1..Len(a) PROVE \E p \in P : a[k] = l[p]
  BY <1>3, <1>4
<1>6. ASSUME NEW p \in P PROVE \E k \in 1..Len(a) : a[k] = l[p]
  BY <1>3, <1>4
<1>7. ASSUME NEW j \in 1..Len(a), NEW k \in 1..Len(a), j # k
      PROVE  \E p, q \in P : p # q /\ a[j] = l[p] /\ a[k] = l[q]
  <2>1. f[j] \in P /\ f[k] \in P /\ f[j] # f[k]
    BY <1>4, <1>7
  <2> QED BY <1>3, <2>1
<1> QED BY <1>2, <1>5, <1>6, <1>7 DEF Thinned

\* What g is after a walk that makes the same steps as h
LEMMA SameSteps ==
    ASSUME NEW m \in Nat, NEW g, NEW h, g[0] = h[0], \A i \in 1..m : g[i - 1] = h[i - 1] => g[i] = h[i]
    PROVE  g[m] = h[m]
<1> DEFINE Q == {i \in 0..m : g[i] = h[i]}
<1>1. 0 \in Q /\ \A i \in 1..m : i - 1 \in Q => i \in Q
  OBVIOUS
<1>2. \A i \in 0..m : i \in Q
  <2> HIDE DEF Q
  <2> QED BY <1>1, CountUp
<1>3. m \in 0..m
  OBVIOUS
<1> QED BY <1>2, <1>3

\* A function like that which a recursive definition asks for is there, in a set
\* its steps stay in.
LEMMA WalkExists ==
    ASSUME NEW m \in Nat, NEW S, NEW b \in S, NEW f \in [1..m -> [S -> S]]
    PROVE  \E g \in [0..m -> S] : /\ g[0] = b
                                  /\ \A i \in 1..m : g[i] = f[i][g[i - 1]]
                                  /\ g = [i \in 0..m |-> IF i = 0 THEN b ELSE f[i][g[i - 1]]]
<1>1. PICK g : Steps(m, S, b, f, g)
  BY StepsExist
<1>2. g \in [0..m -> S] /\ g[0] = b /\ \A i \in 1..m : g[i] = f[i][g[i - 1]]
  BY <1>1 DEF Steps
<1>3. ASSUME NEW i \in 0..m PROVE g[i] = IF i = 0 THEN b ELSE f[i][g[i - 1]]
  <2>1. i = 0 \/ i \in 1..m
    OBVIOUS
  <2> QED BY <1>2, <2>1
<1>4. g = [i \in 0..m |-> g[i]]
  BY <1>2
<1>5. g = [i \in 0..m |-> IF i = 0 THEN b ELSE f[i][g[i - 1]]]
  BY <1>3, <1>4
<1> QED BY <1>2, <1>5

\* A part of a list
LEMMA SliceIs ==
    ASSUME NEW S, NEW l \in Seq(S), NEW p \in Nat \ {0}, NEW q \in Nat, p <= q + 1, q <= Len(l),
           NEW r, r = SubSeq(l, p, q)
    PROVE  /\ r \in Seq(S) /\ Len(r) = q + 1 - p
           /\ \A i \in 1..Len(r) : r[i] = l[p + i - 1]
<1>1. Len(l) \in Nat
  OBVIOUS
<1>2. CASE p = q + 1
  <2>1. r = <<>>
    BY <1>1, <1>2
  <2>2. Len(r) = 0 /\ r \in Seq(S)
    BY <2>1
  <2> QED BY <1>2, <2>2
<1>3. CASE p <= q
  <2>1. r \in Seq(S) /\ Len(r) = q + 1 - p
    BY <1>1, <1>3
  <2>2. \A i \in 1..(q + 1 - p) : r[i] = l[p + i - 1]
    BY <1>1, <1>3
  <2> QED BY <2>1, <2>2
<1> QED BY <1>2, <1>3

-----------------------------------------------------------------------------
(* The graph: lists of edges *)

Edges(M) == [to : Nodes, etx : M, weight : 1..MaxWeight, status : EdgeStatuses]

\* The edges of a list
Held(l) == {l[i] : i \in 1..Len(l)}

\* A list of edges, one to each vertex it leads to
EdgeList(M, l) ==
    /\ l \in Seq(Edges(M))
    /\ \A i, j \in 1..Len(l) : l[i].to = l[j].to => i = j

\* The edges of a list may change where they stand, but for where they lead to.
LEMMA Edited ==
    ASSUME NEW M, NEW l, EdgeList(M, l), NEW h, h = [i \in 1..Len(l) |-> h[i]],
           \A i \in 1..Len(l) : h[i] \in Edges(M) /\ h[i].to = l[i].to
    PROVE  EdgeList(M, h) /\ Len(h) = Len(l)
<1> DEFINE T == Edges(M)
<1>1. l \in Seq(T) /\ Len(l) \in Nat /\ \A i, j \in 1..Len(l) : l[i].to = l[j].to => i = j
  BY DEF EdgeList
<1>2. \A i \in 1..Len(l) : h[i] \in T
  OBVIOUS
<1> HIDE DEF T
<1>3. h \in Seq(T) /\ Len(h) = Len(l)
  BY <1>1, <1>2
<1> QED BY <1>1, <1>3 DEF EdgeList, T

\* A new edge goes behind the header.
LEMMA Joined ==
    ASSUME NEW M, NEW l, EdgeList(M, l), NEW e \in Edges(M), \A x \in Held(l) : x.to # e.to,
           NEW h, h = Behind(l, e)
    PROVE  EdgeList(M, h) /\ Held(h) = Held(l) \union {e}
<1> DEFINE T == Edges(M)
<1>1. l \in Seq(T) /\ Len(l) \in Nat /\ \A i, j \in 1..Len(l) : l[i].to = l[j].to => i = j
  BY DEF EdgeList
<1>2. e \in T /\ \A i \in 1..Len(l) : l[i].to # e.to
  BY DEF Held
<1> HIDE DEF T
<1>3. CASE l = <<>>
  <2>1. h = <<e>> /\ Len(h) = 1 /\ h[1] = e /\ Len(l) = 0
    BY <1>3 DEF Behind
  <2>2. h \in Seq(T) /\ \A i, j \in 1..Len(h) : h[i].to = h[j].to => i = j
    BY <1>2, <2>1
  <2>3. 1..Len(h) = {1} /\ 1..Len(l) = {}
    BY <2>1
  <2>4. Held(h) = Held(l) \union {e}
    BY <2>1, <2>3 DEF Held
  <2> QED BY <2>2, <2>4 DEF EdgeList, T
<1>4. CASE l # <<>>
  <2>1. h = <<Head(l), e>> \o Tail(l) /\ Len(l) \in Nat \ {0}
    BY <1>1, <1>4 DEF Behind
  <2>2. PICK a, b : a = <<Head(l), e>> /\ b = Tail(l)
    OBVIOUS
  <2>3. /\ a \in Seq(T) /\ Len(a) = 2 /\ a[1] = l[1] /\ a[2] = e
        /\ b \in Seq(T) /\ Len(b) = Len(l) - 1 /\ \A i \in 1..Len(b) : b[i] = l[i + 1]
    BY <1>1, <1>2, <2>1, <2>2
  <2>4. /\ h \in Seq(T) /\ Len(h) = Len(l) + 1
        /\ \A i \in 1..Len(h) : h[i] = IF i = 1 THEN l[1] ELSE IF i = 2 THEN e ELSE l[i - 1]
    BY <2>1, <2>2, <2>3
  <2>5. ASSUME NEW i \in 1..Len(h), NEW j \in 1..Len(h), h[i].to = h[j].to PROVE i = j
    <3> DEFINE at(k) == IF k = 1 THEN 1 ELSE k - 1
    <3>1. \A k \in 1..Len(h) : k # 2 => at(k) \in 1..Len(l) /\ h[k] = l[at(k)]
      BY <2>1, <2>4
    <3> HIDE DEF at
    <3>4. 2 \in 1..Len(h) /\ h[2] = e
      BY <2>1, <2>4
    <3>2. CASE i = 2 \/ j = 2
      <4>1. \A k \in 1..Len(h) : k # 2 => h[k].to # e.to
        BY <1>2, <3>1
      <4> QED BY <2>5, <3>2, <3>4, <4>1
    <3>3. CASE i # 2 /\ j # 2
      <4>1. at(i) = at(j)
        BY <1>1, <2>5, <3>1, <3>3
      <4> QED BY <2>4, <3>3, <4>1 DEF at
    <3> QED BY <3>2, <3>3
  <2>6. Held(h) = Held(l) \union {e}
    <3>1. ASSUME NEW i \in 1..Len(h) PROVE h[i] = e \/ \E j \in 1..Len(l) : h[i] = l[j]
      <4>1. i = 1 \/ i = 2 \/ i - 1 \in 1..Len(l)
        BY <2>1, <2>4
      <4> QED BY <2>1, <2>4, <4>1
    <3>2. ASSUME NEW j \in 1..Len(l) PROVE \E i \in 1..Len(h) : h[i] = l[j]
      <4>1. CASE j = 1
        BY <2>1, <2>4, <4>1
      <4>2. CASE j # 1
        <5>1. j + 1 \in 1..Len(h) /\ j + 1 # 1 /\ j + 1 # 2 /\ (j + 1) - 1 = j
          BY <2>1, <2>4, <4>2
        <5>2. h[j + 1] = l[j]
          BY <2>4, <5>1
        <5> QED BY <5>1, <5>2
      <4> QED BY <4>1, <4>2
    <3>3. 2 \in 1..Len(h) /\ h[2] = e
      BY <2>1, <2>4
    <3>4. Held(h) \subseteq Held(l) \union {e}
      <4> SUFFICES ASSUME NEW i \in 1..Len(h) PROVE h[i] = e \/ \E j \in 1..Len(l) : h[i] = l[j]
        BY DEF Held
      <4> QED BY <3>1
    <3>5. Held(l) \union {e} \subseteq Held(h)
      BY <3>2, <3>3 DEF Held
    <3> QED BY <3>4, <3>5
  <2> QED BY <2>4, <2>5, <2>6 DEF EdgeList, T
<1> QED BY <1>3, <1>4

\* Edges may go.
LEMMA Left ==
    ASSUME NEW M, NEW l, EdgeList(M, l), NEW P \in SUBSET (1..Len(l)), NEW h, h = Among(l, P)
    PROVE  EdgeList(M, h) /\ Held(h) = {l[i] : i \in P}
<1> DEFINE T == Edges(M)
<1>1. l \in Seq(T) /\ Len(l) \in Nat /\ \A i, j \in 1..Len(l) : l[i].to = l[j].to => i = j
  BY DEF EdgeList
<1> HIDE DEF T
<1>2. /\ h \in Seq(T)
      /\ \A k \in 1..Len(h) : \E p \in P : h[k] = l[p]
      /\ \A p \in P : \E k \in 1..Len(h) : h[k] = l[p]
      /\ \A j, k \in 1..Len(h) : j # k => \E p, q \in P : p # q /\ h[j] = l[p] /\ h[k] = l[q]
  <2>1. l \in Seq(T) /\ P \in SUBSET (1..Len(l)) /\ h = Among(l, P)
    BY <1>1
  <2>2. Thinned(T, l, P, h)
    BY <2>1, AmongHas
  <2> QED BY <2>2 DEF Thinned
<1>3. ASSUME NEW j \in 1..Len(h), NEW k \in 1..Len(h), h[j].to = h[k].to PROVE j = k
  <2> SUFFICES ASSUME j # k PROVE FALSE
    OBVIOUS
  <2>1. PICK p \in P, q \in P : p # q /\ h[j] = l[p] /\ h[k] = l[q]
    BY <1>2
  <2> QED BY <1>1, <1>3, <2>1
<1>4. Held(h) = {l[i] : i \in P}
  <2>1. ASSUME NEW x \in Held(h) PROVE \E p \in P : x = l[p]
    <3>1. PICK k \in 1..Len(h) : x = h[k]
      BY DEF Held
    <3> QED BY <1>2, <3>1
  <2>2. \A p \in P : l[p] \in Held(h)
    BY <1>2 DEF Held
  <2> QED BY <2>1, <2>2
<1> QED BY <1>2, <1>3, <1>4 DEF EdgeList, T

\* Dropping a list is leaving the others.
LEMMA Emptied ==
    ASSUME NEW M PROVE EdgeList(M, <<>>) /\ Held(<<>>) = {}
<1>1. PICK l : l = <<>>
  OBVIOUS
<1>2. l \in Seq(Edges(M)) /\ Len(l) = 0 /\ 1..Len(l) = {}
  BY <1>1
<1>3. EdgeList(M, l) /\ Held(l) = {}
  BY <1>2 DEF EdgeList, Held
<1> QED BY <1>1, <1>3

-----------------------------------------------------------------------------
(* The graph: what its operations make of it *)

\* Edges from x that join vertices in V
JoinsAt(M, V, x, l) ==
    EdgeList(M, l) /\ \A e \in Held(l) : x \in V /\ e.to \in V \ {x}

Joins(M, V, o) == o = [n \in Nodes |-> o[n]] /\ \A n \in Nodes : JoinsAt(M, V, n, o[n])

\* A graph whose edges hold metrics of M, and whose vertices energies of E
Good(M, E, g) ==
    /\ g \in [order : Seq(Nodes), energy : [Nodes -> E], out : [Nodes -> Seq(Edges(M))]]
    /\ Unrepeated(g.order)
    /\ \A n \in Nodes : JoinsAt(M, Vertices(g), n, g.out[n])

\* Only the edges are others.
Kept(M, E, g, h) == Good(M, E, h) /\ Vertices(h) = Vertices(g) /\ h.energy = g.energy

Limits(M, E) == M \subseteq 0..MaxEtx /\ E \subseteq 0..MaxBattery /\ MaxBattery \in E

\* g with other lists of edges, and with one other list
WithOut(g, o) == [g EXCEPT !.out = o]
WithOne(g, x, l) == [g EXCEPT !.out[x] = l]

\* Edges between vertices may come and go.
LEMMA OutKept ==
    ASSUME NEW M, NEW E, NEW g, Good(M, E, g), NEW o, Joins(M, Vertices(g), o),
           NEW h, h = WithOut(g, o)
    PROVE  Kept(M, E, g, h) /\ h.out = o
<1> DEFINE T == Seq(Edges(M))
<1>1. g \in [order : Seq(Nodes), energy : [Nodes -> E], out : [Nodes -> T]] /\ Unrepeated(g.order)
  BY DEF Good
<1>2. o = [n \in Nodes |-> o[n]] /\ \A n \in Nodes : o[n] \in T
  BY DEF Joins, JoinsAt, EdgeList
<1> HIDE DEF T
<1>3. o \in [Nodes -> T]
  BY <1>2
<1>4. /\ h \in [order : Seq(Nodes), energy : [Nodes -> E], out : [Nodes -> T]]
      /\ h.order = g.order /\ h.energy = g.energy /\ h.out = o
  BY <1>1, <1>3 DEF WithOut
<1>5. Vertices(h) = Vertices(g)
  BY <1>4 DEF Vertices
<1> QED BY <1>1, <1>4, <1>5 DEF Good, Kept, Joins, T

\* The edges from x are those of l.
OneOut(M, E, g, h, x, l) ==
    Kept(M, E, g, h) /\ h.out[x] = l /\ \A z \in Nodes : z # x => h.out[z] = g.out[z]

\* Those of one vertex may.
LEMMA OneOutKept ==
    ASSUME NEW M, NEW E, NEW g, Good(M, E, g), NEW x \in Nodes,
           NEW l, JoinsAt(M, Vertices(g), x, l), NEW h, h = WithOne(g, x, l)
    PROVE  OneOut(M, E, g, h, x, l)
<1> DEFINE T == Seq(Edges(M))
<1>1. g \in [order : Seq(Nodes), energy : [Nodes -> E], out : [Nodes -> T]]
  BY DEF Good
<1> HIDE DEF T
<1>2. PICK o : o = [n \in Nodes |-> IF n = x THEN l ELSE g.out[n]]
  OBVIOUS
<1>3. o[x] = l /\ \A z \in Nodes : z # x => o[z] = g.out[z]
  BY <1>2
<1>4. o = [n \in Nodes |-> o[n]]
  BY <1>2
<1>5. h = WithOut(g, o)
  <2>1. [g.out EXCEPT ![x] = l] = o
    BY <1>1, <1>2
  <2>2. h = [g EXCEPT !.out = [g.out EXCEPT ![x] = l]]
    BY <1>1 DEF WithOne
  <2> QED BY <2>1, <2>2 DEF WithOut
<1>6. Joins(M, Vertices(g), o)
  BY <1>3, <1>4 DEF Good, Joins
<1>7. Kept(M, E, g, h) /\ h.out = o
  BY <1>5, <1>6, OutKept
<1> QED BY <1>3, <1>7 DEF OneOut

\* What a graph has, by parts
LEMMA GoodParts ==
    ASSUME NEW M, NEW E, NEW g, Good(M, E, g)
    PROVE  /\ Vertices(g) \subseteq Nodes /\ g.energy \in [Nodes -> E] /\ DOMAIN g.out = Nodes
           /\ g.out = [n \in Nodes |-> g.out[n]]
<1> DEFINE T == Seq(Edges(M))
<1>1. g \in [order : Seq(Nodes), energy : [Nodes -> E], out : [Nodes -> T]]
  BY DEF Good
<1> HIDE DEF T
<1>2. Vertices(g) \subseteq Nodes
  BY <1>1 DEF Vertices, ToSet
<1>3. g.energy \in [Nodes -> E] /\ g.out \in [Nodes -> T]
  BY <1>1
<1> QED BY <1>2, <1>3

\* The edges of x
LEMMA GoodAt ==
    ASSUME NEW M, NEW E, NEW g, Good(M, E, g), NEW x \in Nodes, NEW l, l = g.out[x]
    PROVE  /\ JoinsAt(M, Vertices(g), x, l) /\ EdgeList(M, l) /\ l \in Seq(Edges(M))
           /\ Len(l) \in Nat /\ Held(l) \subseteq Edges(M)
           /\ \A i \in 1..Len(l) : l[i] \in Held(l)
           /\ \A e \in Held(l) : x \in Vertices(g) /\ e.to \in Vertices(g) \ {x}
           /\ \A d, e \in Held(l) : d.to = e.to => d = e
           /\ \A y : HasEdge(g, x, y) <=> \E e \in Held(l) : e.to = y
<1> DEFINE T == Edges(M)
<1>1. JoinsAt(M, Vertices(g), x, l)
  BY DEF Good
<1>2. EdgeList(M, l) /\ \A e \in Held(l) : x \in Vertices(g) /\ e.to \in Vertices(g) \ {x}
  BY <1>1 DEF JoinsAt
<1>3. l \in Seq(T) /\ \A i, j \in 1..Len(l) : l[i].to = l[j].to => i = j
  BY <1>2 DEF EdgeList
<1> HIDE DEF T
<1>4. /\ DOMAIN l = 1..Len(l) /\ Len(l) \in Nat /\ Held(l) \subseteq T
      /\ \A i \in 1..Len(l) : l[i] \in Held(l)
  BY <1>3 DEF Held
<1>5. \A d, e \in Held(l) : d.to = e.to => d = e
  BY <1>3 DEF Held
<1>6. \A y : HasEdge(g, x, y) <=> \E e \in Held(l) : e.to = y
  BY <1>4 DEF HasEdge, Held
<1> QED BY <1>1, <1>2, <1>3, <1>4, <1>5, <1>6 DEF T

\* An unknown vertex comes without edges.
LEMMA GetVertexIs ==
    ASSUME NEW M, NEW E, Limits(M, E), NEW g, Good(M, E, g), NEW n \in Nodes, NEW h, h = GetVertex(g, n)
    PROVE  /\ Good(M, E, h) /\ Vertices(h) = Vertices(g) \union {n}
           /\ \A x \in Nodes : /\ Held(h.out[x]) = Held(g.out[x])
                               /\ x \in Vertices(g) => h.energy[x] = g.energy[x]
<1> DEFINE T == Seq(Edges(M))
<1>1. g \in [order : Seq(Nodes), energy : [Nodes -> E], out : [Nodes -> T]]
  BY DEF Good
<1>2. CASE n \in Vertices(g)
  <2>1. h = g
    BY <1>2 DEF GetVertex
  <2> QED BY <1>2, <2>1
<1>3. CASE n \notin Vertices(g)
  <2> USE <1>3
  <2>1. h = [g EXCEPT !.order = Behind(@, n), !.energy[n] = MaxBattery, !.out[n] = <<>>]
    BY DEF GetVertex, WithVertex
  <2>2. PICK none0 : none0 = <<>>
    OBVIOUS
  <2>3. none0 \in T /\ EdgeList(M, none0) /\ Held(none0) = {}
    BY <2>2, Emptied DEF EdgeList
  <2>4. Held(g.out[n]) = {}
    BY GoodAt
  <2>5. PICK b : b = Behind(g.order, n)
    OBVIOUS
  <2>6. b \in Seq(Nodes) /\ ToSet(b) = ToSet(g.order) \union {n} /\ Unrepeated(b)
    <3>1. PICK l : l = g.order
      OBVIOUS
    <3>2. l \in Seq(Nodes) /\ Len(l) \in Nat /\ DOMAIN l = 1..Len(l)
      BY <1>1, <3>1
    <3>3. \A i, j \in 1..Len(l) : l[i] = l[j] => i = j
      BY <3>1, <3>2 DEF Good, Unrepeated
    <3>4. \A i \in 1..Len(l) : l[i] # n
      BY <3>1, <3>2 DEF Vertices, ToSet
    <3>5. CASE l = <<>>
      <4>1. b = <<n>> /\ Len(b) = 1 /\ b[1] = n /\ b \in Seq(Nodes) /\ DOMAIN b = {1}
        BY <2>5, <3>1, <3>5 DEF Behind
      <4>2. ToSet(b) = {n} /\ Unrepeated(b)
        BY <4>1 DEF ToSet, Unrepeated
      <4>3. ToSet(l) = {}
        BY <3>5 DEF ToSet
      <4> QED BY <3>1, <4>1, <4>2, <4>3
    <3>6. CASE l # <<>>
      <4>1. b = <<Head(l), n>> \o Tail(l) /\ Len(l) \in Nat \ {0}
        BY <2>5, <3>1, <3>2, <3>6 DEF Behind
      <4>2. /\ b \in Seq(Nodes) /\ Len(b) = Len(l) + 1 /\ DOMAIN b = 1..Len(b)
            /\ \A i \in 1..Len(b) : b[i] = IF i = 1 THEN l[1] ELSE IF i = 2 THEN n ELSE l[i - 1]
        BY <3>2, <4>1
      <4> DEFINE at(k) == IF k = 1 THEN 1 ELSE k - 1
      <4>3. \A k \in 1..Len(b) : k # 2 => at(k) \in 1..Len(l) /\ b[k] = l[at(k)]
        BY <4>1, <4>2
      <4>4. 2 \in 1..Len(b) /\ b[2] = n
        BY <4>1, <4>2
      <4>5. \A j \in 1..Len(l) : \E k \in 1..Len(b) : k # 2 /\ at(k) = j
        <5>1. ASSUME NEW j \in 1..Len(l) PROVE \E k \in 1..Len(b) : k # 2 /\ at(k) = j
          <6>1. CASE j = 1
            <7>1. 1 \in 1..Len(b) /\ 1 # 2 /\ at(1) = j
              BY <4>1, <4>2, <6>1
            <7> QED BY <7>1
          <6>2. CASE j # 1
            <7>1. j + 1 \in 1..Len(b) /\ j + 1 # 2 /\ at(j + 1) = j
              BY <4>1, <4>2, <6>2
            <7> HIDE DEF at
            <7> QED BY <7>1
          <6> QED BY <6>1, <6>2
        <5> QED BY <5>1
      <4>6. \A j, k \in 1..Len(b) : j # 2 /\ k # 2 /\ at(j) = at(k) => j = k
        BY <4>2
      <4> HIDE DEF at
      <4>7. ToSet(b) = ToSet(l) \union {n}
        <5>1. ToSet(b) \subseteq ToSet(l) \union {n}
          BY <3>2, <4>2, <4>3, <4>4 DEF ToSet
        <5>2. ASSUME NEW j \in 1..Len(l) PROVE l[j] \in ToSet(b)
          BY <4>2, <4>3, <4>5 DEF ToSet
        <5>3. n \in ToSet(b)
          BY <4>2, <4>4 DEF ToSet
        <5> QED BY <3>2, <5>1, <5>2, <5>3 DEF ToSet
      <4>8. ASSUME NEW j \in 1..Len(b), NEW k \in 1..Len(b), b[j] = b[k] PROVE j = k
        <5>1. CASE j = 2 \/ k = 2
          <6>1. \A i \in 1..Len(b) : i # 2 => b[i] # n
            BY <3>4, <4>3
          <6> QED BY <4>4, <4>8, <5>1, <6>1
        <5>2. CASE j # 2 /\ k # 2
          <6>1. at(j) = at(k)
            BY <3>3, <4>3, <4>8, <5>2
          <6> QED BY <4>6, <5>2, <6>1
        <5> QED BY <5>1, <5>2
      <4> QED BY <3>1, <4>2, <4>7, <4>8 DEF Unrepeated
    <3> QED BY <3>5, <3>6
  <2>7. MaxBattery \in E
    BY DEF Limits
  <2> HIDE DEF T
  <2>8. /\ h \in [order : Seq(Nodes), energy : [Nodes -> E], out : [Nodes -> T]]
        /\ h.order = b
        /\ \A x \in Nodes : h.out[x] = (IF x = n THEN none0 ELSE g.out[x])
        /\ \A x \in Nodes : h.energy[x] = (IF x = n THEN MaxBattery ELSE g.energy[x])
    <3>1. PICK o, en : o = [g.out EXCEPT ![n] = none0] /\ en = [g.energy EXCEPT ![n] = MaxBattery]
      OBVIOUS
    <3>2. /\ o \in [Nodes -> T] /\ en \in [Nodes -> E]
          /\ \A x \in Nodes : o[x] = (IF x = n THEN none0 ELSE g.out[x])
          /\ \A x \in Nodes : en[x] = (IF x = n THEN MaxBattery ELSE g.energy[x])
      BY <1>1, <2>3, <2>7, <3>1
    <3>3. h = [g EXCEPT !.order = b, !.energy = en, !.out = o]
      BY <1>1, <2>1, <2>2, <2>5, <3>1
    <3>4. h \in [order : Seq(Nodes), energy : [Nodes -> E], out : [Nodes -> T]] /\ h.order = b /\ h.out = o /\ h.energy = en
      <4> DEFINE Q == Seq(Nodes)
                 V == [Nodes -> E]
                 W == [Nodes -> T]
      <4>1. g \in [order : Q, energy : V, out : W] /\ b \in Q /\ en \in V /\ o \in W
        BY <1>1, <2>6, <3>2
      <4> HIDE DEF Q, V, W
      <4>2. h \in [order : Q, energy : V, out : W] /\ h.order = b /\ h.out = o /\ h.energy = en
        BY <3>3, <4>1
      <4> QED BY <4>2 DEF Q, V, W
    <3> QED BY <3>2, <3>4
  <2>9. Vertices(h) = Vertices(g) \union {n} /\ Unrepeated(h.order)
    BY <2>6, <2>8 DEF Vertices
  <2>10. \A x \in Nodes : EdgeList(M, h.out[x]) /\ Held(h.out[x]) = Held(g.out[x])
    BY <2>3, <2>4, <2>8 DEF Good, JoinsAt
  <2>11. \A x \in Nodes : JoinsAt(M, Vertices(h), x, h.out[x])
    BY <2>9, <2>10 DEF Good, JoinsAt
  <2>12. \A x \in Nodes : x \in Vertices(g) => h.energy[x] = g.energy[x]
    BY <2>8
  <2> QED BY <2>8, <2>9, <2>10, <2>11, <2>12 DEF Good, T
<1> QED BY <1>2, <1>3

\* Weights are in range, whatever the energy.
LEMMA WeightTyped ==
    ASSUME NEW en, NEW etx \in 0..MaxEtx PROVE WeightOf(en, etx) \in 1..MaxWeight
<1>1. etx \in Nat /\ etx <= 65535
  BY DEF MaxEtx
<1>2. PICK w : w = WeightOf(en, etx)
  OBVIOUS
<1>3. w = 100 \/ (~(etx >= 65535) /\ w = (100 * etx) \div 65535 + 1)
  <2>1. w = IF en < LowBattery \/ etx >= MaxEtx THEN MaxWeight ELSE (MaxWeight * etx) \div MaxEtx + 1
    BY <1>2 DEF WeightOf
  <2>2. CASE en < LowBattery \/ etx >= MaxEtx
    <3>1. w = MaxWeight
      BY <2>1, <2>2, Zenon
    <3> QED BY <3>1 DEF MaxWeight
  <2>3. CASE ~(en < LowBattery \/ etx >= MaxEtx)
    <3>1. w = (MaxWeight * etx) \div MaxEtx + 1 /\ ~(etx >= MaxEtx)
      BY <2>1, <2>3, Zenon
    <3> QED BY ONLY <3>1 DEF MaxWeight, MaxEtx
  <2> QED BY <2>2, <2>3
<1>4. CASE ~(etx >= 65535) /\ w = (100 * etx) \div 65535 + 1
  <2>1. etx < 65535
    BY <1>1, <1>4
  <2>2. (100 * etx) \div 65535 \in 0..99
    BY <1>1, <2>1
  <2> QED BY <1>2, <1>4, <2>2 DEF MaxWeight
<1> QED BY <1>2, <1>3, <1>4 DEF MaxWeight

\* No weight is stale.
Fresh(g) ==
    \A n \in Nodes : \A e \in Held(g.out[n]) :
        e.weight = WeightOf(Lower(g.energy[n], g.energy[e.to]), e.etx)

\* There is an edge from x to y; it is marked.
Link(g, x, y) == \E e \in Held(g.out[x]) : e.to = y
Dying(g, x, y) == \E e \in Held(g.out[x]) : e.to = y /\ e.status = "DELETED"

\* h is g but for its edges, and its weights are no less right.
Recut(M, E, g, h) == Kept(M, E, g, h) /\ (Fresh(g) => Fresh(h))

LEMMA MarkedIs ==
    ASSUME NEW M, NEW e \in Edges(M)
    PROVE  /\ Marked(e) \in Edges(M) /\ Marked(e).to = e.to /\ Marked(e).status = "DELETED"
           /\ Marked(e).weight = e.weight /\ Marked(e).etx = e.etx
  BY DEF Marked, Edges, EdgeStatuses

LEMMA MarkFromIs ==
    ASSUME NEW M, NEW E, NEW g, Good(M, E, g), NEW s \in Nodes, NEW h, h = MarkFrom(g, s)
    PROVE  /\ Recut(M, E, g, h)
           /\ \A x, y \in Nodes : /\ Link(h, x, y) <=> Link(g, x, y)
                                  /\ Dying(h, x, y) <=> IF x = s THEN Link(g, x, y) ELSE Dying(g, x, y)
<1>1. PICK l : l = g.out[s]
  OBVIOUS
<1>2. /\ EdgeList(M, l) /\ Len(l) \in Nat /\ Held(l) \subseteq Edges(M)
      /\ \A i \in 1..Len(l) : l[i] \in Held(l)
      /\ \A e \in Held(l) : s \in Vertices(g) /\ e.to \in Vertices(g) \ {s}
  BY <1>1, GoodAt
<1>3. PICK k : k = [i \in 1..Len(l) |-> Marked(l[i])]
  OBVIOUS
<1>4. h = WithOne(g, s, k)
  <2>1. g \in [order : Seq(Nodes), energy : [Nodes -> E], out : [Nodes -> Seq(Edges(M))]]
    BY DEF Good
  <2>2. l \in Seq(Edges(M))
    BY <1>2 DEF EdgeList
  <2>3. DOMAIN l = 1..Len(l)
    BY <2>2
  <2> QED BY <1>1, <1>3, <2>1, <2>3 DEF MarkFrom, EditEdges, WithOne
<1>5. \A i \in 1..Len(l) : /\ k[i] = Marked(l[i]) /\ k[i] \in Edges(M) /\ k[i].to = l[i].to
                           /\ k[i].status = "DELETED" /\ k[i].weight = l[i].weight /\ k[i].etx = l[i].etx
  BY <1>2, <1>3, MarkedIs
<1>6. EdgeList(M, k) /\ Len(k) = Len(l)
  BY <1>2, <1>3, <1>5, Edited
<1>7. /\ \A e \in Held(k) : \E d \in Held(l) : /\ e.to = d.to /\ e.status = "DELETED"
                                               /\ e.weight = d.weight /\ e.etx = d.etx
      /\ \A d \in Held(l) : \E e \in Held(k) : e.to = d.to /\ e.status = "DELETED"
  <2>1. Held(k) = {k[i] : i \in 1..Len(l)} /\ Held(l) = {l[i] : i \in 1..Len(l)}
    BY <1>6 DEF Held
  <2>2. ASSUME NEW e \in Held(k)
        PROVE  \E d \in Held(l) : e.to = d.to /\ e.status = "DELETED" /\ e.weight = d.weight /\ e.etx = d.etx
    <3>1. PICK i \in 1..Len(l) : e = k[i]
      BY <2>1
    <3>2. l[i] \in Held(l)
      BY <1>2
    <3> QED BY <1>5, <3>1, <3>2
  <2>3. ASSUME NEW d \in Held(l) PROVE \E e \in Held(k) : e.to = d.to /\ e.status = "DELETED"
    <3>1. PICK i \in 1..Len(l) : d = l[i]
      BY <2>1
    <3>2. k[i] \in Held(k)
      BY <2>1
    <3> QED BY <1>5, <3>1, <3>2
  <2> QED BY <2>2, <2>3
<1>8. Kept(M, E, g, h) /\ h.out[s] = k /\ \A z \in Nodes : z # s => h.out[z] = g.out[z]
  <2>1. JoinsAt(M, Vertices(g), s, k)
    BY <1>2, <1>6, <1>7 DEF JoinsAt
  <2>2. OneOut(M, E, g, h, s, k)
    BY <1>4, <2>1, OneOutKept
  <2> QED BY <2>2 DEF OneOut
<1>9. Fresh(g) => Fresh(h)
  BY <1>1, <1>7, <1>8 DEF Fresh, Kept
<1>10. ASSUME NEW x \in Nodes, NEW y \in Nodes
       PROVE  /\ Link(h, x, y) <=> Link(g, x, y)
              /\ Dying(h, x, y) <=> IF x = s THEN Link(g, x, y) ELSE Dying(g, x, y)
  BY <1>1, <1>7, <1>8 DEF Link, Dying
<1> QED BY <1>8, <1>9, <1>10 DEF Recut

LEMMA MarkTowardsIs ==
    ASSUME NEW M, NEW E, NEW g, Good(M, E, g), NEW s \in Nodes, NEW h, h = MarkTowards(g, s)
    PROVE  /\ Recut(M, E, g, h)
           /\ \A x, y \in Nodes : /\ Link(h, x, y) <=> Link(g, x, y)
                                  /\ Dying(h, x, y) <=> IF y = s THEN Link(g, x, y) ELSE Dying(g, x, y)
<1> DEFINE L(x) == [i \in 1..Len(g.out[x]) |-> IF g.out[x][i].to = s THEN Marked(g.out[x][i]) ELSE g.out[x][i]]
<1>1. PICK o : o = [x \in Nodes |-> L(x)]
  OBVIOUS
<1>2. h = WithOut(g, o)
  <2>1. ASSUME NEW x \in Nodes PROVE DOMAIN g.out[x] = 1..Len(g.out[x])
    <3>1. g.out[x] \in Seq(Edges(M))
      BY GoodAt
    <3> QED BY <3>1
  <2>2. h = [g EXCEPT !.out = [x \in Nodes |->
              [i \in DOMAIN g.out[x] |-> IF g.out[x][i].to = s THEN Marked(g.out[x][i]) ELSE g.out[x][i]]]]
    BY DEF MarkTowards, Good
  <2>3. o = [x \in Nodes |-> [i \in DOMAIN g.out[x] |-> IF g.out[x][i].to = s THEN Marked(g.out[x][i]) ELSE g.out[x][i]]]
    BY <1>1, <2>1
  <2> QED BY <2>2, <2>3 DEF WithOut
<1>3. ASSUME NEW x \in Nodes
      PROVE  /\ EdgeList(M, o[x])
             /\ \A e \in Held(o[x]) : \E d \in Held(g.out[x]) :
                   /\ e.to = d.to /\ e.weight = d.weight /\ e.etx = d.etx
                   /\ e.status = "DELETED" <=> e.to = s \/ d.status = "DELETED"
             /\ \A d \in Held(g.out[x]) : \E e \in Held(o[x]) :
                   e.to = d.to /\ (e.status = "DELETED" <=> e.to = s \/ d.status = "DELETED")
  <2>1. PICK l : l = g.out[x]
    OBVIOUS
  <2>2. /\ EdgeList(M, l) /\ Len(l) \in Nat /\ Held(l) \subseteq Edges(M)
        /\ \A i \in 1..Len(l) : l[i] \in Held(l)
    BY <2>1, GoodAt
  <2>3. PICK k : k = [i \in 1..Len(l) |-> IF l[i].to = s THEN Marked(l[i]) ELSE l[i]]
    OBVIOUS
  <2>4. o[x] = k
    BY <1>1, <2>1, <2>3
  <2>5. \A i \in 1..Len(l) : /\ k[i] \in Edges(M) /\ k[i].to = l[i].to
                             /\ k[i].status = "DELETED" <=> l[i].to = s \/ l[i].status = "DELETED"
                             /\ k[i].weight = l[i].weight /\ k[i].etx = l[i].etx
    <3> SUFFICES ASSUME NEW i \in 1..Len(l)
                 PROVE  /\ k[i] \in Edges(M) /\ k[i].to = l[i].to
                        /\ k[i].status = "DELETED" <=> l[i].to = s \/ l[i].status = "DELETED"
                        /\ k[i].weight = l[i].weight /\ k[i].etx = l[i].etx
      OBVIOUS
    <3>1. l[i] \in Edges(M) /\ k[i] = IF l[i].to = s THEN Marked(l[i]) ELSE l[i]
      BY <2>2, <2>3
    <3>2. PICK d : d = l[i]
      OBVIOUS
    <3>3. CASE d.to = s
      BY <3>1, <3>2, <3>3, MarkedIs
    <3>4. CASE d.to # s
      BY <3>1, <3>2, <3>4
    <3> QED BY <3>3, <3>4
  <2>6. EdgeList(M, k) /\ Len(k) = Len(l)
    <3>1. k = [i \in 1..Len(l) |-> k[i]]
      BY <2>3
    <3> QED BY <2>2, <2>5, <3>1, Edited
  <2>7. /\ \A e \in Held(k) : \E d \in Held(l) :
              /\ e.to = d.to /\ e.weight = d.weight /\ e.etx = d.etx
              /\ e.status = "DELETED" <=> e.to = s \/ d.status = "DELETED"
        /\ \A d \in Held(l) : \E e \in Held(k) :
              e.to = d.to /\ (e.status = "DELETED" <=> e.to = s \/ d.status = "DELETED")
    <3>1. Held(k) = {k[i] : i \in 1..Len(l)} /\ Held(l) = {l[i] : i \in 1..Len(l)}
      BY <2>6 DEF Held
    <3>2. ASSUME NEW e \in Held(k)
          PROVE  \E d \in Held(l) : /\ e.to = d.to /\ e.weight = d.weight /\ e.etx = d.etx
                                    /\ e.status = "DELETED" <=> e.to = s \/ d.status = "DELETED"
      <4>1. PICK i \in 1..Len(l) : e = k[i]
        BY <3>1
      <4>2. l[i] \in Held(l)
        BY <2>2
      <4> QED BY <2>5, <4>1, <4>2
    <3>3. ASSUME NEW d \in Held(l)
          PROVE  \E e \in Held(k) : e.to = d.to /\ (e.status = "DELETED" <=> e.to = s \/ d.status = "DELETED")
      <4>1. PICK i \in 1..Len(l) : d = l[i]
        BY <3>1
      <4>2. k[i] \in Held(k)
        BY <3>1
      <4> QED BY <2>5, <4>1, <4>2
    <3> QED BY <3>2, <3>3
  <2> QED BY <2>1, <2>4, <2>6, <2>7
<1> HIDE DEF L
<1>4. Joins(M, Vertices(g), o)
  <2>1. ASSUME NEW x \in Nodes PROVE JoinsAt(M, Vertices(g), x, o[x])
    <3>1. JoinsAt(M, Vertices(g), x, g.out[x])
      BY DEF Good
    <3> QED BY <1>3, <3>1 DEF JoinsAt
  <2>2. o = [x \in Nodes |-> o[x]]
    BY <1>1
  <2> QED BY <2>1, <2>2 DEF Joins
<1>5. Kept(M, E, g, h) /\ h.out = o
  BY <1>2, <1>4, OutKept
<1>6. Fresh(g) => Fresh(h)
  BY <1>3, <1>5 DEF Fresh, Kept
<1>7. ASSUME NEW x \in Nodes, NEW y \in Nodes
       PROVE  /\ Link(h, x, y) <=> Link(g, x, y)
              /\ Dying(h, x, y) <=> IF y = s THEN Link(g, x, y) ELSE Dying(g, x, y)
  BY <1>3, <1>5 DEF Link, Dying
<1> QED BY <1>5, <1>6, <1>7 DEF Recut

LEMMA AddEdgeIs ==
    ASSUME NEW M, NEW E, Limits(M, E), NEW g, Good(M, E, g), NEW x \in Vertices(g), NEW y \in Vertices(g), x # y,
           NEW etx \in M, NEW h, h = AddEdge(g, x, y, etx)
    PROVE  /\ Recut(M, E, g, h)
           /\ \A a, b \in Nodes : /\ Link(h, a, b) <=> Link(g, a, b) \/ (a = x /\ b = y)
                                  /\ Dying(h, a, b) <=> Dying(g, a, b) /\ ~(a = x /\ b = y)
<1>1. x \in Nodes /\ y \in Nodes /\ etx \in 0..MaxEtx
  BY GoodParts DEF Limits
<1>2. PICK w : w = WeightOf(Lower(g.energy[x], g.energy[y]), etx)
  OBVIOUS
<1>3. w \in 1..MaxWeight
  BY <1>1, <1>2, WeightTyped
<1>4. PICK l : l = g.out[x]
  OBVIOUS
<1>5. /\ EdgeList(M, l) /\ Len(l) \in Nat /\ Held(l) \subseteq Edges(M) /\ l \in Seq(Edges(M))
      /\ \A i \in 1..Len(l) : l[i] \in Held(l)
      /\ \A e \in Held(l) : x \in Vertices(g) /\ e.to \in Vertices(g) \ {x}
      /\ \A z : HasEdge(g, x, z) <=> \E e \in Held(l) : e.to = z
  BY <1>1, <1>4, GoodAt
<1>6. PICK k : /\ EdgeList(M, k) /\ h = WithOne(g, x, k)
               /\ \E e \in Held(k) : e.to = y
               /\ \A e \in Held(k) : e.to = y => e.etx = etx /\ e.weight = w /\ e.status # "DELETED"
               /\ \A e : e.to # y => (e \in Held(k) <=> e \in Held(l))
  <2>1. CASE HasEdge(g, x, y)
    <3> DEFINE new(e) == [e EXCEPT !.etx = etx, !.weight = w, !.status = IF e.weight = w THEN "STATIC" ELSE "UPDATED"]
    <3>1. PICK k : k = [i \in 1..Len(l) |-> IF l[i].to = y THEN new(l[i]) ELSE l[i]]
      BY Zenon
    <3>2. h = WithOne(g, x, k)
      <4>1. g \in [order : Seq(Nodes), energy : [Nodes -> E], out : [Nodes -> Seq(Edges(M))]]
        BY DEF Good
      <4>2. DOMAIN l = 1..Len(l)
        BY <1>5
      <4>3. [g EXCEPT !.out[x] = k] =
               [g EXCEPT !.out[x] = [i \in DOMAIN @ |-> IF @[i].to = y THEN new(@[i]) ELSE @[i]]]
        BY <1>1, <1>4, <3>1, <4>1, <4>2, Zenon
      <4> QED BY <1>2, <2>1, <4>3, Zenon DEF AddEdge, EditEdges, WithOne
    <3>3. \A i \in 1..Len(l) : /\ k[i] \in Edges(M) /\ k[i].to = l[i].to
                               /\ l[i].to = y => k[i].etx = etx /\ k[i].weight = w /\ k[i].status # "DELETED"
                               /\ l[i].to # y => k[i] = l[i]
      <4> SUFFICES ASSUME NEW i \in 1..Len(l)
                   PROVE  /\ k[i] \in Edges(M) /\ k[i].to = l[i].to
                          /\ l[i].to = y => k[i].etx = etx /\ k[i].weight = w /\ k[i].status # "DELETED"
                          /\ l[i].to # y => k[i] = l[i]
        OBVIOUS
      <4>1. PICK d : d = l[i]
        OBVIOUS
      <4>2. d \in Edges(M) /\ k[i] = IF d.to = y THEN new(d) ELSE d
        BY <1>5, <3>1, <4>1, Zenon
      <4>3. CASE d.to = y
        <5>1. PICK v : v = k[i]
          OBVIOUS
        <5>2. PICK st : st = (IF d.weight = w THEN "STATIC" ELSE "UPDATED")
          OBVIOUS
        <5>3. st \in {"STATIC", "UPDATED"}
          BY <5>2
        <5>4. v = [d EXCEPT !.etx = etx, !.weight = w, !.status = st]
          BY <4>2, <4>3, <5>1, <5>2
        <5>5. v \in Edges(M) /\ v.to = d.to /\ v.etx = etx /\ v.weight = w /\ v.status = st
          BY <1>3, <4>2, <5>3, <5>4 DEF Edges, EdgeStatuses
        <5> QED BY <4>1, <4>3, <5>1, <5>3, <5>5
      <4>4. CASE d.to # y
        BY <4>1, <4>2, <4>4
      <4> QED BY <4>3, <4>4
    <3>4. EdgeList(M, k) /\ Len(k) = Len(l)
      <4>1. k = [i \in 1..Len(l) |-> k[i]]
        BY <3>1, Zenon
      <4> QED BY <1>5, <3>3, <4>1, Edited
    <3>5. Held(k) = {k[i] : i \in 1..Len(l)} /\ Held(l) = {l[i] : i \in 1..Len(l)}
      BY <3>4 DEF Held
    <3>6. \E e \in Held(k) : e.to = y
      <4>1. PICK e \in Held(l) : e.to = y
        BY <1>5, <2>1
      <4>2. PICK i \in 1..Len(l) : e = l[i]
        BY <3>5
      <4> QED BY <3>3, <3>5, <4>1, <4>2
    <3>7. ASSUME NEW e \in Held(k), e.to = y PROVE e.etx = etx /\ e.weight = w /\ e.status # "DELETED"
      <4>1. PICK i \in 1..Len(l) : e = k[i]
        BY <3>5
      <4> QED BY <3>3, <3>7, <4>1
    <3>8. ASSUME NEW e, e.to # y PROVE e \in Held(k) <=> e \in Held(l)
      <4>1. ASSUME e \in Held(k) PROVE e \in Held(l)
        <5>1. PICK i \in 1..Len(l) : e = k[i]
          BY <3>5, <4>1
        <5> QED BY <3>3, <3>5, <3>8, <5>1
      <4>2. ASSUME e \in Held(l) PROVE e \in Held(k)
        <5>1. PICK i \in 1..Len(l) : e = l[i]
          BY <3>5, <4>2
        <5> QED BY <3>3, <3>5, <3>8, <5>1
      <4> QED BY <4>1, <4>2
    <3> QED BY <3>2, <3>4, <3>6, <3>7, <3>8
  <2>2. CASE ~HasEdge(g, x, y)
    <3>1. PICK e0 : e0 = [to |-> y, etx |-> etx, weight |-> w, status |-> "NEW"]
      OBVIOUS
    <3>2. e0 \in Edges(M) /\ e0.to = y /\ e0.etx = etx /\ e0.weight = w /\ e0.status = "NEW"
      BY <1>1, <1>3, <3>1 DEF Edges, EdgeStatuses
    <3>3. PICK k : k = Behind(l, e0)
      OBVIOUS
    <3>4. \A d \in Held(l) : d.to # e0.to
      BY <1>5, <2>2, <3>2
    <3>5. EdgeList(M, k) /\ Held(k) = Held(l) \union {e0}
      BY <1>5, <3>2, <3>3, <3>4, Joined
    <3>6. h = WithOne(g, x, k)
      <4>1. g \in [order : Seq(Nodes), energy : [Nodes -> E], out : [Nodes -> Seq(Edges(M))]]
        BY DEF Good
      <4>2. [g EXCEPT !.out[x] = k] = [g EXCEPT !.out[x] = Behind(@, e0)]
        BY <1>1, <1>4, <3>3, <4>1
      <4> QED BY <1>2, <2>2, <3>1, <4>2 DEF AddEdge, WithOne
    <3> QED BY <3>2, <3>4, <3>5, <3>6
  <2> QED BY <2>1, <2>2
<1>7. OneOut(M, E, g, h, x, k)
  <2>1. JoinsAt(M, Vertices(g), x, k)
    <3>1. ASSUME NEW e \in Held(k) PROVE x \in Vertices(g) /\ e.to \in Vertices(g) \ {x}
      BY <1>5, <1>6
    <3> QED BY <1>6, <3>1 DEF JoinsAt
  <2> QED BY <1>1, <1>6, <2>1, OneOutKept
<1>8. Kept(M, E, g, h) /\ h.out[x] = k /\ \A z \in Nodes : z # x => h.out[z] = g.out[z]
  BY <1>7 DEF OneOut
<1>9. Fresh(g) => Fresh(h)
  <2> SUFFICES ASSUME Fresh(g), NEW n \in Nodes, NEW e \in Held(h.out[n])
               PROVE  e.weight = WeightOf(Lower(h.energy[n], h.energy[e.to]), e.etx)
    BY DEF Fresh
  <2>1. h.energy = g.energy
    BY <1>8 DEF Kept
  <2>2. CASE n = x /\ e.to = y
    BY <1>2, <1>6, <1>8, <2>1, <2>2
  <2>3. CASE ~(n = x /\ e.to = y)
    <3>1. e \in Held(g.out[n])
      BY <1>4, <1>6, <1>8, <2>3
    <3> QED BY <2>1, <3>1 DEF Fresh
  <2> QED BY <2>2, <2>3
<1>10. ASSUME NEW a \in Nodes, NEW b \in Nodes
       PROVE  /\ Link(h, a, b) <=> Link(g, a, b) \/ (a = x /\ b = y)
              /\ Dying(h, a, b) <=> Dying(g, a, b) /\ ~(a = x /\ b = y)
  BY <1>4, <1>6, <1>8 DEF Link, Dying
<1> QED BY <1>8, <1>9, <1>10 DEF Recut

\* Edges may go.
LEMMA Cut ==
    ASSUME NEW M, NEW E, NEW g, Good(M, E, g), NEW o, o = [n \in Nodes |-> o[n]],
           \A n \in Nodes : EdgeList(M, o[n]) /\ Held(o[n]) \subseteq Held(g.out[n]),
           NEW h, h = WithOut(g, o)
    PROVE  Recut(M, E, g, h) /\ h.out = o
<1>1. ASSUME NEW n \in Nodes PROVE JoinsAt(M, Vertices(g), n, o[n])
  BY DEF Good, JoinsAt
<1>2. Joins(M, Vertices(g), o)
  BY <1>1 DEF Joins
<1>3. Kept(M, E, g, h) /\ h.out = o
  BY <1>2, OutKept
<1>4. Fresh(g) => Fresh(h)
  BY <1>3 DEF Fresh, Kept
<1> QED BY <1>3, <1>4 DEF Recut

LEMMA OneCut ==
    ASSUME NEW M, NEW E, NEW g, Good(M, E, g), NEW x \in Nodes,
           NEW l, EdgeList(M, l), Held(l) \subseteq Held(g.out[x]), NEW h, h = WithOne(g, x, l)
    PROVE  Recut(M, E, g, h) /\ h.out[x] = l /\ \A z \in Nodes : z # x => h.out[z] = g.out[z]
<1>1. JoinsAt(M, Vertices(g), x, l)
  BY DEF Good, JoinsAt
<1>2. OneOut(M, E, g, h, x, l)
  BY <1>1, OneOutKept
<1>3. Kept(M, E, g, h) /\ h.out[x] = l /\ \A z \in Nodes : z # x => h.out[z] = g.out[z]
  BY <1>2 DEF OneOut
<1>4. Fresh(g) => Fresh(h)
  BY <1>3 DEF Fresh, Kept
<1> QED BY <1>3, <1>4 DEF Recut

\* g without the edges to n of a status in St, and without those from x that have
\* one or lead to V
CutTo(g, n, St) == [g EXCEPT !.out = [x \in Nodes |-> Drop(@[x], LAMBDA e : e.to = n /\ e.status \in St)]]
CutOff(g, x, V, St) == [g EXCEPT !.out[x] = Drop(@, LAMBDA e : e.to \in V \/ e.status \in St)]

\* Every list of edges without those that Gone names: the edges to n, marked or not.
LEMMA CutTowards ==
    ASSUME NEW M, NEW E, NEW g, Good(M, E, g), NEW n \in Nodes, NEW St,
           NEW h, h = CutTo(g, n, St)
    PROVE  /\ Recut(M, E, g, h)
           /\ \A x \in Nodes : Held(h.out[x]) = {e \in Held(g.out[x]) : ~(e.to = n /\ e.status \in St)}
<1> DEFINE P(l) == {i \in 1..Len(l) : ~(l[i].to = n /\ l[i].status \in St)}
<1>1. PICK o : o = [x \in Nodes |-> Among(g.out[x], P(g.out[x]))]
  OBVIOUS
<1>2. h = WithOut(g, o)
  <2>1. ASSUME NEW x \in Nodes
        PROVE  Drop(g.out[x], LAMBDA e : e.to = n /\ e.status \in St) = Among(g.out[x], P(g.out[x]))
    <3>1. g.out[x] \in Seq(Edges(M))
      BY GoodAt
    <3>2. DOMAIN g.out[x] = 1..Len(g.out[x])
      BY <3>1
    <3> QED BY <3>2 DEF Drop
  <2>2. g \in [order : Seq(Nodes), energy : [Nodes -> E], out : [Nodes -> Seq(Edges(M))]]
    BY DEF Good
  <2>3. [x \in Nodes |-> Drop(g.out[x], LAMBDA e : e.to = n /\ e.status \in St)] = o
    BY <1>1, <2>1
  <2> QED BY <2>2, <2>3 DEF WithOut, CutTo
<1>3. ASSUME NEW x \in Nodes
      PROVE  EdgeList(M, o[x]) /\ Held(o[x]) = {e \in Held(g.out[x]) : ~(e.to = n /\ e.status \in St)}
  <2>1. PICK l : l = g.out[x]
    OBVIOUS
  <2>2. EdgeList(M, l)
    BY <2>1, GoodAt
  <2>3. PICK Q : Q = P(l)
    OBVIOUS
  <2>4. Q \in SUBSET (1..Len(l))
    BY <2>3
  <2>5. PICK k : k = Among(l, Q)
    OBVIOUS
  <2>6. EdgeList(M, k) /\ Held(k) = {l[i] : i \in Q}
    BY <2>2, <2>4, <2>5, Left
  <2>7. {l[i] : i \in Q} = {e \in Held(l) : ~(e.to = n /\ e.status \in St)}
    BY <2>3 DEF Held
  <2>8. o[x] = k
    BY <1>1, <2>1, <2>3, <2>5
  <2> QED BY <2>1, <2>6, <2>7, <2>8
<1> HIDE DEF P
<1>4. o = [x \in Nodes |-> o[x]]
  BY <1>1
<1>5. \A x \in Nodes : EdgeList(M, o[x]) /\ Held(o[x]) \subseteq Held(g.out[x])
  BY <1>3
<1>6. Recut(M, E, g, h) /\ h.out = o
  BY <1>2, <1>4, <1>5, Cut
<1> QED BY <1>3, <1>6

\* The edges from x without those whose status is in St, or that lead to a vertex in V
LEMMA CutFrom ==
    ASSUME NEW M, NEW E, NEW g, Good(M, E, g), NEW x \in Nodes, NEW V, NEW St,
           NEW h, h = CutOff(g, x, V, St)
    PROVE  /\ Recut(M, E, g, h)
           /\ Held(h.out[x]) = {e \in Held(g.out[x]) : ~(e.to \in V \/ e.status \in St)}
           /\ \A z \in Nodes : z # x => h.out[z] = g.out[z]
<1>1. PICK l : l = g.out[x]
  OBVIOUS
<1>2. EdgeList(M, l) /\ l \in Seq(Edges(M))
  BY <1>1, GoodAt
<1>3. PICK Q : Q = {i \in 1..Len(l) : ~(l[i].to \in V \/ l[i].status \in St)}
  OBVIOUS
<1>4. Q \in SUBSET (1..Len(l))
  BY <1>3
<1>5. PICK k : k = Among(l, Q)
  OBVIOUS
<1>6. EdgeList(M, k) /\ Held(k) = {l[i] : i \in Q}
  BY <1>2, <1>4, <1>5, Left
<1>7. {l[i] : i \in Q} = {e \in Held(l) : ~(e.to \in V \/ e.status \in St)}
  BY <1>3 DEF Held
<1>8. h = WithOne(g, x, k)
  <2>1. DOMAIN l = 1..Len(l)
    BY <1>2
  <2>2. Drop(l, LAMBDA e : e.to \in V \/ e.status \in St) = k
    BY <1>3, <1>5, <2>1 DEF Drop
  <2>3. g \in [order : Seq(Nodes), energy : [Nodes -> E], out : [Nodes -> Seq(Edges(M))]]
    BY DEF Good
  <2>4. h = [g EXCEPT !.out[x] = Drop(g.out[x], LAMBDA e : e.to \in V \/ e.status \in St)]
    BY <2>3 DEF CutOff
  <2> QED BY <1>1, <2>2, <2>4 DEF WithOne
<1>9. Held(k) \subseteq Held(g.out[x])
  BY <1>1, <1>6, <1>7
<1>10. Recut(M, E, g, h) /\ h.out[x] = k /\ \A z \in Nodes : z # x => h.out[z] = g.out[z]
  BY <1>6, <1>8, <1>9, OneCut
<1> QED BY <1>1, <1>6, <1>7, <1>10

LEMMA DeleteTowardsIs ==
    ASSUME NEW M, NEW E, NEW g, Good(M, E, g), NEW s \in Nodes, NEW h, h = DeleteMarkedTowards(g, s).graph
    PROVE  /\ Recut(M, E, g, h)
           /\ \A x, y \in Nodes : /\ Link(h, x, y) <=> Link(g, x, y) /\ ~(y = s /\ Dying(g, x, y))
                                  /\ Dying(h, x, y) <=> Dying(g, x, y) /\ y # s
<1>1. PICK St : St = {"DELETED"}
  OBVIOUS
<1>2. h = CutTo(g, s, St)
  BY <1>1 DEF DeleteMarkedTowards, Drop, CutTo
<1>3. /\ Recut(M, E, g, h)
      /\ \A x \in Nodes : Held(h.out[x]) = {e \in Held(g.out[x]) : ~(e.to = s /\ e.status \in St)}
  BY <1>2, CutTowards
<1>4. ASSUME NEW x \in Nodes, NEW y \in Nodes
      PROVE  /\ Link(h, x, y) <=> Link(g, x, y) /\ ~(y = s /\ Dying(g, x, y))
             /\ Dying(h, x, y) <=> Dying(g, x, y) /\ y # s
  <2>1. \A d, e \in Held(g.out[x]) : d.to = e.to => d = e
    BY GoodAt
  <2> QED BY <1>1, <1>3, <2>1 DEF Link, Dying
<1> QED BY <1>3, <1>4

LEMMA DeleteFromIs ==
    ASSUME NEW M, NEW E, NEW g, Good(M, E, g), NEW s \in Nodes, NEW h, h = DeleteMarkedFrom(g, s).graph
    PROVE  /\ Recut(M, E, g, h)
           /\ \A x, y \in Nodes : /\ Link(h, x, y) <=> Link(g, x, y) /\ ~(x = s /\ Dying(g, x, y))
                                  /\ Dying(h, x, y) <=> Dying(g, x, y) /\ x # s
<1>1. PICK St, V : St = {"DELETED"} /\ V = {}
  OBVIOUS
<1>2. h = CutOff(g, s, V, St)
  BY <1>1 DEF DeleteMarkedFrom, Drop, CutOff
<1>3. /\ Recut(M, E, g, h)
      /\ Held(h.out[s]) = {e \in Held(g.out[s]) : ~(e.to \in V \/ e.status \in St)}
      /\ \A z \in Nodes : z # s => h.out[z] = g.out[z]
  BY <1>2, CutFrom
<1>4. ASSUME NEW x \in Nodes, NEW y \in Nodes
      PROVE  /\ Link(h, x, y) <=> Link(g, x, y) /\ ~(x = s /\ Dying(g, x, y))
             /\ Dying(h, x, y) <=> Dying(g, x, y) /\ x # s
  <2>1. \A d, e \in Held(g.out[x]) : d.to = e.to => d = e
    BY GoodAt
  <2> QED BY <1>1, <1>3, <2>1 DEF Link, Dying
<1> QED BY <1>3, <1>4

LEMMA DeleteEdgeIs ==
    ASSUME NEW M, NEW E, NEW g, Good(M, E, g), NEW x \in Nodes, NEW y, NEW h, h = DeleteEdge(g, x, y)
    PROVE  Recut(M, E, g, h)
<1>1. PICK St, V : St = {} /\ V = {y}
  OBVIOUS
<1>2. h = CutOff(g, x, V, St)
  BY <1>1 DEF DeleteEdge, Drop, CutOff
<1> QED BY <1>2, CutFrom

\* A vertex goes, and all its edges.
LEMMA DeleteVertexIs ==
    ASSUME NEW M, NEW E, NEW g, Good(M, E, g), NEW n \in Vertices(g), NEW h, h = DeleteVertex(g, n)
    PROVE  Good(M, E, h) /\ Vertices(h) = Vertices(g) \ {n}
<1>1. n \in Nodes
  BY GoodParts
<1>2. PICK g1 : g1 = DeleteEdgesFrom(g, n)
  OBVIOUS
<1>3. Kept(M, E, g, g1) /\ Held(g1.out[n]) = {}
  <2>1. PICK empty : empty = <<>>
    OBVIOUS
  <2>2. EdgeList(M, empty) /\ Held(empty) = {}
    BY <2>1, Emptied
  <2>3. g1 = WithOne(g, n, empty)
    BY <1>2, <2>1 DEF DeleteEdgesFrom, WithOne
  <2>4. Recut(M, E, g, g1) /\ g1.out[n] = empty
    BY <1>1, <2>2, <2>3, OneCut
  <2> QED BY <2>2, <2>4 DEF Recut
<1>4. Good(M, E, g1) /\ Vertices(g1) = Vertices(g)
  BY <1>3 DEF Kept
<1>5. PICK g2 : g2 = DeleteEdgesTo(g1, n)
  OBVIOUS
<1>6. /\ Kept(M, E, g1, g2)
      /\ \A x \in Nodes : Held(g2.out[x]) = {e \in Held(g1.out[x]) : e.to # n}
  <2>1. PICK St : St = EdgeStatuses
    OBVIOUS
  <2>2. \A x \in Nodes : \A e \in Held(g1.out[x]) : e.status \in St
    <3>1. ASSUME NEW x \in Nodes, NEW e \in Held(g1.out[x]) PROVE e.status \in St
      <4>1. e \in Edges(M)
        BY <1>4, GoodAt
      <4> QED BY <2>1, <4>1 DEF Edges
    <3> QED BY <3>1
  <2>3. g2 = CutTo(g1, n, St)
    <3>1. ASSUME NEW x \in Nodes
          PROVE  Drop(g1.out[x], LAMBDA e : e.to = n /\ e.status \in St) = Drop(g1.out[x], LAMBDA e : e.to = n)
      <4>1. PICK l : l = g1.out[x]
        OBVIOUS
      <4>2. l \in Seq(Edges(M)) /\ \A i \in 1..Len(l) : l[i] \in Held(l)
        BY <1>4, <4>1, GoodAt
      <4>3. DOMAIN l = 1..Len(l)
        BY <4>2
      <4>4. \A i \in DOMAIN l : l[i].status \in St
        BY <2>2, <4>1, <4>2, <4>3
      <4>5. {i \in DOMAIN l : ~(l[i].to = n /\ l[i].status \in St)} = {i \in DOMAIN l : ~(l[i].to = n)}
        BY <4>4
      <4> QED BY <4>1, <4>5 DEF Drop
    <3>2. g1 \in [order : Seq(Nodes), energy : [Nodes -> E], out : [Nodes -> Seq(Edges(M))]]
      BY <1>4 DEF Good
    <3> QED BY <1>5, <3>1, <3>2 DEF DeleteEdgesTo, CutTo
  <2>4. /\ Recut(M, E, g1, g2)
        /\ \A x \in Nodes : Held(g2.out[x]) = {e \in Held(g1.out[x]) : ~(e.to = n /\ e.status \in St)}
    BY <1>1, <1>4, <2>3, CutTowards
  <2> QED BY <2>2, <2>4 DEF Recut
<1>7. Good(M, E, g2) /\ Vertices(g2) = Vertices(g)
  BY <1>4, <1>6 DEF Kept
<1>8. PICK l, i : l = g2.order /\ i = CHOOSE j \in DOMAIN l : l[j] = n
  OBVIOUS
<1>9. l \in Seq(Nodes) /\ Len(l) \in Nat /\ DOMAIN l = 1..Len(l) /\ Unrepeated(l) /\ Vertices(g2) = ToSet(l)
  BY <1>7, <1>8 DEF Good, Vertices
<1>10. i \in 1..Len(l) /\ l[i] = n
  <2>1. \E j \in DOMAIN l : l[j] = n
    BY <1>7, <1>9 DEF ToSet
  <2> QED BY <1>8, <1>9, <2>1
<1>11. PICK a, b : a = SubSeq(l, i + 1, Len(l)) /\ b = SubSeq(l, 1, i - 1)
  OBVIOUS
<1>12. /\ a \in Seq(Nodes) /\ Len(a) = Len(l) - i /\ \A j \in 1..Len(a) : a[j] = l[i + j]
       /\ b \in Seq(Nodes) /\ Len(b) = i - 1 /\ \A j \in 1..Len(b) : b[j] = l[j]
  <2>1. /\ i + 1 \in Nat \ {0} /\ Len(l) \in Nat /\ i + 1 <= Len(l) + 1 /\ 1 \in Nat \ {0}
        /\ i - 1 \in Nat /\ 1 <= (i - 1) + 1 /\ i - 1 <= Len(l) /\ Len(l) <= Len(l)
    BY <1>9, <1>10
  <2>2. /\ a \in Seq(Nodes) /\ Len(a) = Len(l) + 1 - (i + 1)
        /\ \A j \in 1..Len(a) : a[j] = l[(i + 1) + j - 1]
    BY <1>9, <1>11, <2>1, SliceIs
  <2>3. /\ b \in Seq(Nodes) /\ Len(b) = (i - 1) + 1 - 1
        /\ \A j \in 1..Len(b) : b[j] = l[1 + j - 1]
    BY <1>9, <1>11, <2>1, SliceIs
  <2>4. Len(l) + 1 - (i + 1) = Len(l) - i /\ (i - 1) + 1 - 1 = i - 1
    <3>1. PICK n0 : n0 = Len(l)
      OBVIOUS
    <3>2. n0 \in Nat /\ i \in 1..n0
      BY <1>9, <1>10, <3>1
    <3>3. n0 + 1 - (i + 1) = n0 - i /\ (i - 1) + 1 - 1 = i - 1
      BY ONLY <3>2
    <3> QED BY <3>1, <3>3
  <2>5. /\ \A j \in 1..Len(a) : (i + 1) + j - 1 = i + j
        /\ \A j \in 1..Len(b) : 1 + j - 1 = j
    BY <1>10
  <2> QED BY <2>2, <2>3, <2>4, <2>5
<1>13. PICK k : k = a \o b
  OBVIOUS
<1> DEFINE at(j) == IF j <= Len(l) - i THEN i + j ELSE j - (Len(l) - i)
<1>14. /\ k \in Seq(Nodes) /\ Len(k) = Len(l) - 1 /\ DOMAIN k = 1..Len(k)
       /\ \A j \in 1..Len(k) : k[j] = l[at(j)]
  <2>1. /\ k \in Seq(Nodes) /\ Len(k) = Len(a) + Len(b)
        /\ \A j \in 1..Len(k) : k[j] = IF j <= Len(a) THEN a[j] ELSE b[j - Len(a)]
    BY <1>12, <1>13
  <2>2. ASSUME NEW j \in 1..Len(k) PROVE k[j] = l[at(j)]
    <3>1. CASE j <= Len(a)
      BY <1>9, <1>10, <1>12, <2>1, <3>1
    <3>2. CASE ~(j <= Len(a))
      <4>1. j - Len(a) \in 1..Len(b)
        BY <1>9, <1>10, <1>12, <2>1, <3>2
      <4> QED BY <1>9, <1>10, <1>12, <2>1, <3>2, <4>1
    <3> QED BY <3>1, <3>2
  <2>3. Len(k) = Len(l) - 1
    BY <1>9, <1>10, <1>12, <2>1
  <2> QED BY <2>1, <2>2, <2>3
<1>15. /\ \A j \in 1..Len(k) : at(j) \in 1..Len(l) /\ at(j) # i
       /\ \A j1, j2 \in 1..Len(k) : at(j1) = at(j2) => j1 = j2
       /\ \A p \in 1..Len(l) : p # i => \E j \in 1..Len(k) : at(j) = p
  <2>1. \A j \in 1..Len(k) : at(j) \in 1..Len(l) /\ at(j) # i
    BY <1>9, <1>10, <1>14
  <2>2. \A j1, j2 \in 1..Len(k) : at(j1) = at(j2) => j1 = j2
    BY <1>9, <1>10, <1>14
  <2>3. ASSUME NEW p \in 1..Len(l), p # i PROVE \E j \in 1..Len(k) : at(j) = p
    <3>1. CASE p > i
      <4>1. p - i \in 1..Len(k) /\ at(p - i) = p
        BY <1>9, <1>10, <1>14, <3>1
      <4> QED BY <4>1
    <3>2. CASE p < i
      <4>1. p + (Len(l) - i) \in 1..Len(k) /\ at(p + (Len(l) - i)) = p
        BY <1>9, <1>10, <1>14, <3>2
      <4> QED BY <4>1
    <3> QED BY <1>9, <1>10, <2>3, <3>1, <3>2
  <2> QED BY <2>1, <2>2, <2>3
<1> HIDE DEF at
<1>16. Unrepeated(k) /\ ToSet(k) = ToSet(l) \ {n}
  <2>1. \A p, q \in 1..Len(l) : l[p] = l[q] => p = q
    BY <1>9 DEF Unrepeated
  <2>2. ASSUME NEW p \in 1..Len(k), NEW q \in 1..Len(k), k[p] = k[q] PROVE p = q
    BY <1>14, <1>15, <2>1, <2>2
  <2>3. ASSUME NEW j \in 1..Len(k) PROVE k[j] \in ToSet(l) \ {n}
    <3>1. at(j) \in 1..Len(l) /\ at(j) # i /\ k[j] = l[at(j)]
      BY <1>14, <1>15
    <3> QED BY <1>9, <1>10, <2>1, <3>1 DEF ToSet
  <2>4. ASSUME NEW p \in 1..Len(l), l[p] # n PROVE l[p] \in ToSet(k)
    <3>1. PICK j \in 1..Len(k) : at(j) = p
      BY <1>10, <1>15, <2>4
    <3> QED BY <1>14, <3>1 DEF ToSet
  <2>5. ToSet(k) = ToSet(l) \ {n}
    BY <1>9, <1>14, <2>3, <2>4 DEF ToSet
  <2> QED BY <1>14, <2>2, <2>5 DEF Unrepeated
<1>17. h = [g2 EXCEPT !.order = k]
  <2>1. g.order = l
    <3>1. g \in [order : Seq(Nodes), energy : [Nodes -> E], out : [Nodes -> Seq(Edges(M))]]
      BY DEF Good
    <3> QED BY <1>2, <1>5, <1>8, <3>1 DEF DeleteEdgesFrom, DeleteEdgesTo
  <2>2. h = [g2 EXCEPT !.order = SubSeq(@, i + 1, Len(@)) \o SubSeq(@, 1, i - 1)]
    BY <1>2, <1>5, <1>8, <2>1 DEF DeleteVertex
  <2>3. g2 \in [order : Seq(Nodes), energy : [Nodes -> E], out : [Nodes -> Seq(Edges(M))]]
    BY <1>7 DEF Good
  <2> QED BY <1>8, <1>11, <1>13, <2>2, <2>3
<1>18. /\ h \in [order : Seq(Nodes), energy : [Nodes -> E], out : [Nodes -> Seq(Edges(M))]]
       /\ h.order = k /\ h.out = g2.out
  <2> DEFINE V == [Nodes -> E]
             W == [Nodes -> Seq(Edges(M))]
  <2>1. g2 \in [order : Seq(Nodes), energy : V, out : W]
    BY <1>7 DEF Good
  <2> HIDE DEF V, W
  <2>2. h \in [order : Seq(Nodes), energy : V, out : W] /\ h.order = k /\ h.out = g2.out
    BY <1>14, <1>17, <2>1
  <2> QED BY <2>2 DEF V, W
<1>19. Vertices(h) = Vertices(g) \ {n}
  BY <1>7, <1>9, <1>16, <1>18 DEF Vertices
<1>20. ASSUME NEW x \in Nodes PROVE JoinsAt(M, Vertices(h), x, h.out[x])
  <2>1. JoinsAt(M, Vertices(g), x, g2.out[x])
    BY <1>7 DEF Good
  <2>2. \A e \in Held(g2.out[x]) : e.to # n /\ x # n
    BY <1>3, <1>6
  <2> QED BY <1>18, <1>19, <2>1, <2>2 DEF JoinsAt
<1> QED BY <1>16, <1>18, <1>19, <1>20 DEF Good

\* The same energy for one, and other weights for its edges
LEMMA UpdateEnergyIs ==
    ASSUME NEW M, NEW E, Limits(M, E), NEW g, Good(M, E, g), NEW n \in Nodes, NEW level \in E,
           NEW h, h = UpdateEnergy(g, n, level).graph
    PROVE  /\ Good(M, E, h) /\ Vertices(h) = Vertices(g)
           /\ \A x, y \in Nodes : /\ Link(h, x, y) <=> Link(g, x, y)
                                  /\ Dying(h, x, y) <=> Dying(g, x, y)
           /\ Fresh(g) /\ (\A x, y \in Nodes : Link(g, x, y) <=> Link(g, y, x)) => Fresh(h)
<1> DEFINE new(x, e) == [e EXCEPT !.weight = WeightOf(Lower(level, g.energy[x]), e.etx)]
           edge(x, e) == CASE x = n -> new(e.to, e)
                           [] x # n /\ e.to = n /\ HasEdge(g, n, x) -> new(x, e)
                           [] OTHER -> e
<1>1. CASE g.energy[n] = level
  <2>1. h = g
    BY <1>1 DEF UpdateEnergy
  <2> QED BY <2>1
<1>2. CASE g.energy[n] # level
  <2>1. g \in [order : Seq(Nodes), energy : [Nodes -> E], out : [Nodes -> Seq(Edges(M))]]
    BY DEF Good
  <2>2. PICK o, en : /\ o = [x \in Nodes |-> [i \in DOMAIN g.out[x] |-> edge(x, g.out[x][i])]]
                     /\ en = [g.energy EXCEPT ![n] = level]
    OBVIOUS
  <2>3. h = [g EXCEPT !.energy = en, !.out = o]
    BY <1>2, <2>1, <2>2 DEF UpdateEnergy
  <2>4. ASSUME NEW x \in Nodes, NEW e \in Edges(M)
        PROVE  /\ edge(x, e) \in Edges(M) /\ edge(x, e).to = e.to
               /\ edge(x, e).etx = e.etx /\ edge(x, e).status = e.status
    <3>1. ASSUME NEW y
          PROVE  /\ new(y, e) \in Edges(M) /\ new(y, e).to = e.to
                 /\ new(y, e).etx = e.etx /\ new(y, e).status = e.status
      <4>1. PICK w : w = WeightOf(Lower(level, g.energy[y]), e.etx)
        OBVIOUS
      <4>2. e.etx \in 0..MaxEtx
        BY DEF Edges, Limits
      <4>3. w \in 1..MaxWeight
        BY <4>1, <4>2, WeightTyped
      <4>4. new(y, e) = [e EXCEPT !.weight = w]
        BY <4>1
      <4> HIDE DEF new
      <4> QED BY <4>3, <4>4 DEF Edges
    <3>2. edge(x, e) = new(e.to, e) \/ edge(x, e) = new(x, e) \/ edge(x, e) = e
      <4> HIDE DEF new
      <4> QED OBVIOUS
    <3> HIDE DEF edge, new
    <3> QED BY <3>1, <3>2
  <2>5. ASSUME NEW x \in Nodes
        PROVE  EdgeList(M, o[x]) /\ Held(o[x]) = {edge(x, e) : e \in Held(g.out[x])}
    <3>1. PICK l : l = g.out[x]
      OBVIOUS
    <3>2. EdgeList(M, l) /\ l \in Seq(Edges(M)) /\ Held(l) \subseteq Edges(M) /\ \A i \in 1..Len(l) : l[i] \in Held(l)
      BY <3>1, GoodAt
    <3>3. PICK k : k = [i \in 1..Len(l) |-> edge(x, l[i])]
      OBVIOUS
    <3>4. o[x] = k
      <4>1. DOMAIN l = 1..Len(l)
        BY <3>2
      <4> HIDE DEF edge
      <4> QED BY <2>2, <3>1, <3>3, <4>1
    <3>5. \A i \in 1..Len(l) : k[i] = edge(x, l[i]) /\ k[i] \in Edges(M) /\ k[i].to = l[i].to
      <4> HIDE DEF edge
      <4> QED BY <2>4, <3>2, <3>3
    <3> HIDE DEF edge
    <3>6. EdgeList(M, k) /\ Len(k) = Len(l)
      <4>1. k = [i \in 1..Len(l) |-> k[i]]
        BY <3>3
      <4> QED BY <3>2, <3>5, <4>1, Edited
    <3>7. Held(k) = {edge(x, e) : e \in Held(l)}
      <4>1. Held(k) = {k[i] : i \in 1..Len(l)} /\ Held(l) = {l[i] : i \in 1..Len(l)}
        BY <3>6 DEF Held
      <4> QED BY <3>5, <4>1
    <3> QED BY <3>1, <3>4, <3>6, <3>7
  <2>6. /\ h \in [order : Seq(Nodes), energy : [Nodes -> E], out : [Nodes -> Seq(Edges(M))]]
        /\ h.order = g.order /\ h.out = o /\ h.energy = en
    <3> HIDE DEF edge
    <3> DEFINE Q == Seq(Nodes)
               T == Seq(Edges(M))
               V == [Nodes -> E]
               W == [Nodes -> T]
    <3>1. \A x \in Nodes : o[x] \in T
      BY <2>5 DEF EdgeList
    <3> HIDE DEF T
    <3>2. o \in W /\ en \in V
      BY <2>1, <2>2, <3>1
    <3>3. g \in [order : Q, energy : V, out : W]
      BY <2>1 DEF T
    <3> HIDE DEF Q, V, W
    <3>4. h \in [order : Q, energy : V, out : W] /\ h.order = g.order /\ h.out = o /\ h.energy = en
      BY <2>3, <3>2, <3>3
    <3> QED BY <3>4 DEF Q, T, V, W
  <2>7. Vertices(h) = Vertices(g)
    BY <2>6 DEF Vertices
  <2>8. ASSUME NEW x \in Nodes PROVE JoinsAt(M, Vertices(h), x, h.out[x])
    <3>1. JoinsAt(M, Vertices(g), x, g.out[x]) /\ Held(g.out[x]) \subseteq Edges(M)
      BY GoodAt
    <3> HIDE DEF edge
    <3>2. ASSUME NEW d \in Held(o[x]) PROVE x \in Vertices(g) /\ d.to \in Vertices(g) \ {x}
      <4>1. PICK e \in Held(g.out[x]) : d = edge(x, e)
        BY <2>5
      <4>2. d.to = e.to
        BY <2>4, <3>1, <4>1
      <4> QED BY <3>1, <4>2 DEF JoinsAt
    <3> QED BY <2>5, <2>6, <2>7, <3>2 DEF JoinsAt
  <2>9. Good(M, E, h)
    BY <2>6, <2>8 DEF Good
  <2>10. ASSUME NEW x \in Nodes, NEW y \in Nodes
         PROVE  /\ Link(h, x, y) <=> Link(g, x, y)
                /\ Dying(h, x, y) <=> Dying(g, x, y)
    <3>1. Held(g.out[x]) \subseteq Edges(M)
      BY GoodAt
    <3> HIDE DEF edge
    <3>2. Held(h.out[x]) = {edge(x, e) : e \in Held(g.out[x])}
      BY <2>5, <2>6
    <3>3. \A e \in Held(g.out[x]) : edge(x, e).to = e.to /\ edge(x, e).status = e.status
      BY <2>4, <3>1
    <3> QED BY <3>2, <3>3 DEF Link, Dying
  <2>11. ASSUME Fresh(g), \A x, y \in Nodes : Link(g, x, y) <=> Link(g, y, x) PROVE Fresh(h)
    <3> SUFFICES ASSUME NEW x \in Nodes, NEW d \in Held(h.out[x])
                 PROVE  d.weight = WeightOf(Lower(h.energy[x], h.energy[d.to]), d.etx)
      BY DEF Fresh
    <3>1. PICK e \in Held(g.out[x]) : d = edge(x, e)
      <4> HIDE DEF edge
      <4> QED BY <2>5, <2>6
    <3>2. e \in Edges(M) /\ e.to \in Nodes /\ e.to # x
      <4>1. e \in Edges(M) /\ e.to \in Vertices(g) \ {x}
        BY GoodAt
      <4> QED BY <4>1, GoodParts
    <3>3. e.weight = WeightOf(Lower(g.energy[x], g.energy[e.to]), e.etx)
      BY <2>11 DEF Fresh
    <3>4. d.to = e.to /\ d.etx = e.etx
      <4> HIDE DEF edge
      <4> QED BY <2>4, <3>1, <3>2
    <3>5. h.energy[n] = level /\ \A y \in Nodes : y # n => h.energy[y] = g.energy[y]
      BY <2>1, <2>2, <2>6
    <3>6. level \in Int /\ \A y \in Nodes : g.energy[y] \in Int
      <4>1. E \subseteq Int
        BY DEF Limits, MaxBattery
      <4>2. g.energy \in [Nodes -> E]
        BY <2>1
      <4> QED BY <4>1, <4>2
    <3>7. CASE x = n
      <4>1. d = new(e.to, e)
        BY <3>1, <3>7
      <4>2. d.weight = WeightOf(Lower(level, g.energy[e.to]), e.etx)
        BY <3>2, <4>1 DEF Edges
      <4> QED BY <3>2, <3>4, <3>5, <3>7, <4>2
    <3>8. CASE x # n /\ e.to = n
      <4>1. HasEdge(g, n, x)
        <5>1. Link(g, x, n)
          BY <3>8 DEF Link
        <5>2. Link(g, n, x)
          BY <2>11, <5>1
        <5> QED BY <5>2, GoodAt DEF Link
      <4>2. d = new(x, e)
        BY <3>1, <3>8, <4>1
      <4>3. d.weight = WeightOf(Lower(level, g.energy[x]), e.etx)
        BY <3>2, <4>2 DEF Edges
      <4>4. Lower(level, g.energy[x]) = Lower(g.energy[x], level)
        BY <3>6 DEF Lower
      <4> QED BY <3>4, <3>5, <3>8, <4>3, <4>4
    <3>9. CASE x # n /\ e.to # n
      <4>1. d = e
        BY <3>1, <3>9
      <4> QED BY <3>2, <3>3, <3>5, <3>9, <4>1
    <3> QED BY <3>7, <3>8, <3>9
  <2> QED BY <2>7, <2>9, <2>10, <2>11
<1> QED BY <1>1, <1>2

-----------------------------------------------------------------------------
(* The graph: what reports make of it *)

\* A link and its mark are there in both directions.
Balanced(g) ==
    \A x, y \in Nodes : (Link(g, x, y) <=> Link(g, y, x)) /\ (Dying(g, x, y) <=> Dying(g, y, x))

Both == SrcToNeighbors /\ NeighborsToSrc

\* h is as well as g was.
AsWell(g, h) == (Fresh(g) => Fresh(h)) /\ (Both /\ Balanced(g) => Balanced(h))

LEMMA GetVertexKeeps ==
    ASSUME NEW M, NEW E, Limits(M, E), NEW g, Good(M, E, g), NEW n \in Nodes, NEW h, h = GetVertex(g, n)
    PROVE  Good(M, E, h) /\ Vertices(h) = Vertices(g) \union {n} /\ AsWell(g, h)
<1>1. /\ Good(M, E, h) /\ Vertices(h) = Vertices(g) \union {n}
      /\ \A x \in Nodes : /\ Held(h.out[x]) = Held(g.out[x])
                          /\ x \in Vertices(g) => h.energy[x] = g.energy[x]
  BY GetVertexIs
<1>2. Fresh(g) => Fresh(h)
  <2> SUFFICES ASSUME Fresh(g), NEW x \in Nodes, NEW e \in Held(h.out[x])
               PROVE  e.weight = WeightOf(Lower(h.energy[x], h.energy[e.to]), e.etx)
    BY DEF Fresh
  <2>1. e \in Held(g.out[x])
    BY <1>1
  <2>2. x \in Vertices(g) /\ e.to \in Vertices(g)
    BY <2>1, GoodAt
  <2>3. e.to \in Nodes
    BY <2>2, GoodParts
  <2> QED BY <1>1, <2>1, <2>2, <2>3 DEF Fresh
<1>3. \A x, y \in Nodes : (Link(h, x, y) <=> Link(g, x, y)) /\ (Dying(h, x, y) <=> Dying(g, x, y))
  BY <1>1 DEF Link, Dying
<1>4. Balanced(g) => Balanced(h)
  BY <1>3 DEF Balanced
<1> QED BY <1>1, <1>2, <1>4 DEF AsWell

LEMMA MarkUninformedIs ==
    ASSUME NEW M, NEW E, NEW g, Good(M, E, g), NEW s \in Nodes, NEW h, h = MarkUninformed(g, s)
    PROVE  Good(M, E, h) /\ Vertices(h) = Vertices(g) /\ AsWell(g, h)
<1>1. PICK f : f = IF SrcToNeighbors THEN MarkFrom(g, s) ELSE g
  OBVIOUS
<1>2. h = IF NeighborsToSrc THEN MarkTowards(f, s) ELSE f
  BY <1>1 DEF MarkUninformed
<1>3. /\ Recut(M, E, g, f)
      /\ SrcToNeighbors =>
           \A x, y \in Nodes : /\ Link(f, x, y) <=> Link(g, x, y)
                               /\ Dying(f, x, y) <=> IF x = s THEN Link(g, x, y) ELSE Dying(g, x, y)
  <2>1. CASE SrcToNeighbors
    <3>1. f = MarkFrom(g, s)
      BY <1>1, <2>1
    <3> QED BY <3>1, MarkFromIs
  <2>2. CASE ~SrcToNeighbors
    <3>1. f = g
      BY <1>1, <2>2
    <3> QED BY <2>2, <3>1 DEF Recut, Kept
  <2> QED BY <2>1, <2>2
<1>4. Good(M, E, f)
  BY <1>3 DEF Recut, Kept
<1>5. /\ Recut(M, E, f, h)
      /\ NeighborsToSrc =>
           \A x, y \in Nodes : /\ Link(h, x, y) <=> Link(f, x, y)
                               /\ Dying(h, x, y) <=> IF y = s THEN Link(f, x, y) ELSE Dying(f, x, y)
  <2>1. CASE NeighborsToSrc
    <3>1. h = MarkTowards(f, s)
      BY <1>2, <2>1
    <3> QED BY <1>4, <3>1, MarkTowardsIs
  <2>2. CASE ~NeighborsToSrc
    <3>1. h = f
      BY <1>2, <2>2
    <3> QED BY <1>4, <2>2, <3>1 DEF Recut, Kept
  <2> QED BY <2>1, <2>2
<1>6. ASSUME Both, Balanced(g) PROVE Balanced(h)
  <2>1. \A x, y \in Nodes :
          /\ Link(h, x, y) <=> Link(g, x, y)
          /\ Dying(h, x, y) <=> IF x = s \/ y = s THEN Link(g, x, y) ELSE Dying(g, x, y)
    BY <1>3, <1>5, <1>6 DEF Both
  <2>2. \A x, y \in Nodes : (Link(g, x, y) <=> Link(g, y, x)) /\ (Dying(g, x, y) <=> Dying(g, y, x))
    BY <1>6 DEF Balanced
  <2> QED BY <2>1, <2>2 DEF Balanced
<1> QED BY <1>3, <1>5, <1>6 DEF AsWell, Recut, Kept

LEMMA AddNeighborIs ==
    ASSUME NEW M, NEW E, Limits(M, E), NEW g, Good(M, E, g), NEW s \in Vertices(g), NEW n \in Nodes \ {s},
           NEW etx \in M, NEW r, r.graph = g, NEW h, h = AddNeighbor(r, s, n, etx).graph
    PROVE  Good(M, E, h) /\ Vertices(h) = Vertices(g) \union {n} /\ AsWell(g, h)
<1>1. PICK g1 : g1 = GetVertex(g, n)
  OBVIOUS
<1>2. PICK g2 : g2 = IF SrcToNeighbors THEN AddEdge(g1, s, n, etx) ELSE g1
  OBVIOUS
<1>3. h = IF NeighborsToSrc THEN AddEdge(g2, n, s, etx) ELSE g2
  BY <1>1, <1>2 DEF AddNeighbor
<1>4. Good(M, E, g1) /\ Vertices(g1) = Vertices(g) \union {n} /\ AsWell(g, g1)
  BY <1>1, GetVertexKeeps
<1>5. s \in Vertices(g1) /\ n \in Vertices(g1) /\ s # n /\ s \in Nodes
  BY <1>4, GoodParts
<1>6. /\ Recut(M, E, g1, g2)
      /\ SrcToNeighbors =>
           \A a, b \in Nodes : /\ Link(g2, a, b) <=> Link(g1, a, b) \/ (a = s /\ b = n)
                               /\ Dying(g2, a, b) <=> Dying(g1, a, b) /\ ~(a = s /\ b = n)
  <2>1. CASE SrcToNeighbors
    <3>1. g2 = AddEdge(g1, s, n, etx)
      BY <1>2, <2>1
    <3> QED BY <1>4, <1>5, <3>1, AddEdgeIs
  <2>2. CASE ~SrcToNeighbors
    <3>1. g2 = g1
      BY <1>2, <2>2
    <3> QED BY <1>4, <2>2, <3>1 DEF Recut, Kept
  <2> QED BY <2>1, <2>2
<1>7. Good(M, E, g2) /\ Vertices(g2) = Vertices(g1)
  BY <1>6 DEF Recut, Kept
<1>8. /\ Recut(M, E, g2, h)
      /\ NeighborsToSrc =>
           \A a, b \in Nodes : /\ Link(h, a, b) <=> Link(g2, a, b) \/ (a = n /\ b = s)
                               /\ Dying(h, a, b) <=> Dying(g2, a, b) /\ ~(a = n /\ b = s)
  <2>1. CASE NeighborsToSrc
    <3>1. h = AddEdge(g2, n, s, etx)
      BY <1>3, <2>1
    <3> QED BY <1>5, <1>7, <3>1, AddEdgeIs
  <2>2. CASE ~NeighborsToSrc
    <3>1. h = g2
      BY <1>3, <2>2
    <3> QED BY <1>7, <2>2, <3>1 DEF Recut, Kept
  <2> QED BY <2>1, <2>2
<1>9. ASSUME Both, Balanced(g1) PROVE Balanced(h)
  <2>1. \A a, b \in Nodes :
          /\ Link(h, a, b) <=> Link(g1, a, b) \/ (a = s /\ b = n) \/ (a = n /\ b = s)
          /\ Dying(h, a, b) <=> Dying(g1, a, b) /\ ~(a = s /\ b = n) /\ ~(a = n /\ b = s)
    BY <1>6, <1>8, <1>9 DEF Both
  <2>2. \A x, y \in Nodes : (Link(g1, x, y) <=> Link(g1, y, x)) /\ (Dying(g1, x, y) <=> Dying(g1, y, x))
    BY <1>9 DEF Balanced
  <2> QED BY <2>1, <2>2 DEF Balanced
<1>10. Vertices(h) = Vertices(g) \union {n} /\ Good(M, E, h)
  BY <1>4, <1>7, <1>8 DEF Recut, Kept
<1>11. AsWell(g, h)
  BY <1>4, <1>6, <1>8, <1>9 DEF AsWell, Recut
<1> QED BY <1>10, <1>11

LEMMA DeleteUninformedIs ==
    ASSUME NEW M, NEW E, NEW g, Good(M, E, g), NEW s \in Nodes,
           NEW r, r.graph = g, NEW h, h = DeleteUninformed(r, s).graph
    PROVE  Good(M, E, h) /\ Vertices(h) = Vertices(g) /\ AsWell(g, h)
<1>1. PICK g1 : g1 = IF SrcToNeighbors THEN DeleteMarkedTowards(g, s).graph ELSE g
  OBVIOUS
<1>2. h = IF NeighborsToSrc THEN DeleteMarkedFrom(g1, s).graph ELSE g1
  <2>1. CASE SrcToNeighbors
    <3>1. g1 = DeleteMarkedTowards(r.graph, s).graph
      BY <1>1, <2>1
    <3>2. CASE NeighborsToSrc
      BY <2>1, <3>1, <3>2 DEF DeleteUninformed
    <3>3. CASE ~NeighborsToSrc
      BY <2>1, <3>1, <3>3 DEF DeleteUninformed
    <3> QED BY <3>2, <3>3
  <2>2. CASE ~SrcToNeighbors
    <3>1. CASE NeighborsToSrc
      BY <1>1, <2>2, <3>1 DEF DeleteUninformed
    <3>2. CASE ~NeighborsToSrc
      BY <1>1, <2>2, <3>2 DEF DeleteUninformed
    <3> QED BY <3>1, <3>2
  <2> QED BY <2>1, <2>2
<1>3. /\ Recut(M, E, g, g1)
      /\ SrcToNeighbors =>
           \A x, y \in Nodes : /\ Link(g1, x, y) <=> Link(g, x, y) /\ ~(y = s /\ Dying(g, x, y))
                               /\ Dying(g1, x, y) <=> Dying(g, x, y) /\ y # s
  <2>1. CASE SrcToNeighbors
    <3>1. g1 = DeleteMarkedTowards(g, s).graph
      BY <1>1, <2>1
    <3> QED BY <3>1, DeleteTowardsIs
  <2>2. CASE ~SrcToNeighbors
    <3>1. g1 = g
      BY <1>1, <2>2
    <3> QED BY <2>2, <3>1 DEF Recut, Kept
  <2> QED BY <2>1, <2>2
<1>4. Good(M, E, g1)
  BY <1>3 DEF Recut, Kept
<1>5. /\ Recut(M, E, g1, h)
      /\ NeighborsToSrc =>
           \A x, y \in Nodes : /\ Link(h, x, y) <=> Link(g1, x, y) /\ ~(x = s /\ Dying(g1, x, y))
                               /\ Dying(h, x, y) <=> Dying(g1, x, y) /\ x # s
  <2>1. CASE NeighborsToSrc
    <3>1. h = DeleteMarkedFrom(g1, s).graph
      BY <1>2, <2>1
    <3> QED BY <1>4, <3>1, DeleteFromIs
  <2>2. CASE ~NeighborsToSrc
    <3>1. h = g1
      BY <1>2, <2>2
    <3> QED BY <1>4, <2>2, <3>1 DEF Recut, Kept
  <2> QED BY <2>1, <2>2
<1>6. ASSUME Both, Balanced(g) PROVE Balanced(h)
  <2>1. \A x, y \in Nodes :
          /\ Link(g1, x, y) <=> Link(g, x, y) /\ ~(y = s /\ Dying(g, x, y))
          /\ Dying(g1, x, y) <=> Dying(g, x, y) /\ y # s
          /\ Link(h, x, y) <=> Link(g1, x, y) /\ ~(x = s /\ Dying(g1, x, y))
          /\ Dying(h, x, y) <=> Dying(g1, x, y) /\ x # s
    BY <1>3, <1>5, <1>6 DEF Both
  <2>2. \A x, y \in Nodes : (Link(g, x, y) <=> Link(g, y, x)) /\ (Dying(g, x, y) <=> Dying(g, y, x))
    BY <1>6 DEF Balanced
  <2>3. \A x \in Nodes : ~Link(g, x, x)
    <3> SUFFICES ASSUME NEW x \in Nodes PROVE ~Link(g, x, x)
      OBVIOUS
    <3>1. \A e \in Held(g.out[x]) : e.to # x
      BY GoodAt
    <3> QED BY <3>1 DEF Link
  <2>4. ASSUME NEW x \in Nodes, NEW y \in Nodes
        PROVE  /\ Link(h, x, y) <=> Link(g, x, y) /\ ~((x = s \/ y = s) /\ Dying(g, x, y))
               /\ Dying(h, x, y) <=> Dying(g, x, y) /\ x # s /\ y # s
    <3>1. Dying(g, x, y) => Link(g, x, y)
      BY DEF Dying, Link
    <3> QED BY <2>1, <2>3, <3>1
  <2> QED BY <2>2, <2>4 DEF Balanced
<1> QED BY <1>3, <1>5, <1>6 DEF AsWell, Recut, Kept

GraphSet(M, E) == {g \in [order : Seq(Nodes), energy : [Nodes -> E], out : [Nodes -> Seq(Edges(M))]] : Good(M, E, g)}

\* What a report of s makes of the graph g0, neighbor by neighbor
Listing(M, E, g0, s) ==
    {t \in [graph : GraphSet(M, E), changed : BOOLEAN] : s \in Vertices(t.graph) /\ AsWell(g0, t.graph)}

LEMMA ReportBegins ==
    ASSUME NEW M, NEW E, Limits(M, E), NEW g0, Good(M, E, g0), NEW s \in Nodes, NEW g2,
           g2 = MarkUninformed(GetVertex(g0, s), s)
    PROVE  [graph |-> g2, changed |-> s \notin Vertices(g0)] \in Listing(M, E, g0, s)
<1>1. PICK g1 : g1 = GetVertex(g0, s)
  OBVIOUS
<1>2. Good(M, E, g1) /\ s \in Vertices(g1) /\ AsWell(g0, g1)
  BY <1>1, GetVertexKeeps
<1>3. Good(M, E, g2) /\ s \in Vertices(g2) /\ AsWell(g1, g2)
  BY <1>1, <1>2, MarkUninformedIs
<1>4. AsWell(g0, g2) /\ g2 \in GraphSet(M, E)
  BY <1>2, <1>3 DEF AsWell, GraphSet, Good
<1>5. (s \notin Vertices(g0)) \in BOOLEAN
  OBVIOUS
<1> QED BY <1>3, <1>4, <1>5 DEF Listing

LEMMA ReportGoesOn ==
    ASSUME NEW M, NEW E, Limits(M, E), NEW g0, NEW s \in Nodes, NEW t \in Listing(M, E, g0, s),
           NEW n \in Nodes \ {s}, NEW etx \in M, NEW u, u = AddNeighbor(t, s, n, etx)
    PROVE  u \in Listing(M, E, g0, s)
<1>1. PICK g, h : g = t.graph /\ h = u.graph
  OBVIOUS
<1>2. Good(M, E, g) /\ s \in Vertices(g) /\ AsWell(g0, g) /\ t.changed \in BOOLEAN
  BY <1>1 DEF Listing, GraphSet
<1>3. Good(M, E, h) /\ s \in Vertices(h) /\ AsWell(g, h)
  BY <1>1, <1>2, AddNeighborIs
<1>4. AsWell(g0, h) /\ h \in GraphSet(M, E)
  BY <1>2, <1>3 DEF AsWell, GraphSet, Good
<1>5. \E b \in BOOLEAN : u = [graph |-> h, changed |-> b]
  BY <1>1 DEF AddNeighbor
<1> QED BY <1>3, <1>4, <1>5 DEF Listing

LEMMA ReportEnds ==
    ASSUME NEW M, NEW E, NEW g0, NEW s \in Nodes, NEW t \in Listing(M, E, g0, s),
           NEW r, r = DeleteUninformed(t, s)
    PROVE  Good(M, E, r.graph) /\ AsWell(g0, r.graph) /\ r.changed \in BOOLEAN
<1>1. PICK g, h : g = t.graph /\ h = r.graph
  OBVIOUS
<1>2. Good(M, E, g) /\ AsWell(g0, g)
  BY <1>1 DEF Listing, GraphSet
<1>3. Good(M, E, h) /\ AsWell(g, h)
  BY <1>1, <1>2, DeleteUninformedIs
<1>4. r.changed \in BOOLEAN
  BY DEF DeleteUninformed
<1> QED BY <1>1, <1>2, <1>3, <1>4 DEF AsWell

\* A list, and the metrics of what is in it
LEMMA ListedIs ==
    ASSUME NEW T, NEW M, NEW list \in Seq(T), NEW metric \in [ToSet(list) -> M]
    PROVE  Len(list) \in Nat /\ \A i \in 1..Len(list) : list[i] \in T /\ metric[list[i]] \in M
<1>1. Len(list) \in Nat /\ DOMAIN list = 1..Len(list) /\ \A i \in 1..Len(list) : list[i] \in T
  OBVIOUS
<1>2. \A i \in 1..Len(list) : list[i] \in ToSet(list)
  BY <1>1 DEF ToSet
<1> QED BY <1>1, <1>2

\* A report of a node keeps the graph well.
LEMMA ReportedGraphIs ==
    ASSUME NEW M, NEW E, Limits(M, E), NEW g0, Good(M, E, g0), NEW s \in Nodes,
           NEW list \in Seq(Nodes \ {s}), NEW metric \in [ToSet(list) -> M],
           NEW r, r = ReportedGraph(g0, s, list, metric)
    PROVE  Good(M, E, r.graph) /\ AsWell(g0, r.graph) /\ r.changed \in BOOLEAN
<1> DEFINE m == Len(list)
           S == Listing(M, E, g0, s)
           start == [graph |-> MarkUninformed(GetVertex(g0, s), s), changed |-> s \notin Vertices(g0)]
           Step(t, i) == AddNeighbor(t, s, list[i], metric[list[i]])
           Rec(g) == g = [i \in 0..m |-> IF i = 0 THEN start ELSE Step(g[i - 1], i)]
<1>1. m \in Nat /\ \A i \in 1..m : list[i] \in Nodes \ {s} /\ metric[list[i]] \in M
  BY ListedIs
<1>2. start \in S
  BY ReportBegins
<1>3. \A i \in 1..m : \A t \in S : Step(t, i) \in S
  <2> HIDE DEF m, S
  <2> QED BY <1>1, ReportGoesOn DEF S
<1>4. PICK all : all = Folded(LAMBDA t, n : AddNeighbor(t, s, n, metric[n]), start, list)
  BY Zenon
<1>5. PICK g : /\ g \in [0..m -> S] /\ g[0] = start /\ all = g[m]
               /\ \A i \in 1..m : g[i] = Step(g[i - 1], i)
  <2> DEFINE f == [i \in 1..m |-> [t \in S |-> Step(t, i)]]
  <2>1. f \in [1..m -> [S -> S]]
    <3> HIDE DEF Step, m, S
    <3> QED BY <1>3
  <2>0. PICK g : Steps(m, S, start, f, g)
    <3>1. m \in Nat /\ start \in S /\ f \in [1..m -> [S -> S]]
      BY <1>1, <1>2, <2>1
    <3> HIDE DEF f, m, S, Step, Rec, start
    <3> QED BY <3>1, StepsExist
  <2>2. g \in [0..m -> S] /\ g[0] = start /\ \A i \in 1..m : g[i] = f[i][g[i - 1]]
    <3> HIDE DEF f, m, S, Step, Rec, start
    <3> QED BY <2>0 DEF Steps
  <2>3. \A i \in 1..m : g[i] = Step(g[i - 1], i)
    <3> SUFFICES ASSUME NEW i \in 1..m PROVE g[i] = Step(g[i - 1], i)
      OBVIOUS
    <3>1. i - 1 \in 0..m
      BY <1>1
    <3> HIDE DEF m, S, Step, start
    <3> QED BY <2>2, <3>1
  <2>4. Rec(g)
    <3>1. ASSUME NEW i \in 0..m PROVE g[i] = IF i = 0 THEN start ELSE Step(g[i - 1], i)
      <4>1. i = 0 \/ i \in 1..m
        BY <1>1
      <4> HIDE DEF m, S, Step, start
      <4> QED BY <2>2, <2>3, <4>1
    <3> HIDE DEF m, S, Step, start
    <3> QED BY <2>2, <3>1
  <2> DEFINE h == CHOOSE h : Rec(h)
  <2>5. all = h[m]
    BY <1>4 DEF Folded
  <2>6. Rec(h)
    <3> HIDE DEF Rec
    <3> QED BY <2>4
  <2> HIDE DEF h
  <2>7. \A i \in 0..m : h[i] = IF i = 0 THEN start ELSE Step(h[i - 1], i)
    <3> HIDE DEF Step, start, m
    <3> QED BY <2>6
  <2>8. h[0] = g[0] /\ \A i \in 1..m : h[i - 1] = g[i - 1] => h[i] = g[i]
    <3>1. 0 \in 0..m /\ \A i \in 1..m : i \in 0..m /\ i # 0
      BY <1>1
    <3> HIDE DEF Step, start, m, S
    <3> QED BY <2>2, <2>3, <2>7, <3>1
  <2>9. h[m] = g[m]
    <3>1. m \in Nat
      BY <1>1
    <3> HIDE DEF m, Step, S, start
    <3> QED BY <2>8, <3>1, SameSteps
  <2> QED BY <2>2, <2>3, <2>5, <2>9
<1>6. all \in S
  BY <1>1, <1>5
<1>7. r = DeleteUninformed(all, s)
  BY <1>4, Zenon DEF ReportedGraph
<1> QED BY <1>6, <1>7, ReportEnds

\* So does a report of its energy.
LEMMA ChargedGraphIs ==
    ASSUME NEW M, NEW E, Limits(M, E), NEW g, Good(M, E, g), NEW s \in Nodes, NEW level \in E,
           NEW r, r = ChargedGraph(g, s, level)
    PROVE  /\ Good(M, E, r.graph) /\ r.changed \in BOOLEAN
           /\ Both /\ Fresh(g) /\ Balanced(g) => Fresh(r.graph) /\ Balanced(r.graph)
<1>1. PICK g1, h : g1 = GetVertex(g, s) /\ h = UpdateEnergy(g1, s, level).graph
  OBVIOUS
<1>2. Good(M, E, g1) /\ AsWell(g, g1)
  BY <1>1, GetVertexKeeps
<1>3. r.graph = h /\ r.changed \in BOOLEAN
  BY <1>1 DEF ChargedGraph
<1>4. /\ Good(M, E, h)
      /\ \A x, y \in Nodes : (Link(h, x, y) <=> Link(g1, x, y)) /\ (Dying(h, x, y) <=> Dying(g1, x, y))
      /\ Fresh(g1) /\ (\A x, y \in Nodes : Link(g1, x, y) <=> Link(g1, y, x)) => Fresh(h)
  BY <1>1, <1>2, UpdateEnergyIs
<1>5. ASSUME Both, Fresh(g), Balanced(g) PROVE Fresh(h) /\ Balanced(h)
  <2>1. Fresh(g1) /\ Balanced(g1)
    BY <1>2, <1>5 DEF AsWell
  <2>2. \A x, y \in Nodes : (Link(g1, x, y) <=> Link(g1, y, x)) /\ (Dying(g1, x, y) <=> Dying(g1, y, x))
    BY <2>1 DEF Balanced
  <2>3. Balanced(h)
    BY <1>4, <2>2 DEF Balanced
  <2> QED BY <1>4, <2>1, <2>2, <2>3
<1> QED BY <1>3, <1>4, <1>5

-----------------------------------------------------------------------------
(* What a search finds *)

\* The least of some places of a list, or 0
LEMMA FirstIs ==
    ASSUME NEW n \in Nat, NEW I \in SUBSET (1..n), NEW k, k = IF I # {} THEN Min(I) ELSE 0
    PROVE  k \in 0..n /\ (k = 0 <=> I = {}) /\ (k # 0 => k \in I)
<1>1. CASE I = {}
  BY <1>1
<1>2. CASE I # {}
  <2>1. \E x \in I : \A y \in I : x <= y
    <3>1. I \in SUBSET Nat
      OBVIOUS
    <3> QED BY <1>2, <3>1, LeastOf
  <2>2. k \in I
    BY <1>2, <2>1, Zenon DEF Min
  <2>3. k \in 1..n
    BY <2>2
  <2> QED BY <1>2, <2>2, <2>3
<1> QED BY <1>1, <1>2

\* A sequence stays one when something is put in.
LEMMA PutIn ==
    ASSUME NEW S, NEW l \in Seq(S), NEW x \in S, NEW i \in 1..Len(l), NEW r, r = InsertAt(l, i, x)
    PROVE  r \in Seq(S)
<1> DEFINE p == SubSeq(l, 1, i - 1)
           q == SubSeq(l, i, Len(l))
<1>0. Len(l) \in Nat /\ i \in Nat \ {0} /\ i - 1 \in Nat /\ i - 1 <= Len(l) /\ i <= Len(l) + 1 /\ i <= Len(l)
  OBVIOUS
<1>1. p \in Seq(S)
  <2>1. 1 \in Nat \ {0} /\ 1 <= (i - 1) + 1
    BY <1>0
  <2> HIDE DEF p
  <2> QED BY <1>0, <2>1, SliceIs DEF p
<1>2. q \in Seq(S)
  BY <1>0, SliceIs
<1>3. r = p \o <<x>> \o q
  BY DEF InsertAt
<1> HIDE DEF p, q
<1> QED BY <1>1, <1>2, <1>3

Searches ==
    {s \in [seen : SUBSET Nodes, weight : [Nodes -> Nat], root : [Nodes -> Nodes \union {NoNode}], queue : Seq(Nodes)] :
        \A n \in Nodes : s.root[n] # NoNode => s.root[n] \in s.seen /\ s.weight[s.root[n]] <= s.weight[n]}

\* A search with another list of what waits
LEMMA Requeued ==
    ASSUME NEW s \in Searches, NEW q \in Seq(Nodes), NEW r, r = [s EXCEPT !.queue = q]
    PROVE  r \in Searches /\ r.seen = s.seen /\ r.weight = s.weight /\ r.root = s.root
<1> DEFINE Q == Seq(Nodes)
           W == [Nodes -> Nat]
           R == [Nodes -> Nodes \union {NoNode}]
           V == SUBSET Nodes
<1>1. s \in [seen : V, weight : W, root : R, queue : Q] /\ q \in Q
  BY DEF Searches
<1>2. r \in [seen : V, weight : W, root : R, queue : Q] /\ r.seen = s.seen /\ r.weight = s.weight /\ r.root = s.root
  <2> HIDE DEF Q, W, R, V
  <2> QED BY <1>1
<1>3. \A n \in Nodes : r.root[n] # NoNode => r.root[n] \in r.seen /\ r.weight[r.root[n]] <= r.weight[n]
  <2>1. \A n \in Nodes : s.root[n] # NoNode => s.root[n] \in s.seen /\ s.weight[s.root[n]] <= s.weight[n]
    BY DEF Searches
  <2> HIDE DEF Q, W, R, V
  <2> QED BY <1>2, <2>1
<1> HIDE DEF Q, W, R, V
<1> QED BY <1>2, <1>3 DEF Searches, Q, W, R, V

LEMMA PushIs ==
    ASSUME NEW s \in Searches, NEW n \in Nodes, NEW r, r = Push(s, n)
    PROVE  r \in Searches /\ r.seen = s.seen
<1> DEFINE I == {i \in 1..Len(s.queue) : s.weight[n] < s.weight[s.queue[i]]}
<1>1. PICK far : far = SelectInSeq(s.queue, LAMBDA x : s.weight[n] < s.weight[x])
  OBVIOUS
<1>2. s.queue \in Seq(Nodes)
  BY DEF Searches
<1>3. far \in 0..Len(s.queue)
  <2>1. far = IF I # {} THEN Min(I) ELSE 0
    BY <1>1 DEF SelectInSeq
  <2>2. Len(s.queue) \in Nat /\ I \in SUBSET (1..Len(s.queue))
    BY <1>2
  <2> HIDE DEF I
  <2> QED BY <2>1, <2>2, FirstIs
<1>4. PICK q : q = IF far = 0 THEN Append(s.queue, n) ELSE InsertAt(s.queue, far, n)
  OBVIOUS
<1>5. q \in Seq(Nodes)
  <2>1. CASE far = 0
    BY <1>2, <1>4, <2>1
  <2>2. CASE far # 0
    <3>1. far \in 1..Len(s.queue) /\ q = InsertAt(s.queue, far, n)
      BY <1>2, <1>3, <1>4, <2>2
    <3> QED BY <1>2, <3>1, PutIn
  <2> QED BY <2>1, <2>2
<1>6. r = [s EXCEPT !.queue = q]
  BY <1>1, <1>4 DEF Push
<1> QED BY <1>5, <1>6, Requeued

\* A vertex that was not seen is found from one that was.
Nearer(s, v, x, w) == [s EXCEPT !.weight[x] = w, !.root[x] = v]

LEMMA NearerIs ==
    ASSUME NEW s \in Searches, NEW v \in s.seen, NEW x \in Nodes, x \notin s.seen, NEW w \in Nat, s.weight[v] <= w,
           NEW r, r = Nearer(s, v, x, w)
    PROVE  r \in Searches /\ r.seen = s.seen
<1> DEFINE Q == Seq(Nodes)
           W == [Nodes -> Nat]
           R == [Nodes -> Nodes \union {NoNode}]
           V == SUBSET Nodes
<1>1. s \in [seen : V, weight : W, root : R, queue : Q] /\ s.weight \in W /\ s.root \in R /\ v \in Nodes /\ s.seen \subseteq Nodes
  BY DEF Searches
<1>2. PICK a, b : a = [s.weight EXCEPT ![x] = w] /\ b = [s.root EXCEPT ![x] = v]
  OBVIOUS
<1>3. /\ a \in W /\ b \in R
      /\ \A n \in Nodes : a[n] = (IF n = x THEN w ELSE s.weight[n]) /\ b[n] = (IF n = x THEN v ELSE s.root[n])
  BY <1>1, <1>2
<1>4. r = [s EXCEPT !.weight = a, !.root = b]
  <2> HIDE DEF Q, W, R, V
  <2> QED BY <1>1, <1>2 DEF Nearer
<1>5. r \in [seen : V, weight : W, root : R, queue : Q] /\ r.seen = s.seen /\ r.weight = a /\ r.root = b
  <2> HIDE DEF Q, W, R, V
  <2> QED BY <1>1, <1>3, <1>4
<1>6. \A n \in Nodes : s.root[n] # NoNode => s.root[n] \in s.seen /\ s.weight[s.root[n]] <= s.weight[n]
  BY DEF Searches
<1>7. ASSUME NEW n \in Nodes, r.root[n] # NoNode PROVE r.root[n] \in r.seen /\ r.weight[r.root[n]] <= r.weight[n]
  <2>1. CASE n = x
    <3>1. v # x /\ r.root[n] = v /\ r.weight[v] = s.weight[v] /\ r.weight[n] = w
      BY <1>1, <1>3, <1>5, <2>1
    <3> QED BY <1>5, <3>1
  <2>2. CASE n # x
    <3>1. r.root[n] = s.root[n] /\ r.weight[n] = s.weight[n]
      BY <1>3, <1>5, <2>2
    <3>2. s.root[n] \in s.seen /\ s.weight[s.root[n]] <= s.weight[n]
      BY <1>6, <1>7, <3>1
    <3>3. s.root[n] \in Nodes /\ s.root[n] # x
      BY <1>1, <3>2
    <3>4. r.weight[s.root[n]] = s.weight[s.root[n]]
      BY <1>3, <1>5, <3>3
    <3> QED BY <1>5, <3>1, <3>2, <3>4
  <2> QED BY <2>1, <2>2
<1> HIDE DEF Q, W, R, V
<1> QED BY <1>5, <1>7 DEF Searches, Q, W, R, V

\* A search that has seen v
Past(v) == {s \in Searches : v \in s.seen}

LEMMA RelaxIs ==
    ASSUME NEW v \in Nodes, NEW s \in Past(v), NEW e, e.to \in Nodes, e.weight \in Nat, NEW r, r = Relax(s, v, e)
    PROVE  r \in Past(v)
<1>1. PICK w : w = s.weight[v] + e.weight
  OBVIOUS
<1>2. s \in Searches /\ v \in s.seen /\ w \in Nat /\ s.weight[v] <= w
  <2>1. s.weight \in [Nodes -> Nat]
    BY DEF Past, Searches
  <2> QED BY <1>1, <2>1 DEF Past
<1>3. PICK found : found = Nearer(s, v, e.to, w)
  OBVIOUS
<1>4. \/ r = s
      \/ e.to \notin s.seen /\ r = Push(found, e.to)
      \/ e.to \notin s.seen /\ r = found
  <2>1. r = CASE e.to \in s.seen -> s
              [] e.to \notin s.seen /\ s.root[e.to] = NoNode -> Push(found, e.to)
              [] e.to \notin s.seen /\ s.root[e.to] # NoNode -> IF w < s.weight[e.to] THEN found ELSE s
    BY <1>1, <1>3 DEF Relax, Nearer
  <2> QED BY <2>1
<1>5. ASSUME e.to \notin s.seen PROVE found \in Searches /\ found.seen = s.seen
  BY <1>2, <1>3, <1>5, NearerIs
<1>6. ASSUME e.to \notin s.seen, r = Push(found, e.to) PROVE r \in Searches /\ r.seen = s.seen
  BY <1>5, <1>6, PushIs
<1> QED BY <1>2, <1>4, <1>5, <1>6 DEF Past

LEMMA VisitIs ==
    ASSUME NEW M, NEW E, NEW g, Good(M, E, g), NEW v \in Nodes, NEW s \in Searches, NEW r, r = Visit(g, s, v)
    PROVE  r \in Searches
<1> DEFINE l == g.out[v]
           m == Len(l)
           S == Past(v)
           start == [s EXCEPT !.seen = @ \union {v}]
           Step(t, i) == Relax(t, v, l[i])
           Rec(h) == h = [i \in 0..m |-> IF i = 0 THEN start ELSE Step(h[i - 1], i)]
<1>1. m \in Nat /\ \A i \in 1..m : l[i].to \in Nodes /\ l[i].weight \in Nat
  <2>1. l \in Seq(Edges(M)) /\ m \in Nat
    BY GoodAt
  <2>2. \A e \in Edges(M) : e.to \in Nodes /\ e.weight \in Nat
    BY DEF Edges
  <2> HIDE DEF l
  <2> QED BY <2>1, <2>2
<1>2. start \in S
  <2> DEFINE Q == Seq(Nodes)
             W == [Nodes -> Nat]
             R == [Nodes -> Nodes \union {NoNode}]
             V == SUBSET Nodes
  <2>1. s \in [seen : V, weight : W, root : R, queue : Q] /\ s.seen \union {v} \in V
    BY DEF Searches
  <2>2. start \in [seen : V, weight : W, root : R, queue : Q] /\ start.seen = s.seen \union {v} /\ start.weight = s.weight /\ start.root = s.root
    <3> HIDE DEF Q, W, R, V
    <3> QED BY <2>1
  <2>3. \A n \in Nodes : start.root[n] # NoNode => start.root[n] \in start.seen /\ start.weight[start.root[n]] <= start.weight[n]
    <3>1. \A n \in Nodes : s.root[n] # NoNode => s.root[n] \in s.seen /\ s.weight[s.root[n]] <= s.weight[n]
      BY DEF Searches
    <3> HIDE DEF Q, W, R, V, start
    <3> QED BY <2>2, <3>1
  <2>4. start \in Searches
    <3> HIDE DEF start
    <3> QED BY <2>2, <2>3 DEF Searches
  <2> HIDE DEF start
  <2> QED BY <2>2, <2>4 DEF Past
<1>3. \A i \in 1..m : \A t \in S : Step(t, i) \in S
  <2> HIDE DEF m, l
  <2> QED BY <1>1, RelaxIs
<1>4. PICK z : /\ z \in [0..m -> S] /\ z[0] = start /\ r = z[m]
               /\ \A i \in 1..m : z[i] = Step(z[i - 1], i)
  <2> DEFINE f == [i \in 1..m |-> [t \in S |-> Step(t, i)]]
  <2>1. f \in [1..m -> [S -> S]]
    <3> HIDE DEF Step, m, S
    <3> QED BY <1>3
  <2>0. PICK z : Steps(m, S, start, f, z)
    <3>1. m \in Nat /\ start \in S /\ f \in [1..m -> [S -> S]]
      BY <1>1, <1>2, <2>1
    <3> HIDE DEF f, m, S, Step, Rec, start
    <3> QED BY <3>1, StepsExist
  <2>2. z \in [0..m -> S] /\ z[0] = start /\ \A i \in 1..m : z[i] = f[i][z[i - 1]]
    <3> HIDE DEF f, m, S, Step, Rec, start
    <3> QED BY <2>0 DEF Steps
  <2>3. \A i \in 1..m : z[i] = Step(z[i - 1], i)
    <3> SUFFICES ASSUME NEW i \in 1..m PROVE z[i] = Step(z[i - 1], i)
      OBVIOUS
    <3>1. i - 1 \in 0..m
      BY <1>1
    <3> HIDE DEF m, S, Step, start
    <3> QED BY <2>2, <3>1
  <2>4. Rec(z)
    <3>1. ASSUME NEW i \in 0..m PROVE z[i] = IF i = 0 THEN start ELSE Step(z[i - 1], i)
      <4>1. i = 0 \/ i \in 1..m
        BY <1>1
      <4> HIDE DEF m, S, Step, start
      <4> QED BY <2>2, <2>3, <4>1
    <3> HIDE DEF m, S, Step, start
    <3> QED BY <2>2, <3>1
  <2> DEFINE h == CHOOSE h : Rec(h)
  <2>5. r = h[m]
    BY DEF Visit, Folded
  <2>6. Rec(h)
    <3> HIDE DEF Rec
    <3> QED BY <2>4
  <2> HIDE DEF h
  <2>7. \A i \in 0..m : h[i] = IF i = 0 THEN start ELSE Step(h[i - 1], i)
    <3> HIDE DEF Step, start, m
    <3> QED BY <2>6
  <2>8. h[0] = z[0] /\ \A i \in 1..m : h[i - 1] = z[i - 1] => h[i] = z[i]
    <3>1. 0 \in 0..m /\ \A i \in 1..m : i \in 0..m /\ i # 0
      BY <1>1
    <3> HIDE DEF Step, start, m, S
    <3> QED BY <2>2, <2>3, <2>7, <3>1
  <2>9. h[m] = z[m]
    <3>1. m \in Nat
      BY <1>1
    <3> HIDE DEF m, Step, S, start
    <3> QED BY <2>8, <3>1, SameSteps
  <2> QED BY <2>2, <2>3, <2>5, <2>9
<1>5. r \in S
  BY <1>1, <1>4
<1> QED BY <1>5 DEF Past

LEMMA NodesCounted ==
    ASSUME NEW n \in Nodes
    PROVE  Cardinality(Nodes) \in Nat /\ Cardinality(Nodes) >= 1
<1>1. Cardinality(Nodes) \in Nat /\ (Cardinality(Nodes) = 0 <=> Nodes = {})
  BY NodesAssumption, FS_CardinalityType, FS_EmptySet
<1> QED BY <1>1

LEMMA ExploredIs ==
    ASSUME NEW M, NEW E, NEW g, Good(M, E, g), NEW from \in Nodes, NEW r, r = Explored(g, from)
    PROVE  r \in Searches
<1> DEFINE m == Cardinality(Nodes)
           S == Searches
           start == Visit(g, StartSearch, from)
           Step(s, i) == IF s.queue = <<>> THEN s ELSE Visit(g, [s EXCEPT !.queue = Tail(@)], Head(s.queue))
           Rec(h) == h = [i \in 0..m |-> IF i = 0 THEN start ELSE Step(h[i - 1], i)]
<1>1. m \in Nat
  BY NodesCounted
<1>2. start \in S
  <2>1. StartSearch \in Searches
    BY DEF StartSearch, Searches
  <2> QED BY <2>1, VisitIs
<1>3. \A i \in 1..m : \A t \in S : Step(t, i) \in S
  <2> SUFFICES ASSUME NEW t \in S PROVE \A i \in 1..m : Step(t, i) \in S
    OBVIOUS
  <2>1. CASE t.queue = <<>>
    BY <2>1
  <2>2. CASE t.queue # <<>>
    <3>1. t.queue \in Seq(Nodes)
      BY DEF Searches
    <3>2. PICK q, n : q = Tail(t.queue) /\ n = Head(t.queue)
      OBVIOUS
    <3>3. q \in Seq(Nodes) /\ n \in Nodes
      BY <2>2, <3>1, <3>2
    <3>4. PICK u : u = [t EXCEPT !.queue = q]
      OBVIOUS
    <3>5. u \in Searches
      BY <3>3, <3>4, Requeued
    <3>6. \A i \in 1..m : Step(t, i) = Visit(g, u, n)
      BY <2>2, <3>2, <3>4
    <3>7. Visit(g, u, n) \in Searches
      BY <3>3, <3>5, VisitIs
    <3> HIDE DEF Step
    <3> QED BY <3>6, <3>7
  <2> QED BY <2>1, <2>2
<1>4. PICK z : /\ z \in [0..m -> S] /\ z[0] = start /\ r = z[m]
               /\ \A i \in 1..m : z[i] = Step(z[i - 1], i)
  <2> DEFINE f == [i \in 1..m |-> [t \in S |-> Step(t, i)]]
  <2>1. f \in [1..m -> [S -> S]]
    <3> HIDE DEF Step, m, S
    <3> QED BY <1>3
  <2>0. PICK z : Steps(m, S, start, f, z)
    <3>1. m \in Nat /\ start \in S /\ f \in [1..m -> [S -> S]]
      BY <1>1, <1>2, <2>1
    <3> HIDE DEF f, m, S, Step, Rec, start
    <3> QED BY <3>1, StepsExist
  <2>2. z \in [0..m -> S] /\ z[0] = start /\ \A i \in 1..m : z[i] = f[i][z[i - 1]]
    <3> HIDE DEF f, m, S, Step, Rec, start
    <3> QED BY <2>0 DEF Steps
  <2>3. \A i \in 1..m : z[i] = Step(z[i - 1], i)
    <3> SUFFICES ASSUME NEW i \in 1..m PROVE z[i] = Step(z[i - 1], i)
      OBVIOUS
    <3>1. i - 1 \in 0..m
      BY <1>1
    <3> HIDE DEF m, S, Step, start
    <3> QED BY <2>2, <3>1
  <2>4. Rec(z)
    <3>1. ASSUME NEW i \in 0..m PROVE z[i] = IF i = 0 THEN start ELSE Step(z[i - 1], i)
      <4>1. i = 0 \/ i \in 1..m
        BY <1>1
      <4> HIDE DEF m, S, Step, start
      <4> QED BY <2>2, <2>3, <4>1
    <3> HIDE DEF m, S, Step, start
    <3> QED BY <2>2, <3>1
  <2> DEFINE h == CHOOSE h : Rec(h)
  <2>5. r = h[m]
    BY DEF Explored
  <2>6. Rec(h)
    <3> HIDE DEF Rec
    <3> QED BY <2>4
  <2> HIDE DEF h
  <2>7. \A i \in 0..m : h[i] = IF i = 0 THEN start ELSE Step(h[i - 1], i)
    <3> HIDE DEF Step, start, m
    <3> QED BY <2>6
  <2>8. h[0] = z[0] /\ \A i \in 1..m : h[i - 1] = z[i - 1] => h[i] = z[i]
    <3>1. 0 \in 0..m /\ \A i \in 1..m : i \in 0..m /\ i # 0
      BY <1>1
    <3> HIDE DEF Step, start, m, S
    <3> QED BY <2>2, <2>3, <2>7, <3>1
  <2>9. h[m] = z[m]
    <3>1. m \in Nat
      BY <1>1
    <3> HIDE DEF m, Step, S, start
    <3> QED BY <2>8, <3>1, SameSteps
  <2> QED BY <2>2, <2>3, <2>5, <2>9
<1> QED BY <1>1, <1>4

Hops == [node : Nodes, weight : Nat, hops : Nat]
Routes == {p \in Seq(Hops) : p = <<>> \/ Len(p) >= 2}

\* A route back from a vertex, whose last is no farther than that
Backs(s, to) == {p \in Seq(Hops) : Len(p) >= 1 /\ s.weight[p[Len(p)].node] <= s.weight[to]}

\* A route from one vertex to the one it was found from
Onward(s, to, p) ==
    LET v == s.root[p[Len(p)].node]
    IN  IF v = NoNode THEN p
        ELSE Append(p, [node |-> v, weight |-> s.weight[to] - s.weight[v], hops |-> Len(p)])

LEMMA OnwardIs ==
    ASSUME NEW s \in Searches, NEW to \in Nodes, NEW p \in Backs(s, to), NEW r, r = Onward(s, to, p)
    PROVE  /\ r \in Backs(s, to) /\ Len(r) >= Len(p)
           /\ s.root[p[Len(p)].node] # NoNode => Len(r) = Len(p) + 1
<1>0. p \in Seq(Hops) /\ Len(p) \in Nat /\ Len(p) >= 1 /\ s.weight[p[Len(p)].node] <= s.weight[to]
  BY DEF Backs
<1>1. PICK u : u = p[Len(p)].node
  OBVIOUS
<1>2. u \in Nodes /\ s.weight[u] <= s.weight[to]
  <2>1. p[Len(p)] \in Hops
    BY <1>0
  <2> QED BY <1>0, <1>1, <2>1 DEF Hops
<1>3. PICK v : v = s.root[u]
  OBVIOUS
<1>4. CASE v = NoNode
  <2>1. r = p
    BY <1>1, <1>3, <1>4 DEF Onward
  <2> QED BY <1>0, <1>1, <1>3, <1>4, <2>1
<1>5. CASE v # NoNode
  <2>1. v \in Nodes /\ s.weight[v] <= s.weight[u] /\ s.weight \in [Nodes -> Nat]
    BY <1>2, <1>3, <1>5 DEF Searches
  <2>2. s.weight[to] - s.weight[v] \in Nat /\ s.weight[v] <= s.weight[to]
    BY <1>2, <2>1
  <2>3. PICK x : x = [node |-> v, weight |-> s.weight[to] - s.weight[v], hops |-> Len(p)]
    OBVIOUS
  <2>4. x \in Hops /\ x.node = v
    BY <1>0, <2>1, <2>2, <2>3 DEF Hops
  <2>5. r = Append(p, x)
    BY <1>1, <1>3, <1>5, <2>3 DEF Onward
  <2>6. r \in Seq(Hops) /\ Len(r) = Len(p) + 1 /\ r[Len(r)] = x
    BY <1>0, <2>4, <2>5
  <2> QED BY <1>0, <2>2, <2>4, <2>6 DEF Backs
<1> QED BY <1>4, <1>5

LEMMA TracedIs ==
    ASSUME NEW s \in Searches, NEW to \in Nodes, s.root[to] # NoNode, NEW r, r = Traced(s, to)
    PROVE  r \in Seq(Hops) /\ Len(r) >= 2
<1> DEFINE m == Cardinality(Nodes)
           S == Backs(s, to)
           start == <<[node |-> to, weight |-> s.weight[to], hops |-> 0]>>
           Step(p, i) == LET v == s.root[p[Len(p)].node]
                         IN  IF v = NoNode THEN p
                             ELSE Append(p, [node |-> v, weight |-> s.weight[to] - s.weight[v], hops |-> Len(p)])
           Rec(h) == h = [i \in 0..m |-> IF i = 0 THEN start ELSE Step(h[i - 1], i)]
<1>1. m \in Nat /\ m >= 1
  BY NodesCounted
<1>2. start \in S /\ Len(start) = 1 /\ start[Len(start)].node = to
  <2>1. PICK x : x = [node |-> to, weight |-> s.weight[to], hops |-> 0]
    OBVIOUS
  <2>2. x \in Hops /\ x.node = to
    BY <2>1 DEF Hops, Searches
  <2>3. s.weight[to] \in Nat
    BY DEF Searches
  <2>4. start = <<x>>
    BY <2>1
  <2>5. start \in Seq(Hops) /\ Len(start) = 1 /\ start[1] = x
    BY <2>2, <2>4
  <2> HIDE DEF start
  <2>6. start[Len(start)].node = to /\ Len(start) >= 1
    BY <2>2, <2>5
  <2>7. s.weight[start[Len(start)].node] <= s.weight[to]
    BY <2>3, <2>6
  <2> QED BY <2>5, <2>6, <2>7 DEF Backs
<1>0. \A i \in 1..m : \A p \in S : Step(p, i) = Onward(s, to, p)
  BY DEF Onward
<1>3. \A i \in 1..m : \A p \in S : Step(p, i) \in S
  <2> HIDE DEF S, Step, m
  <2> QED BY <1>0, OnwardIs DEF S
<1>4. PICK z : /\ z \in [0..m -> S] /\ z[0] = start /\ r = z[m]
               /\ \A i \in 1..m : z[i] = Step(z[i - 1], i)
  <2> DEFINE f == [i \in 1..m |-> [t \in S |-> Step(t, i)]]
  <2>1. f \in [1..m -> [S -> S]]
    <3> HIDE DEF Step, m, S
    <3> QED BY <1>3
  <2>0. PICK z : Steps(m, S, start, f, z)
    <3>1. m \in Nat /\ start \in S /\ f \in [1..m -> [S -> S]]
      BY <1>1, <1>2, <2>1
    <3> HIDE DEF f, m, S, Step, Rec, start
    <3> QED BY <3>1, StepsExist
  <2>2. z \in [0..m -> S] /\ z[0] = start /\ \A i \in 1..m : z[i] = f[i][z[i - 1]]
    <3> HIDE DEF f, m, S, Step, Rec, start
    <3> QED BY <2>0 DEF Steps
  <2>3. \A i \in 1..m : z[i] = Step(z[i - 1], i)
    <3> SUFFICES ASSUME NEW i \in 1..m PROVE z[i] = Step(z[i - 1], i)
      OBVIOUS
    <3>1. i - 1 \in 0..m
      BY <1>1
    <3> HIDE DEF m, S, Step, start
    <3> QED BY <2>2, <3>1, Zenon
  <2>4. Rec(z)
    <3>1. ASSUME NEW i \in 0..m PROVE z[i] = IF i = 0 THEN start ELSE Step(z[i - 1], i)
      <4>1. i = 0 \/ i \in 1..m
        BY <1>1
      <4> HIDE DEF m, S, Step, start
      <4> QED BY <2>2, <2>3, <4>1
    <3> HIDE DEF m, S, Step, start
    <3> QED BY <2>2, <3>1
  <2> DEFINE h == CHOOSE h : Rec(h)
  <2>5. r = h[m]
    BY Zenon DEF Traced
  <2>6. Rec(h)
    <3> HIDE DEF Rec
    <3> QED BY <2>4
  <2> HIDE DEF h
  <2>7. \A i \in 0..m : h[i] = IF i = 0 THEN start ELSE Step(h[i - 1], i)
    <3> HIDE DEF Step, start, m
    <3> QED BY <2>6
  <2>8. h[0] = z[0] /\ \A i \in 1..m : h[i - 1] = z[i - 1] => h[i] = z[i]
    <3>1. 0 \in 0..m /\ \A i \in 1..m : i \in 0..m /\ i # 0
      BY <1>1
    <3> HIDE DEF Step, start, m, S
    <3> QED BY <2>2, <2>3, <2>7, <3>1
  <2>9. h[m] = z[m]
    <3>1. m \in Nat
      BY <1>1
    <3> HIDE DEF m, Step, S, start
    <3> QED BY <2>8, <3>1, SameSteps
  <2> QED BY <2>2, <2>3, <2>5, <2>9
<1>5. \A i \in 1..m : z[i] = Onward(s, to, z[i - 1]) /\ z[i - 1] \in S
  <2> SUFFICES ASSUME NEW i \in 1..m PROVE z[i] = Onward(s, to, z[i - 1]) /\ z[i - 1] \in S
    OBVIOUS
  <2>1. i - 1 \in 0..m
    BY <1>1
  <2> HIDE DEF S, Step, m, start
  <2> QED BY <1>0, <1>4, <2>1
<1>6. Len(z[1]) = 2
  <2>1. z[1] = Onward(s, to, start) /\ start \in S
    <3>1. 1 \in 1..m
      BY <1>1
    <3>2. z[1] = Onward(s, to, z[1 - 1])
      BY <1>5, <3>1
    <3>3. z[1 - 1] = start
      BY <1>4
    <3> HIDE DEF start
    <3> QED BY <1>2, <3>2, <3>3
  <2> HIDE DEF start, S
  <2>2. Len(z[1]) = Len(start) + 1
    BY <1>2, <2>1, OnwardIs DEF S
  <2> QED BY <1>2, <2>2
<1>7. \A k \in 0..m : k = 0 \/ Len(z[k]) >= 2
  <2> DEFINE G == {k \in 0..m : k = 0 \/ Len(z[k]) >= 2}
  <2>1. 0 \in G
    BY <1>1
  <2>2. ASSUME NEW k \in 1..m, k - 1 \in G PROVE k \in G
    <3>0. k \in 0..m
      BY <1>1
    <3>1. CASE k = 1
      <4>1. Len(z[k]) = 2
        BY <1>6, <3>1
      <4> HIDE DEF m
      <4> QED BY <3>0, <4>1
    <3>2. CASE k # 1
      <4>1. Len(z[k - 1]) >= 2
        <5>1. k - 1 # 0
          BY <1>1, <3>2
        <5> QED BY <2>2, <5>1
      <4>2. Len(z[k]) >= Len(z[k - 1]) /\ Len(z[k]) \in Nat /\ Len(z[k - 1]) \in Nat
        <5>1. z[k] = Onward(s, to, z[k - 1]) /\ z[k - 1] \in Backs(s, to)
          BY <1>5
        <5>2. z[k] \in Backs(s, to) /\ Len(z[k]) >= Len(z[k - 1])
          BY <5>1, OnwardIs
        <5> QED BY <5>1, <5>2 DEF Backs
      <4> QED BY <4>1, <4>2
    <3> QED BY <3>1, <3>2
  <2> HIDE DEF G, m
  <2>3. m \in Nat
    BY <1>1
  <2>4. \A k \in 0..m : k \in G
    BY <2>1, <2>2, <2>3, CountUp
  <2> QED BY <2>4 DEF G
<1>8. m \in 0..m /\ m # 0
  BY <1>1
<1>9. z[m] \in S /\ Len(z[m]) >= 2
  <2> HIDE DEF S, Step, m, start
  <2> QED BY <1>4, <1>7, <1>8
<1> QED
  <2> HIDE DEF m
  <2> QED BY <1>4, <1>9 DEF Backs

\* Looking for a route leaves a good graph, and finds a route or none.
LEMMA ShortestPathIs ==
    ASSUME NEW M, NEW E, Limits(M, E), NEW g, Good(M, E, g), NEW from \in Nodes, NEW to \in Nodes,
           NEW r, r = ShortestPath(g, from, to)
    PROVE  Good(M, E, r.graph) /\ r.route \in Routes
<1>1. PICK h : h = GetVertex(g, from)
  OBVIOUS
<1>2. Good(M, E, h)
  BY <1>1, GetVertexIs
<1>3. PICK k : k = GetVertex(h, to)
  OBVIOUS
<1>4. Good(M, E, k)
  BY <1>2, <1>3, GetVertexIs
<1>5. PICK s : s = Explored(h, from)
  OBVIOUS
<1>6. s \in Searches
  BY <1>2, <1>5, ExploredIs
<1>7. r.graph = k /\ r.route = RouteIn(s, to)
  BY <1>1, <1>3, <1>5 DEF ShortestPath
<1>8. RouteIn(s, to) \in Routes
  <2>1. CASE s.root[to] = NoNode
    BY <2>1 DEF RouteIn, Routes
  <2>2. CASE s.root[to] # NoNode
    <3>1. PICK p : p = Traced(s, to)
      OBVIOUS
    <3>2. p \in Seq(Hops) /\ Len(p) >= 2
      BY <1>6, <2>2, <3>1, TracedIs
    <3>3. RouteIn(s, to) = p
      BY <2>2, <3>1 DEF RouteIn
    <3> QED BY <3>2, <3>3 DEF Routes
  <2> QED BY <2>1, <2>2
<1> QED BY <1>4, <1>7, <1>8

-----------------------------------------------------------------------------
(* What a search finds: the vertices it has seen and those that wait *)

\* r is l with x in it.
Grows(S, l, x, r) ==
    /\ r \in Seq(S) /\ Held(r) = Held(l) \union {x}
    /\ x \notin Held(l) /\ Unrepeated(l) => Unrepeated(r)

LEMMA PutLast ==
    ASSUME NEW S, NEW l \in Seq(S), NEW x \in S, NEW r, r = Append(l, x)
    PROVE  Grows(S, l, x, r)
<1>1. /\ r \in Seq(S) /\ Len(r) = Len(l) + 1 /\ Len(l) \in Nat /\ DOMAIN l = 1..Len(l) /\ DOMAIN r = 1..Len(r)
      /\ \A i \in 1..Len(l) : r[i] = l[i]
  OBVIOUS
<1>2. r[Len(r)] = x /\ Len(r) \in 1..Len(r) /\ \A i \in 1..Len(r) : i = Len(r) \/ i \in 1..Len(l)
  BY <1>1
<1>3. Held(r) = Held(l) \union {x}
  <2>1. \A i \in 1..Len(r) : r[i] \in Held(l) \union {x}
    BY <1>1, <1>2 DEF Held
  <2>2. \A i \in 1..Len(l) : i \in 1..Len(r)
    BY <1>1
  <2>3. Held(l) \union {x} \subseteq Held(r)
    BY <1>1, <1>2, <2>2 DEF Held
  <2>4. Held(r) \subseteq Held(l) \union {x}
    <3> SUFFICES ASSUME NEW y \in Held(r) PROVE y \in Held(l) \union {x}
      OBVIOUS
    <3>1. PICK i \in 1..Len(r) : y = r[i]
      BY DEF Held
    <3> QED BY <2>1, <3>1
  <2> QED BY <2>3, <2>4
<1>4. ASSUME x \notin Held(l), Unrepeated(l) PROVE Unrepeated(r)
  <2>1. \A i \in 1..Len(l) : l[i] # x
    BY <1>4 DEF Held
  <2>2. \A i, j \in 1..Len(l) : l[i] = l[j] => i = j
    BY <1>1, <1>4 DEF Unrepeated
  <2>3. \A i, j \in 1..Len(r) : r[i] = r[j] => i = j
    <3> SUFFICES ASSUME NEW i \in 1..Len(r), NEW j \in 1..Len(r), r[i] = r[j] PROVE i = j
      OBVIOUS
    <3> QED BY <1>1, <1>2, <2>1, <2>2
  <2> QED BY <1>1, <2>3 DEF Unrepeated
<1> QED BY <1>1, <1>3, <1>4 DEF Grows

LEMMA PutBefore ==
    ASSUME NEW S, NEW l \in Seq(S), NEW x \in S, NEW i \in 1..Len(l), NEW r, r = InsertAt(l, i, x)
    PROVE  Grows(S, l, x, r)
<1> DEFINE p == SubSeq(l, 1, i - 1)
           q == SubSeq(l, i, Len(l))
           at(k) == IF k < i THEN k ELSE k - 1
<1>0. Len(l) \in Nat /\ i \in Nat \ {0} /\ i - 1 \in Nat /\ i - 1 <= Len(l) /\ i <= Len(l) + 1 /\ i <= Len(l) /\ DOMAIN l = 1..Len(l)
  OBVIOUS
<1>1. p \in Seq(S) /\ Len(p) = i - 1 /\ \A k \in 1..Len(p) : p[k] = l[k]
  <2>1. 1 \in Nat \ {0} /\ 1 <= (i - 1) + 1 /\ (i - 1) + 1 - 1 = i - 1
    BY <1>0
  <2>2. PICK a : a = p
    OBVIOUS
  <2>3. a \in Seq(S) /\ Len(a) = (i - 1) + 1 - 1 /\ \A k \in 1..Len(a) : a[k] = l[1 + k - 1]
    BY <1>0, <2>1, <2>2, SliceIs
  <2>4. \A k \in 1..Len(a) : 1 + k - 1 = k
    BY <2>1, <2>3
  <2> HIDE DEF p
  <2> QED BY <2>1, <2>2, <2>3, <2>4
<1>2. q \in Seq(S) /\ Len(q) = Len(l) + 1 - i /\ \A k \in 1..Len(q) : q[k] = l[i + k - 1]
  <2>1. PICK a : a = q
    OBVIOUS
  <2>2. a \in Seq(S) /\ Len(a) = Len(l) + 1 - i /\ \A k \in 1..Len(a) : a[k] = l[i + k - 1]
    BY <1>0, <2>1, SliceIs
  <2> HIDE DEF q
  <2> QED BY <2>1, <2>2
<1>3. r = (p \o <<x>>) \o q
  BY DEF InsertAt
<1>4. /\ r \in Seq(S) /\ Len(r) = Len(l) + 1 /\ DOMAIN r = 1..Len(r) /\ r[i] = x
      /\ \A k \in 1..Len(r) : k # i => at(k) \in 1..Len(l) /\ r[k] = l[at(k)]
  <2> HIDE DEF p, q
  <2>1. PICK a : a = p \o <<x>>
    OBVIOUS
  <2>2. a \in Seq(S) /\ Len(a) = i /\ a[i] = x /\ \A k \in 1..(i - 1) : a[k] = l[k]
    BY <1>0, <1>1, <2>1
  <2>3. r = a \o q
    BY <1>3, <2>1
  <2>4. /\ r \in Seq(S) /\ Len(r) = Len(l) + 1 /\ DOMAIN r = 1..Len(r)
        /\ \A k \in 1..Len(r) : r[k] = IF k <= i THEN a[k] ELSE q[k - i]
    <3>0. a \in Seq(S) /\ q \in Seq(S)
      BY <1>2, <2>2
    <3>1. r \in Seq(S) /\ Len(r) = Len(a) + Len(q) /\ DOMAIN r = 1..Len(r)
      <4>1. r \in Seq(S)
        BY <2>3, <3>0
      <4>2. Len(r) = Len(a) + Len(q)
        BY <2>3, <3>0
      <4> QED BY <4>1, <4>2
    <3>2. \A k \in 1..(Len(a) + Len(q)) : r[k] = IF k <= Len(a) THEN a[k] ELSE q[k - Len(a)]
      BY <2>3, <3>0
    <3>3. Len(a) + Len(q) = Len(l) + 1
      BY <1>0, <1>2, <2>2
    <3> QED BY <2>2, <3>1, <3>2, <3>3
  <2>5. ASSUME NEW k \in 1..Len(r), k # i PROVE at(k) \in 1..Len(l) /\ r[k] = l[at(k)]
    <3>1. CASE k < i
      <4>1. k \in 1..(i - 1) /\ k \in 1..Len(l)
        BY <1>0, <3>1
      <4> QED BY <1>0, <2>2, <2>4, <3>1, <4>1
    <3>2. CASE ~(k < i)
      <4>1. k - i \in 1..Len(q) /\ i + (k - i) - 1 = k - 1 /\ k - 1 \in 1..Len(l) /\ ~(k <= i)
        BY <1>0, <1>2, <2>4, <2>5, <3>2
      <4>2. r[k] = q[k - i] /\ q[k - i] = l[i + (k - i) - 1]
        BY <1>2, <2>4, <4>1
      <4> QED BY <3>2, <4>1, <4>2
    <3> QED BY <3>1, <3>2
  <2>6. r[i] = x
    BY <1>0, <2>2, <2>4
  <2> QED BY <2>4, <2>5, <2>6
<1>5. i \in 1..Len(r) /\ \A j \in 1..Len(l) : \E k \in 1..Len(r) : k # i /\ r[k] = l[j]
  <2>1. i \in 1..Len(r)
    BY <1>0, <1>4
  <2>2. ASSUME NEW j \in 1..Len(l) PROVE \E k \in 1..Len(r) : k # i /\ r[k] = l[j]
    <3>1. CASE j < i
      <4>1. j \in 1..Len(r) /\ j # i /\ at(j) = j
        BY <1>0, <1>4, <3>1
      <4> HIDE DEF at
      <4> QED BY <1>4, <4>1
    <3>2. CASE ~(j < i)
      <4>1. j + 1 \in 1..Len(r) /\ j + 1 # i /\ at(j + 1) = j
        BY <1>0, <1>4, <3>2
      <4> HIDE DEF at
      <4> QED BY <1>4, <4>1
    <3> QED BY <3>1, <3>2
  <2> QED BY <2>1, <2>2
<1>6. \A j, k \in 1..Len(r) : j # i /\ k # i /\ at(j) = at(k) => j = k
  BY <1>0, <1>4
<1> HIDE DEF p, q, at
<1>7. Held(r) = Held(l) \union {x}
  <2>1. \A k \in 1..Len(r) : r[k] \in Held(l) \union {x}
    BY <1>4 DEF Held
  <2>2. Held(r) \subseteq Held(l) \union {x}
    <3> SUFFICES ASSUME NEW y \in Held(r) PROVE y \in Held(l) \union {x}
      OBVIOUS
    <3>1. PICK k \in 1..Len(r) : y = r[k]
      BY DEF Held
    <3> QED BY <2>1, <3>1
  <2>3. Held(l) \union {x} \subseteq Held(r)
    BY <1>4, <1>5 DEF Held
  <2> QED BY <2>2, <2>3
<1>8. ASSUME x \notin Held(l), Unrepeated(l) PROVE Unrepeated(r)
  <2>1. \A j \in 1..Len(l) : l[j] # x
    BY <1>8 DEF Held
  <2>2. \A j, k \in 1..Len(l) : l[j] = l[k] => j = k
    BY <1>0, <1>8 DEF Unrepeated
  <2>3. ASSUME NEW j \in 1..Len(r), NEW k \in 1..Len(r), r[j] = r[k] PROVE j = k
    <3>1. CASE j = i \/ k = i
      BY <1>4, <2>1, <2>3, <3>1
    <3>2. CASE j # i /\ k # i
      <4>1. at(j) \in 1..Len(l) /\ at(k) \in 1..Len(l) /\ l[at(j)] = l[at(k)]
        BY <1>4, <2>3, <3>2
      <4>2. at(j) = at(k)
        BY <2>2, <4>1
      <4> QED BY <1>6, <3>2, <4>2
    <3> QED BY <3>1, <3>2
  <2> QED BY <1>4, <2>3 DEF Unrepeated
<1> QED BY <1>4, <1>7, <1>8 DEF Grows

\* n is the first of l, and q what waits behind it.
Leads(S, l, n, q) ==
    /\ n \in S /\ q \in Seq(S) /\ Unrepeated(q) /\ Held(l) = Held(q) \union {n} /\ n \notin Held(q)
    /\ Len(q) = Len(l) - 1 /\ n = l[1] /\ \A i \in 1..Len(q) : q[i] = l[i + 1]

LEMMA FirstOut ==
    ASSUME NEW S, NEW l \in Seq(S), l # <<>>, Unrepeated(l), NEW n, n = Head(l), NEW q, q = Tail(l)
    PROVE  Leads(S, l, n, q)
<1>1. Len(l) \in Nat /\ Len(l) >= 1 /\ DOMAIN l = 1..Len(l)
  OBVIOUS
<1>2. /\ n = l[1] /\ n \in S /\ q \in Seq(S) /\ Len(q) = Len(l) - 1 /\ DOMAIN q = 1..Len(q)
      /\ \A i \in 1..Len(q) : q[i] = l[i + 1] /\ i + 1 \in 1..Len(l)
  BY <1>1
<1>3. \A i, j \in 1..Len(l) : l[i] = l[j] => i = j
  BY <1>1 DEF Unrepeated
<1>4. \A i, j \in 1..Len(q) : q[i] = q[j] => i = j
  BY <1>2, <1>3
<1>5. 1 \in 1..Len(l) /\ \A i \in 1..Len(l) : i # 1 => i - 1 \in 1..Len(q) /\ (i - 1) + 1 = i
  BY <1>1, <1>2
<1>6. \A i \in 1..Len(q) : q[i] # n
  BY <1>2, <1>3, <1>5
<1>7. Held(l) \subseteq Held(q) \union {n}
  <2> SUFFICES ASSUME NEW i \in 1..Len(l) PROVE l[i] \in Held(q) \union {n}
    BY DEF Held
  <2>1. CASE i = 1
    BY <1>2, <2>1
  <2>2. CASE i # 1
    <3>1. i - 1 \in 1..Len(q) /\ q[i - 1] = l[i]
      BY <1>2, <1>5, <2>2
    <3> QED BY <3>1 DEF Held
  <2> QED BY <2>1, <2>2
<1>8. Held(q) \union {n} \subseteq Held(l)
  BY <1>2, <1>5 DEF Held
<1>9. n \notin Held(q)
  BY <1>6 DEF Held
<1> QED BY <1>2, <1>4, <1>7, <1>8, <1>9 DEF Unrepeated, Leads

\* The vertices a search has found
Rooted(s) == {n \in Nodes : s.root[n] # NoNode}

\* There is an edge n was found over.
Over(g, s, n) == \E e \in Held(g.out[s.root[n]]) : e.to = n /\ s.weight[n] = s.weight[s.root[n]] + e.weight

\* A search from a vertex: what it has found it has seen, or has waiting, once.
Trees(g, from) ==
    {s \in Searches :
        /\ from \in s.seen /\ s.root[from] = NoNode /\ s.weight[from] = 0
        /\ Rooted(s) \union {from} = s.seen \union Held(s.queue)
        /\ Held(s.queue) \intersect s.seen = {} /\ Unrepeated(s.queue)
        /\ \A n \in Rooted(s) : Over(g, s, n)}

LEMMA SearchHas ==
    ASSUME NEW s \in Searches
    PROVE  /\ s.seen \subseteq Nodes /\ s.weight \in [Nodes -> Nat] /\ s.root \in [Nodes -> Nodes \union {NoNode}]
           /\ s.queue \in Seq(Nodes) /\ Rooted(s) \subseteq Nodes
           /\ \A n \in Rooted(s) : s.root[n] \in s.seen /\ s.root[n] \in Nodes /\ s.weight[s.root[n]] <= s.weight[n]
<1> DEFINE Q == Seq(Nodes)
           W == [Nodes -> Nat]
           R == [Nodes -> Nodes \union {NoNode}]
           V == SUBSET Nodes
<1>1. s \in [seen : V, weight : W, root : R, queue : Q]
  BY DEF Searches
<1>2. s.seen \in V /\ s.weight \in W /\ s.root \in R /\ s.queue \in Q
  <2> HIDE DEF Q, W, R, V
  <2> QED BY <1>1
<1>3. \A n \in Nodes : s.root[n] # NoNode => s.root[n] \in s.seen /\ s.weight[s.root[n]] <= s.weight[n]
  BY DEF Searches
<1> QED BY <1>2, <1>3 DEF Rooted

LEMMA TreeHas ==
    ASSUME NEW g, NEW from, NEW s \in Trees(g, from)
    PROVE  /\ s \in Searches /\ from \in s.seen /\ s.root[from] = NoNode /\ s.weight[from] = 0
           /\ Rooted(s) \union {from} = s.seen \union Held(s.queue)
           /\ Held(s.queue) \intersect s.seen = {} /\ Unrepeated(s.queue)
           /\ \A n \in Rooted(s) : Over(g, s, n)
BY DEF Trees

LEMMA PushedIs ==
    ASSUME NEW s \in Searches, NEW n \in Nodes, NEW r, r = Push(s, n)
    PROVE  /\ r \in Searches /\ r.seen = s.seen /\ r.weight = s.weight /\ r.root = s.root
           /\ Grows(Nodes, s.queue, n, r.queue)
           /\ (\A i \in 1..Len(s.queue) : s.weight[s.queue[i]] <= s.weight[n]) => r.queue = Append(s.queue, n)
<1> DEFINE I == {i \in 1..Len(s.queue) : s.weight[n] < s.weight[s.queue[i]]}
<1>1. PICK far : far = SelectInSeq(s.queue, LAMBDA x : s.weight[n] < s.weight[x])
  OBVIOUS
<1>2. s.queue \in Seq(Nodes) /\ Len(s.queue) \in Nat /\ s.weight \in [Nodes -> Nat]
  BY SearchHas
<1>3. far \in 0..Len(s.queue) /\ (far = 0 <=> I = {})
  <2>1. far = IF I # {} THEN Min(I) ELSE 0
    BY <1>1 DEF SelectInSeq
  <2>2. I \in SUBSET (1..Len(s.queue))
    OBVIOUS
  <2> HIDE DEF I
  <2> QED BY <1>2, <2>1, <2>2, FirstIs
<1>4. PICK q : q = IF far = 0 THEN Append(s.queue, n) ELSE InsertAt(s.queue, far, n)
  OBVIOUS
<1>5. Grows(Nodes, s.queue, n, q)
  <2>1. CASE far = 0
    BY <1>2, <1>4, <2>1, PutLast
  <2>2. CASE far # 0
    <3>1. far \in 1..Len(s.queue) /\ q = InsertAt(s.queue, far, n)
      BY <1>2, <1>3, <1>4, <2>2
    <3> QED BY <1>2, <3>1, PutBefore
  <2> QED BY <2>1, <2>2
<1>6. r = [s EXCEPT !.queue = q]
  BY <1>1, <1>4 DEF Push
<1>7. q \in Seq(Nodes)
  BY <1>5 DEF Grows
<1>8. r \in Searches /\ r.seen = s.seen /\ r.weight = s.weight /\ r.root = s.root
  BY <1>6, <1>7, Requeued
<1>9. r.queue = q
  <2>1. s \in [seen : SUBSET Nodes, weight : [Nodes -> Nat], root : [Nodes -> Nodes \union {NoNode}], queue : Seq(Nodes)]
    BY DEF Searches
  <2> QED BY <1>6, <2>1
<1>10. ASSUME \A i \in 1..Len(s.queue) : s.weight[s.queue[i]] <= s.weight[n] PROVE q = Append(s.queue, n)
  <2>1. \A i \in 1..Len(s.queue) : s.queue[i] \in Nodes
    BY <1>2
  <2>2. \A i \in 1..Len(s.queue) : ~(s.weight[n] < s.weight[s.queue[i]])
    BY <1>2, <1>10, <2>1
  <2>3. I = {}
    BY <2>2
  <2> QED BY <1>3, <1>4, <2>3
<1> QED BY <1>5, <1>8, <1>9, <1>10

LEMMA NearerHas ==
    ASSUME NEW s \in Searches, NEW v \in s.seen, NEW x \in Nodes, NEW w \in Nat, NEW r, r = Nearer(s, v, x, w)
    PROVE  /\ r.seen = s.seen /\ r.queue = s.queue
           /\ \A n \in Nodes : /\ r.weight[n] = (IF n = x THEN w ELSE s.weight[n])
                               /\ r.root[n] = (IF n = x THEN v ELSE s.root[n])
<1>1. s \in [seen : SUBSET Nodes, weight : [Nodes -> Nat], root : [Nodes -> Nodes \union {NoNode}], queue : Seq(Nodes)]
  BY DEF Searches
<1>2. s.weight \in [Nodes -> Nat] /\ s.root \in [Nodes -> Nodes \union {NoNode}]
  BY SearchHas
<1>3. PICK a, b : a = [s.weight EXCEPT ![x] = w] /\ b = [s.root EXCEPT ![x] = v]
  OBVIOUS
<1>4. \A n \in Nodes : a[n] = (IF n = x THEN w ELSE s.weight[n]) /\ b[n] = (IF n = x THEN v ELSE s.root[n])
  BY <1>2, <1>3
<1>5. r = [s EXCEPT !.weight = a, !.root = b]
  BY <1>1, <1>3 DEF Nearer
<1>6. r.seen = s.seen /\ r.queue = s.queue /\ r.weight = a /\ r.root = b
  BY <1>1, <1>5
<1> QED BY <1>4, <1>6

\* x is found, and nothing else is new.
Finds(g, from, s, r, x) ==
    /\ r \in Searches /\ r.seen = s.seen /\ r.queue = s.queue /\ Rooted(r) = Rooted(s) \union {x}
    /\ r.root[from] = NoNode /\ r.weight[from] = 0 /\ x # from
    /\ \A n \in Rooted(r) : Over(g, r, n)

\* A vertex that is found over an edge from one that was seen
LEMMA FoundOver ==
    ASSUME NEW g, NEW from \in Nodes, NEW s \in Trees(g, from), NEW v \in s.seen, NEW e \in Held(g.out[v]),
           e.to \in Nodes, e.weight \in Nat, e.to \notin s.seen, NEW w, w = s.weight[v] + e.weight,
           NEW r, r = Nearer(s, v, e.to, w)
    PROVE  Finds(g, from, s, r, e.to)
<1>1. s \in Searches /\ from \in s.seen /\ s.root[from] = NoNode /\ s.weight[from] = 0 /\ \A n \in Rooted(s) : Over(g, s, n)
  BY TreeHas
<1>2. s.seen \subseteq Nodes /\ s.weight \in [Nodes -> Nat] /\ \A n \in Rooted(s) : s.root[n] \in s.seen /\ s.root[n] \in Nodes
  BY <1>1, SearchHas
<1>4. w \in Nat /\ s.weight[v] <= w /\ v \in Nodes /\ v # e.to /\ from # e.to
  BY <1>1, <1>2
<1>5. /\ r.seen = s.seen /\ r.queue = s.queue
      /\ \A n \in Nodes : /\ r.weight[n] = (IF n = e.to THEN w ELSE s.weight[n])
                          /\ r.root[n] = (IF n = e.to THEN v ELSE s.root[n])
  BY <1>1, <1>4, NearerHas
<1>6. r \in Searches
  BY <1>1, <1>4, NearerIs
<1>7. v # NoNode
  BY <1>4, NodesAssumption
<1>8. Rooted(r) = Rooted(s) \union {e.to}
  BY <1>5, <1>7 DEF Rooted
<1>9. ASSUME NEW n \in Rooted(r) PROVE Over(g, r, n)
  <2>1. CASE n = e.to
    <3>1. r.root[n] = v /\ r.weight[n] = w /\ r.weight[v] = s.weight[v]
      BY <1>4, <1>5, <2>1
    <3> QED BY <2>1, <3>1 DEF Over
  <2>2. CASE n # e.to
    <3>1. n \in Rooted(s) /\ n \in Nodes
      BY <1>8, <2>2 DEF Rooted
    <3>2. PICK x : x = s.root[n]
      OBVIOUS
    <3>3. x \in Nodes /\ x # e.to
      BY <1>2, <3>1, <3>2
    <3>4. r.root[n] = x /\ r.weight[n] = s.weight[n] /\ r.weight[x] = s.weight[x]
      BY <1>5, <2>2, <3>1, <3>2, <3>3
    <3>5. \E d \in Held(g.out[x]) : d.to = n /\ s.weight[n] = s.weight[x] + d.weight
      BY <1>1, <3>1, <3>2 DEF Over
    <3> QED BY <3>4, <3>5 DEF Over
  <2> QED BY <2>1, <2>2
<1>10. r.root[from] = NoNode /\ r.weight[from] = 0
  BY <1>1, <1>4, <1>5
<1> QED BY <1>4, <1>5, <1>6, <1>8, <1>9, <1>10 DEF Finds

\* r has found what s has, and x.
Reaches(s, r, from, x) == r.seen = s.seen /\ Rooted(s) \subseteq Rooted(r) /\ (x = from \/ x \in Rooted(r))

LEMMA RelaxGrows ==
    ASSUME NEW g, NEW from \in Nodes, NEW s \in Trees(g, from), NEW v \in s.seen, NEW e \in Held(g.out[v]),
           e.to \in Nodes, e.weight \in Nat, NEW r, r = Relax(s, v, e)
    PROVE  r \in Trees(g, from) /\ Reaches(s, r, from, e.to)
<1>1. /\ s \in Searches /\ from \in s.seen /\ s.root[from] = NoNode /\ s.weight[from] = 0
      /\ Rooted(s) \union {from} = s.seen \union Held(s.queue)
      /\ Held(s.queue) \intersect s.seen = {} /\ Unrepeated(s.queue)
      /\ \A n \in Rooted(s) : Over(g, s, n)
  BY TreeHas
<1>2. PICK w : w = s.weight[v] + e.weight
  OBVIOUS
<1>3. PICK found : found = Nearer(s, v, e.to, w)
  OBVIOUS
<1>4. r = CASE e.to \in s.seen -> s
            [] e.to \notin s.seen /\ s.root[e.to] = NoNode -> Push(found, e.to)
            [] e.to \notin s.seen /\ s.root[e.to] # NoNode -> IF w < s.weight[e.to] THEN found ELSE s
  BY <1>2, <1>3 DEF Relax, Nearer
<1>5. CASE r = s /\ (e.to \in s.seen \/ s.root[e.to] # NoNode)
  BY <1>1, <1>5 DEF Reaches, Rooted
<1>6. CASE e.to \notin s.seen /\ s.root[e.to] = NoNode
  <2>1. /\ found \in Searches /\ found.seen = s.seen /\ found.queue = s.queue /\ Rooted(found) = Rooted(s) \union {e.to}
        /\ found.root[from] = NoNode /\ found.weight[from] = 0 /\ e.to # from
        /\ \A n \in Rooted(found) : Over(g, found, n)
    <3>1. Finds(g, from, s, found, e.to)
      BY <1>2, <1>3, <1>6, FoundOver
    <3> QED BY <3>1 DEF Finds
  <2>2. r = Push(found, e.to)
    BY <1>4, <1>6
  <2>3. /\ r \in Searches /\ r.seen = found.seen /\ r.weight = found.weight /\ r.root = found.root
        /\ Grows(Nodes, found.queue, e.to, r.queue)
    BY <2>1, <2>2, PushedIs
  <2>4. Rooted(r) = Rooted(s) \union {e.to} /\ \A n \in Rooted(r) : Over(g, r, n)
    BY <2>1, <2>3 DEF Rooted, Over
  <2>5. e.to \notin Held(s.queue)
    BY <1>1, <1>6, <2>1 DEF Rooted
  <2>6. Held(r.queue) = Held(s.queue) \union {e.to} /\ Unrepeated(r.queue)
    BY <1>1, <2>1, <2>3, <2>5 DEF Grows
  <2>7. Rooted(r) \union {from} = r.seen \union Held(r.queue) /\ Held(r.queue) \intersect r.seen = {}
    BY <1>1, <1>6, <2>1, <2>3, <2>4, <2>6
  <2>8. from \in r.seen /\ r.root[from] = NoNode /\ r.weight[from] = 0
    BY <1>1, <2>1, <2>3
  <2>9. r \in Trees(g, from)
    BY <2>3, <2>4, <2>6, <2>7, <2>8 DEF Trees
  <2> QED BY <2>1, <2>3, <2>4, <2>9 DEF Reaches
<1>7. CASE r = found /\ e.to \notin s.seen /\ s.root[e.to] # NoNode
  <2>1. /\ found \in Searches /\ found.seen = s.seen /\ found.queue = s.queue /\ Rooted(found) = Rooted(s) \union {e.to}
        /\ found.root[from] = NoNode /\ found.weight[from] = 0 /\ e.to # from
        /\ \A n \in Rooted(found) : Over(g, found, n)
    <3>1. Finds(g, from, s, found, e.to)
      BY <1>2, <1>3, <1>7, FoundOver
    <3> QED BY <3>1 DEF Finds
  <2>2. Rooted(r) = Rooted(s) /\ e.to \in Rooted(r)
    BY <1>7, <2>1 DEF Rooted
  <2>3. r \in Trees(g, from)
    BY <1>1, <1>7, <2>1, <2>2 DEF Trees
  <2> QED BY <1>7, <2>1, <2>2, <2>3 DEF Reaches
<1>8. \/ r = s /\ (e.to \in s.seen \/ s.root[e.to] # NoNode)
      \/ e.to \notin s.seen /\ s.root[e.to] = NoNode
      \/ r = found /\ e.to \notin s.seen /\ s.root[e.to] # NoNode
  BY <1>4
<1> QED BY <1>5, <1>6, <1>7, <1>8

-----------------------------------------------------------------------------
(* What a search finds when all edges weigh the same *)

Even(g, w) == \A x \in Nodes : \A e \in Held(g.out[x]) : e.weight = w

\* What waits is in order, and no nearer than what was seen.
Ordered(s) ==
    /\ \A i, j \in 1..Len(s.queue) : i < j => s.weight[s.queue[i]] <= s.weight[s.queue[j]]
    /\ \A x \in s.seen : \A i \in 1..Len(s.queue) : s.weight[x] <= s.weight[s.queue[i]]

\* Nothing that was seen is farther than v.
Level(s, v) == Ordered(s) /\ \A x \in s.seen : s.weight[x] <= s.weight[v]

\* What was found stays where it is.
Steady(s, r, from) == \A n \in Rooted(s) \union {from} : r.weight[n] = s.weight[n]

LEMMA EvenlyOver ==
    ASSUME NEW g, NEW w \in Nat, Even(g, w), NEW from, NEW s \in Trees(g, from), NEW n \in Rooted(s)
    PROVE  s.root[n] \in s.seen /\ s.weight[n] = s.weight[s.root[n]] + w
<1>1. s \in Searches /\ Over(g, s, n)
  BY TreeHas
<1>2. s.root[n] \in s.seen /\ s.root[n] \in Nodes
  BY <1>1, SearchHas
<1>3. PICK d \in Held(g.out[s.root[n]]) : s.weight[n] = s.weight[s.root[n]] + d.weight
  BY <1>1 DEF Over
<1>4. d.weight = w
  BY <1>2, <1>3 DEF Even
<1> QED BY <1>2, <1>3, <1>4

LEMMA RelaxLevels ==
    ASSUME NEW g, NEW w \in Nat, Even(g, w), NEW from \in Nodes, NEW s \in Trees(g, from), NEW v \in s.seen, Level(s, v),
           NEW e \in Held(g.out[v]), e.to \in Nodes, NEW r, r = Relax(s, v, e)
    PROVE  Level(r, v) /\ Steady(s, r, from)
<1>1. /\ s \in Searches /\ from \in s.seen /\ s.weight[from] = 0
      /\ Rooted(s) \union {from} = s.seen \union Held(s.queue) /\ Held(s.queue) \intersect s.seen = {}
  BY TreeHas
<1>2. /\ s.seen \subseteq Nodes /\ s.weight \in [Nodes -> Nat] /\ s.queue \in Seq(Nodes) /\ Rooted(s) \subseteq Nodes
      /\ Len(s.queue) \in Nat
  BY <1>1, SearchHas
<1>3. v \in Nodes /\ e.weight = w /\ \A x \in s.seen : s.weight[x] <= s.weight[v]
  BY <1>2 DEF Even, Level
<1>4. ASSUME NEW n \in Rooted(s) PROVE s.weight[n] <= s.weight[v] + w
  <2>1. s.root[n] \in s.seen /\ s.weight[n] = s.weight[s.root[n]] + w
    BY <1>4, EvenlyOver
  <2>2. s.weight[s.root[n]] <= s.weight[v] /\ s.weight[s.root[n]] \in Nat /\ s.weight[v] \in Nat
    BY <1>2, <1>3, <2>1
  <2> QED BY <2>1, <2>2
<1>5. PICK d : d = s.weight[v] + w
  OBVIOUS
<1>6. d \in Nat /\ s.weight[v] <= d /\ s.weight[v] \in Nat
  BY <1>2, <1>3, <1>5
<1>7. PICK found : found = Nearer(s, v, e.to, d)
  OBVIOUS
<1>8. r = CASE e.to \in s.seen -> s
            [] e.to \notin s.seen /\ s.root[e.to] = NoNode -> Push(found, e.to)
            [] e.to \notin s.seen /\ s.root[e.to] # NoNode -> IF d < s.weight[e.to] THEN found ELSE s
  BY <1>3, <1>5, <1>7 DEF Relax, Nearer
<1>9. CASE e.to \in s.seen \/ s.root[e.to] # NoNode
  <2>1. CASE e.to \in s.seen
    <3>1. r = s
      BY <1>8, <2>1
    <3> QED BY <3>1 DEF Steady
  <2>2. CASE e.to \notin s.seen
    <3>1. e.to \in Rooted(s)
      BY <1>9, <2>2 DEF Rooted
    <3>2. ~(d < s.weight[e.to])
      <4>1. s.weight[e.to] <= d /\ s.weight[e.to] \in Nat
        BY <1>2, <1>4, <1>5, <3>1
      <4> QED BY <1>6, <4>1
    <3>3. r = s
      BY <1>8, <1>9, <2>2, <3>2
    <3> QED BY <3>3 DEF Steady
  <2> QED BY <2>1, <2>2
<1>10. CASE e.to \notin s.seen /\ s.root[e.to] = NoNode
  <2>1. e.to # from /\ e.to \notin Rooted(s)
    BY <1>1, <1>10 DEF Rooted
  <2>2. /\ found.seen = s.seen /\ found.queue = s.queue
        /\ \A n \in Nodes : found.weight[n] = (IF n = e.to THEN d ELSE s.weight[n])
    BY <1>1, <1>6, <1>7, NearerHas
  <2>3. found \in Searches
    BY <1>1, <1>6, <1>7, <1>10, NearerIs
  <2>4. r = Push(found, e.to)
    BY <1>8, <1>10
  <2>5. ASSUME NEW i \in 1..Len(s.queue)
        PROVE  s.queue[i] \in Rooted(s) /\ s.queue[i] \in Nodes /\ s.queue[i] # e.to
    <3>1. s.queue[i] \in Held(s.queue)
      BY DEF Held
    <3>2. s.queue[i] # from
      BY <1>1, <3>1
    <3>3. s.queue[i] \in Rooted(s)
      BY <1>1, <3>1, <3>2
    <3> QED BY <1>2, <2>1, <3>3
  <2>6. \A i \in 1..Len(found.queue) : found.weight[found.queue[i]] <= found.weight[e.to]
    <3> SUFFICES ASSUME NEW i \in 1..Len(s.queue) PROVE found.weight[s.queue[i]] <= found.weight[e.to]
      BY <2>2
    <3>1. found.weight[e.to] = d /\ found.weight[s.queue[i]] = s.weight[s.queue[i]]
      BY <2>2, <2>5
    <3> QED BY <1>4, <1>5, <2>5, <3>1
  <2>7. r.seen = s.seen /\ r.weight = found.weight /\ r.queue = Append(s.queue, e.to)
    <3>1. /\ r.seen = found.seen /\ r.weight = found.weight
          /\ (\A i \in 1..Len(found.queue) : found.weight[found.queue[i]] <= found.weight[e.to]) => r.queue = Append(found.queue, e.to)
      BY <2>3, <2>4, PushedIs
    <3> QED BY <2>2, <2>6, <3>1
  <2>8. Steady(s, r, from)
    BY <1>2, <2>1, <2>2, <2>7 DEF Steady
  <2>9. \A x \in s.seen : x \in Nodes /\ r.weight[x] = s.weight[x]
    BY <1>2, <1>10, <2>2, <2>7
  <2>10. /\ Len(r.queue) = Len(s.queue) + 1 /\ r.queue[Len(r.queue)] = e.to
         /\ \A i \in 1..Len(s.queue) : r.queue[i] = s.queue[i]
    BY <1>2, <2>7
  <2>11. ASSUME NEW i \in 1..Len(r.queue)
         PROVE  \/ i = Len(r.queue) /\ r.weight[r.queue[i]] = d
                \/ i \in 1..Len(s.queue) /\ r.weight[r.queue[i]] = s.weight[s.queue[i]] /\ s.weight[s.queue[i]] <= d
    <3>1. CASE i = Len(r.queue)
      BY <2>2, <2>7, <2>10, <3>1
    <3>2. CASE i # Len(r.queue)
      <4>1. i \in 1..Len(s.queue)
        BY <1>2, <2>10, <3>2
      <4>2. r.weight[r.queue[i]] = s.weight[s.queue[i]]
        BY <2>2, <2>5, <2>7, <2>10, <4>1
      <4> QED BY <1>4, <1>5, <2>5, <4>1, <4>2
    <3> QED BY <3>1, <3>2
  <2>12. /\ \A i, j \in 1..Len(s.queue) : i < j => s.weight[s.queue[i]] <= s.weight[s.queue[j]]
         /\ \A x \in s.seen : \A i \in 1..Len(s.queue) : s.weight[x] <= s.weight[s.queue[i]]
    BY DEF Level, Ordered
  <2>13. ASSUME NEW i \in 1..Len(r.queue), NEW j \in 1..Len(r.queue), i < j
         PROVE  r.weight[r.queue[i]] <= r.weight[r.queue[j]]
    <3>1. i \in 1..Len(s.queue) /\ r.weight[r.queue[i]] = s.weight[s.queue[i]] /\ s.weight[s.queue[i]] <= d
      <4>1. i # Len(r.queue)
        BY <1>2, <2>10, <2>13
      <4> QED BY <2>11, <4>1
    <3>2. CASE j = Len(r.queue)
      BY <2>2, <2>7, <2>10, <3>1, <3>2
    <3>3. CASE j # Len(r.queue)
      <4>1. j \in 1..Len(s.queue) /\ r.weight[r.queue[j]] = s.weight[s.queue[j]]
        BY <2>11, <3>3
      <4> QED BY <2>12, <2>13, <3>1, <4>1
    <3> QED BY <3>2, <3>3
  <2>14. ASSUME NEW x \in r.seen, NEW i \in 1..Len(r.queue) PROVE r.weight[x] <= r.weight[r.queue[i]]
    <3>1. x \in s.seen /\ r.weight[x] = s.weight[x] /\ s.weight[x] \in Nat /\ s.weight[x] <= s.weight[v]
      BY <1>2, <1>3, <2>7, <2>9, <2>14
    <3>2. CASE i = Len(r.queue) /\ r.weight[r.queue[i]] = d
      BY <1>6, <3>1, <3>2
    <3>3. CASE i \in 1..Len(s.queue) /\ r.weight[r.queue[i]] = s.weight[s.queue[i]]
      BY <2>12, <3>1, <3>3
    <3> QED BY <2>11, <3>2, <3>3
  <2>15. \A x \in r.seen : r.weight[x] <= r.weight[v]
    BY <1>3, <2>7, <2>9
  <2> QED BY <2>8, <2>13, <2>14, <2>15 DEF Level, Ordered
<1> QED BY <1>9, <1>10

\* A search that goes on to v
Entered(s, v) == [s EXCEPT !.seen = @ \union {v}]

\* After a visit of v all it has edges to is found; b is the search when it got there.
Visited(g, from, w, v, b, r) ==
    /\ r \in Trees(g, from) /\ r.seen = b.seen /\ Rooted(b) \subseteq Rooted(r)
    /\ \A e \in Held(g.out[v]) : e.to = from \/ e.to \in Rooted(r)
    /\ Even(g, w) => Level(r, v) /\ Steady(b, r, from)

LEMMA VisitGrows ==
    ASSUME NEW M, NEW E, NEW g, Good(M, E, g), NEW from \in Nodes, NEW w \in Nat, NEW v \in Nodes, NEW s,
           NEW b, b = Entered(s, v), b \in Trees(g, from), v \in b.seen, Even(g, w) => Level(b, v),
           NEW r, r = Visit(g, s, v)
    PROVE  Visited(g, from, w, v, b, r)
<1> DEFINE l == g.out[v]
           m == Len(l)
           S == {t \in Trees(g, from) : t.seen = b.seen /\ (Even(g, w) => Level(t, v))}
           start == [s EXCEPT !.seen = @ \union {v}]
           Step(t, i) == Relax(t, v, l[i])
           Rec(h) == h = [i \in 0..m |-> IF i = 0 THEN start ELSE Step(h[i - 1], i)]
<1>1. m \in Nat /\ \A i \in 1..m : l[i] \in Held(l) /\ l[i].to \in Nodes /\ l[i].weight \in Nat
  <2>1. l \in Seq(Edges(M)) /\ m \in Nat /\ \A i \in 1..m : l[i] \in Held(l)
    BY GoodAt
  <2>2. \A e \in Edges(M) : e.to \in Nodes /\ e.weight \in Nat
    BY DEF Edges
  <2> HIDE DEF l
  <2> QED BY <2>1, <2>2
<1>0. start = b
  BY DEF Entered
<1>2. start \in S
  <2> HIDE DEF start
  <2> QED BY <1>0
<1>3. \A i \in 1..m : \A t \in S : Step(t, i) \in S /\ Reaches(t, Step(t, i), from, l[i].to) /\ (Even(g, w) => Steady(t, Step(t, i), from))
  <2> SUFFICES ASSUME NEW i \in 1..m, NEW t \in S
               PROVE  Step(t, i) \in S /\ Reaches(t, Step(t, i), from, l[i].to) /\ (Even(g, w) => Steady(t, Step(t, i), from))
    OBVIOUS
  <2>1. PICK e, u : e = l[i] /\ u = Relax(t, v, e)
    OBVIOUS
  <2>2. e \in Held(g.out[v]) /\ e.to \in Nodes /\ e.weight \in Nat /\ t \in Trees(g, from) /\ v \in t.seen
    BY <1>1, <2>1
  <2>3. u \in Trees(g, from) /\ Reaches(t, u, from, e.to)
    BY <2>1, <2>2, RelaxGrows
  <2>4. ASSUME Even(g, w) PROVE Level(u, v) /\ Steady(t, u, from)
    <3>1. Level(t, v)
      BY <2>4
    <3> QED BY <2>1, <2>2, <2>4, <3>1, RelaxLevels
  <2>5. u.seen = b.seen
    BY <2>3 DEF Reaches
  <2>6. u \in S
    BY <2>3, <2>4, <2>5
  <2> QED BY <2>1, <2>3, <2>4, <2>6
<1>9. \A i \in 1..m : \A t \in S : Step(t, i) \in S
  <2> HIDE DEF S, Step, m, l
  <2> QED BY <1>3
<1>4. PICK z : /\ z \in [0..m -> S] /\ z[0] = start /\ r = z[m]
               /\ \A i \in 1..m : z[i] = Step(z[i - 1], i)
  <2> DEFINE f == [i \in 1..m |-> [t \in S |-> Step(t, i)]]
  <2>1. f \in [1..m -> [S -> S]]
    <3> HIDE DEF Step, m, S
    <3> QED BY <1>9
  <2>0. PICK z : Steps(m, S, start, f, z)
    <3>1. m \in Nat /\ start \in S /\ f \in [1..m -> [S -> S]]
      BY <1>1, <1>2, <2>1
    <3> HIDE DEF f, m, S, Step, Rec, start
    <3> QED BY <3>1, StepsExist
  <2>2. z \in [0..m -> S] /\ z[0] = start /\ \A i \in 1..m : z[i] = f[i][z[i - 1]]
    <3> HIDE DEF f, m, S, Step, Rec, start
    <3> QED BY <2>0 DEF Steps
  <2>3. \A i \in 1..m : z[i] = Step(z[i - 1], i)
    <3> SUFFICES ASSUME NEW i \in 1..m PROVE z[i] = Step(z[i - 1], i)
      OBVIOUS
    <3>1. i - 1 \in 0..m
      BY <1>1
    <3> HIDE DEF m, S, Step, start
    <3> QED BY <2>2, <3>1
  <2>4. Rec(z)
    <3>1. ASSUME NEW i \in 0..m PROVE z[i] = IF i = 0 THEN start ELSE Step(z[i - 1], i)
      <4>1. i = 0 \/ i \in 1..m
        BY <1>1
      <4> HIDE DEF m, S, Step, start
      <4> QED BY <2>2, <2>3, <4>1
    <3> HIDE DEF m, S, Step, start
    <3> QED BY <2>2, <3>1
  <2> DEFINE h == CHOOSE h : Rec(h)
  <2>5. r = h[m]
    BY DEF Visit, Folded
  <2>6. Rec(h)
    <3> HIDE DEF Rec
    <3> QED BY <2>4
  <2> HIDE DEF h
  <2>7. \A i \in 0..m : h[i] = IF i = 0 THEN start ELSE Step(h[i - 1], i)
    <3> HIDE DEF Step, start, m
    <3> QED BY <2>6
  <2>8. h[0] = z[0] /\ \A i \in 1..m : h[i - 1] = z[i - 1] => h[i] = z[i]
    <3>1. 0 \in 0..m /\ \A i \in 1..m : i \in 0..m /\ i # 0
      BY <1>1
    <3> HIDE DEF Step, start, m, S
    <3> QED BY <2>2, <2>3, <2>7, <3>1
  <2>9. h[m] = z[m]
    <3>1. m \in Nat
      BY <1>1
    <3> HIDE DEF m, Step, S, start
    <3> QED BY <2>8, <3>1, SameSteps
  <2> QED BY <2>2, <2>3, <2>5, <2>9
<1>5. ASSUME NEW k \in 1..m
      PROVE  z[k - 1] \in S /\ z[k] \in S /\ Reaches(z[k - 1], z[k], from, l[k].to) /\ (Even(g, w) => Steady(z[k - 1], z[k], from))
  <2>1. k - 1 \in 0..m /\ k \in 0..m
    BY <1>1
  <2>2. z[k - 1] \in S /\ z[k] = Step(z[k - 1], k)
    <3> HIDE DEF S, Step, m, start
    <3> QED BY <1>4, <2>1
  <2> HIDE DEF S, Step, m, start, l
  <2> QED BY <1>3, <2>2
<1> HIDE DEF Step, start
<1> DEFINE Done(t, k) == /\ Rooted(b) \subseteq Rooted(t) /\ \A i \in 1..k : l[i].to = from \/ l[i].to \in Rooted(t)
                         /\ Even(g, w) => Steady(b, t, from)
           G == {k \in 0..m : Done(z[k], k)}
<1>6. 0 \in G
  BY <1>0, <1>1, <1>4 DEF Steady
<1>7. ASSUME NEW k \in 1..m, k - 1 \in G PROVE k \in G
  <2>1. PICK t, u : t = z[k - 1] /\ u = z[k]
    OBVIOUS
  <2>2. Done(t, k - 1)
    BY <1>7, <2>1
  <2>3. Reaches(t, u, from, l[k].to) /\ (Even(g, w) => Steady(t, u, from))
    BY <1>5, <2>1
  <2>4. Rooted(t) \subseteq Rooted(u) /\ (l[k].to = from \/ l[k].to \in Rooted(u))
    BY <2>3 DEF Reaches
  <2>5. \A i \in 1..k : i = k \/ i \in 1..(k - 1)
    BY <1>1
  <2>6. \A i \in 1..k : l[i].to = from \/ l[i].to \in Rooted(u)
    BY <2>2, <2>4, <2>5
  <2>7. ASSUME Even(g, w) PROVE Steady(b, u, from)
    BY <2>2, <2>3, <2>7 DEF Steady
  <2>8. Done(u, k)
    BY <2>2, <2>4, <2>6, <2>7
  <2>9. k \in 0..m
    BY <1>1
  <2> HIDE DEF Done
  <2> QED BY <2>1, <2>8, <2>9
<1>8. m \in 0..m /\ \A k \in 0..m : k \in G
  <2>1. m \in 0..m
    BY <1>1
  <2> HIDE DEF G, m
  <2> QED BY <1>1, <1>6, <1>7, <2>1, CountUp
<1>10. r \in S /\ Done(r, m)
  <2>1. r = z[m] /\ z[m] \in S
    <3> HIDE DEF S, m
    <3> QED BY <1>4, <1>8
  <2> HIDE DEF Done, S, m
  <2> QED BY <1>8, <2>1
<1>11. \A e \in Held(l) : \E i \in 1..m : e = l[i]
  BY DEF Held
<1> QED BY <1>10, <1>11 DEF Visited

-----------------------------------------------------------------------------
(* A whole search *)

\* All that what was seen has edges to is found.
Closed(g, from, s) == \A x \in s.seen : \A e \in Held(g.out[x]) : e.to = from \/ e.to \in Rooted(s)

\* No edge leads nearer.
Flat(g, s) == \A x \in s.seen : \A e \in Held(g.out[x]) : s.weight[e.to] <= s.weight[x] + e.weight

\* A search between two visits
Between(g, from, w) == {s \in Trees(g, from) : Closed(g, from, s) /\ (Even(g, w) => Ordered(s) /\ Flat(g, s))}

\* b is s gone on to n.
Enters(s, n, b) ==
    b \in Searches /\ b.seen = s.seen \union {n} /\ b.weight = s.weight /\ b.root = s.root /\ b.queue = s.queue

LEMMA EnteredHas ==
    ASSUME NEW s \in Searches, NEW n \in Nodes, NEW b, b = Entered(s, n)
    PROVE  Enters(s, n, b)
<1> DEFINE Q == Seq(Nodes)
           W == [Nodes -> Nat]
           R == [Nodes -> Nodes \union {NoNode}]
           V == SUBSET Nodes
<1>1. s \in [seen : V, weight : W, root : R, queue : Q]
  BY DEF Searches
<1>2. PICK c : c = s.seen \union {n}
  OBVIOUS
<1>3. c \in V
  BY <1>2, SearchHas
<1>4. b = [s EXCEPT !.seen = c]
  BY <1>2 DEF Entered
<1>5. b \in [seen : V, weight : W, root : R, queue : Q] /\ b.seen = c /\ b.weight = s.weight /\ b.root = s.root /\ b.queue = s.queue
  <2> HIDE DEF Q, W, R, V
  <2> QED BY <1>1, <1>3, <1>4
<1>6. \A x \in Nodes : b.root[x] # NoNode => b.root[x] \in b.seen /\ b.weight[b.root[x]] <= b.weight[x]
  BY <1>2, <1>5 DEF Searches
<1>7. b \in Searches
  BY <1>5, <1>6 DEF Searches
<1> QED BY <1>2, <1>5, <1>7 DEF Enters

LEMMA FirstVisit ==
    ASSUME NEW M, NEW E, NEW g, Good(M, E, g), NEW from \in Nodes, NEW w \in Nat, NEW r, r = Visit(g, StartSearch, from)
    PROVE  r \in Between(g, from, w) /\ Cardinality(r.seen) = 1
<1>1. PICK s : s = StartSearch
  OBVIOUS
<1>2. /\ s.seen = {} /\ s.weight = [n \in Nodes |-> 0] /\ s.root = [n \in Nodes |-> NoNode] /\ s.queue = <<>>
      /\ s \in Searches
  BY <1>1 DEF StartSearch, Searches
<1>3. PICK b : b = Entered(s, from)
  OBVIOUS
<1>4. b \in Searches /\ b.seen = {from} /\ b.weight = s.weight /\ b.root = s.root /\ b.queue = <<>>
  <2>1. s \in Searches
    BY <1>2
  <2>2. Enters(s, from, b)
    BY <1>3, <2>1, EnteredHas
  <2> QED BY <1>2, <2>2 DEF Enters
<1>5. b.weight[from] = 0 /\ b.root[from] = NoNode /\ Rooted(b) = {}
  BY <1>2, <1>4 DEF Rooted
<1>6. Held(b.queue) = {} /\ Unrepeated(b.queue) /\ 1..Len(b.queue) = {}
  <2>1. Len(b.queue) = 0 /\ 1..0 = {} /\ DOMAIN b.queue = {}
    BY <1>4
  <2> QED BY <2>1 DEF Held, Unrepeated
<1>7. b \in Trees(g, from)
  BY <1>4, <1>5, <1>6 DEF Trees
<1>8. Level(b, from)
  BY <1>4, <1>5, <1>6 DEF Level, Ordered
<1>9. Visited(g, from, w, from, b, r)
  <2>1. r = Visit(g, s, from) /\ from \in b.seen
    BY <1>1, <1>4
  <2> QED BY <1>3, <1>7, <1>8, <2>1, VisitGrows
<1>10. /\ r \in Trees(g, from) /\ r.seen = {from}
       /\ \A e \in Held(g.out[from]) : e.to = from \/ e.to \in Rooted(r)
       /\ Even(g, w) => Level(r, from)
  BY <1>4, <1>9 DEF Visited
<1>11. r \in Searches /\ r.weight[from] = 0 /\ Closed(g, from, r)
  BY <1>10, TreeHas DEF Closed
<1>12. ASSUME Even(g, w) PROVE Ordered(r) /\ Flat(g, r)
  <2>1. ASSUME NEW e \in Held(g.out[from]) PROVE r.weight[e.to] <= r.weight[from] + e.weight
    <3>1. e.weight = w
      BY <1>12 DEF Even
    <3>2. CASE e.to = from
      BY <1>11, <3>1, <3>2
    <3>3. CASE e.to \in Rooted(r)
      <4>1. r.root[e.to] \in r.seen /\ r.weight[e.to] = r.weight[r.root[e.to]] + w
        <5>1. PICK y : y = e.to
          OBVIOUS
        <5>2. y \in Rooted(r) /\ r \in Trees(g, from)
          BY <1>10, <3>3, <5>1
        <5>3. r.root[y] \in r.seen /\ r.weight[y] = r.weight[r.root[y]] + w
          BY <1>12, <5>2, EvenlyOver
        <5> QED BY <5>1, <5>3
      <4>2. r.root[e.to] = from
        BY <1>10, <4>1
      <4> QED BY <1>11, <3>1, <4>1, <4>2
    <3> QED BY <1>10, <3>2, <3>3
  <2>2. Flat(g, r)
    BY <1>10, <2>1 DEF Flat
  <2> QED BY <1>10, <1>12, <2>2 DEF Level
<1>13. Cardinality(r.seen) = 1
  BY <1>10, FS_Singleton
<1> QED BY <1>10, <1>11, <1>12, <1>13 DEF Between

LEMMA NextVisit ==
    ASSUME NEW M, NEW E, NEW g, Good(M, E, g), NEW from \in Nodes, NEW w \in Nat, NEW t \in Between(g, from, w),
           t.queue # <<>>, NEW n, n = Head(t.queue), NEW q, q = Tail(t.queue), NEW u, u = [t EXCEPT !.queue = q],
           NEW r, r = Visit(g, u, n)
    PROVE  r \in Between(g, from, w) /\ Cardinality(r.seen) = Cardinality(t.seen) + 1
<1>1. /\ t \in Trees(g, from) /\ Closed(g, from, t) /\ (Even(g, w) => Ordered(t) /\ Flat(g, t))
      /\ t \in Searches /\ from \in t.seen /\ t.root[from] = NoNode /\ t.weight[from] = 0
      /\ Rooted(t) \union {from} = t.seen \union Held(t.queue)
      /\ Held(t.queue) \intersect t.seen = {} /\ Unrepeated(t.queue)
      /\ \A x \in Rooted(t) : Over(g, t, x)
  BY TreeHas DEF Between
<1>2. /\ t.queue \in Seq(Nodes) /\ Len(t.queue) \in Nat /\ t.seen \subseteq Nodes /\ t.weight \in [Nodes -> Nat]
      /\ Rooted(t) \subseteq Nodes
  BY <1>1, SearchHas
<1>3. /\ n \in Nodes /\ q \in Seq(Nodes) /\ Unrepeated(q) /\ Held(t.queue) = Held(q) \union {n} /\ n \notin Held(q)
      /\ Len(q) = Len(t.queue) - 1 /\ n = t.queue[1] /\ \A i \in 1..Len(q) : q[i] = t.queue[i + 1]
  <2>1. t.queue \in Seq(Nodes) /\ Unrepeated(t.queue)
    BY <1>1, <1>2
  <2>2. Leads(Nodes, t.queue, n, q)
    BY <2>1, FirstOut
  <2> QED BY <2>2 DEF Leads
<1>4. u \in Searches /\ u.seen = t.seen /\ u.weight = t.weight /\ u.root = t.root
  <2>1. t \in Searches /\ q \in Seq(Nodes)
    BY <1>1, <1>3
  <2> QED BY <2>1, Requeued
<1>5. u.queue = q
  <2>1. t \in [seen : SUBSET Nodes, weight : [Nodes -> Nat], root : [Nodes -> Nodes \union {NoNode}], queue : Seq(Nodes)]
    BY <1>1 DEF Searches
  <2> QED BY <2>1
<1>6. PICK b : b = Entered(u, n)
  OBVIOUS
<1>7. b \in Searches /\ b.seen = t.seen \union {n} /\ b.weight = t.weight /\ b.root = t.root /\ b.queue = q
  <2>1. u \in Searches /\ n \in Nodes
    BY <1>3, <1>4
  <2>2. Enters(u, n, b)
    BY <1>6, <2>1, EnteredHas, Zenon
  <2> QED BY <1>4, <1>5, <2>2 DEF Enters
<1>8. n \notin t.seen /\ Rooted(b) = Rooted(t)
  BY <1>1, <1>3, <1>7 DEF Rooted
<1>9. b \in Trees(g, from)
  <2>1. \A x \in Rooted(b) : Over(g, b, x)
    BY <1>1, <1>7, <1>8 DEF Over
  <2>2. Rooted(b) \union {from} = b.seen \union Held(b.queue) /\ Held(b.queue) \intersect b.seen = {}
    BY <1>1, <1>3, <1>7, <1>8
  <2> QED BY <1>1, <1>3, <1>7, <2>1, <2>2 DEF Trees
<1>10. ASSUME Even(g, w) PROVE Level(b, n)
  <2>1. /\ \A i, j \in 1..Len(t.queue) : i < j => t.weight[t.queue[i]] <= t.weight[t.queue[j]]
        /\ \A x \in t.seen : \A i \in 1..Len(t.queue) : t.weight[x] <= t.weight[t.queue[i]]
    BY <1>1, <1>10 DEF Ordered
  <2>2. 1 \in 1..Len(t.queue) /\ \A i \in 1..Len(q) : i + 1 \in 1..Len(t.queue) /\ 1 < i + 1
    BY <1>2, <1>3
  <2>3. \A i, j \in 1..Len(q) : i < j => t.weight[q[i]] <= t.weight[q[j]]
    BY <1>3, <2>1, <2>2
  <2>4. \A x \in t.seen : \A i \in 1..Len(q) : t.weight[x] <= t.weight[q[i]]
    BY <1>3, <2>1, <2>2
  <2>5. \A i \in 1..Len(q) : t.weight[n] <= t.weight[q[i]]
    BY <1>3, <2>1, <2>2
  <2>6. \A x \in t.seen : t.weight[x] <= t.weight[n]
    BY <1>3, <2>1, <2>2
  <2>7. t.weight[n] <= t.weight[n]
    BY <1>2, <1>3
  <2> QED BY <1>7, <2>3, <2>4, <2>5, <2>6, <2>7 DEF Level, Ordered
<1>11. Visited(g, from, w, n, b, r)
  <2>1. n \in b.seen
    BY <1>7
  <2> QED BY <1>3, <1>6, <1>9, <1>10, <2>1, VisitGrows
<1>12. /\ r \in Trees(g, from) /\ r.seen = t.seen \union {n} /\ Rooted(t) \subseteq Rooted(r)
       /\ \A e \in Held(g.out[n]) : e.to = from \/ e.to \in Rooted(r)
       /\ Even(g, w) => Level(r, n) /\ Steady(b, r, from)
  BY <1>7, <1>8, <1>11 DEF Visited
<1>13. Closed(g, from, r)
  BY <1>1, <1>12 DEF Closed
<1>14. r \in Searches /\ r.weight[from] = 0 /\ r.weight \in [Nodes -> Nat] /\ r.seen \subseteq Nodes
  BY <1>12, TreeHas, SearchHas
<1>15. ASSUME Even(g, w) PROVE Ordered(r) /\ Flat(g, r)
  <2>1. Level(r, n) /\ \A x \in Rooted(t) \union {from} : r.weight[x] = t.weight[x]
    BY <1>7, <1>8, <1>12, <1>15 DEF Steady
  <2>2. ASSUME NEW x \in t.seen, NEW e \in Held(g.out[x]) PROVE r.weight[e.to] <= r.weight[x] + e.weight
    <3>1. x \in Rooted(t) \union {from} /\ e.to \in Rooted(t) \union {from}
      BY <1>1, <2>2 DEF Closed
    <3>2. t.weight[e.to] <= t.weight[x] + e.weight
      BY <1>1, <1>15, <2>2 DEF Flat
    <3> QED BY <2>1, <3>1, <3>2
  <2>3. ASSUME NEW e \in Held(g.out[n]) PROVE r.weight[e.to] <= r.weight[n] + e.weight
    <3>1. e.weight = w /\ r.weight[n] \in Nat
      BY <1>3, <1>14, <1>15 DEF Even
    <3>2. CASE e.to = from
      <4>1. r.weight[e.to] = 0
        BY <1>14, <3>2, Zenon
      <4>2. e.weight \in Nat
        BY <3>1
      <4> QED BY <3>1, <4>1, <4>2
    <3>3. CASE e.to \in Rooted(r)
      <4>1. r.root[e.to] \in r.seen /\ r.weight[e.to] = r.weight[r.root[e.to]] + w
        <5>1. PICK y : y = e.to
          OBVIOUS
        <5>2. y \in Rooted(r) /\ r \in Trees(g, from)
          BY <1>12, <3>3, <5>1
        <5>3. r.root[y] \in r.seen /\ r.weight[y] = r.weight[r.root[y]] + w
          BY <1>15, <5>2, EvenlyOver
        <5> QED BY <5>1, <5>3
      <4>2. r.weight[r.root[e.to]] <= r.weight[n] /\ r.weight[r.root[e.to]] \in Nat
        BY <1>14, <2>1, <4>1 DEF Level
      <4> QED BY <3>1, <4>1, <4>2
    <3> QED BY <1>12, <3>2, <3>3
  <2>4. Flat(g, r)
    BY <1>12, <2>2, <2>3 DEF Flat
  <2> QED BY <2>1, <2>4 DEF Level
<1>16. Cardinality(r.seen) = Cardinality(t.seen) + 1
  <2>1. IsFiniteSet(t.seen)
    BY <1>2, NodesAssumption, FS_Subset
  <2> QED BY <1>8, <1>12, <2>1, FS_AddElement
<1> QED BY <1>12, <1>13, <1>15, <1>16 DEF Between

\* A search that is over: all that was found was seen.
Finished(g, from, w) == {s \in Between(g, from, w) : s.seen = Rooted(s) \union {from}}

\* A search with one more visit, if something waits
Onwards(g, s) == IF s.queue = <<>> THEN s ELSE Visit(g, [s EXCEPT !.queue = Tail(@)], Head(s.queue))

\* It has seen one more vertex, unless nothing waits.
Advances(t, r) ==
    /\ t.queue = <<>> => r = t
    /\ t.queue # <<>> => Cardinality(r.seen) = Cardinality(t.seen) + 1

LEMMA OneMore ==
    ASSUME NEW M, NEW E, NEW g, Good(M, E, g), NEW from \in Nodes, NEW w \in Nat, NEW t \in Between(g, from, w),
           NEW r, r = Onwards(g, t)
    PROVE  r \in Between(g, from, w) /\ Advances(t, r)
<1>1. CASE t.queue = <<>>
  BY <1>1 DEF Onwards, Advances
<1>2. CASE t.queue # <<>>
  <2>1. PICK n, q : n = Head(t.queue) /\ q = Tail(t.queue)
    OBVIOUS
  <2>2. PICK u : u = [t EXCEPT !.queue = q]
    OBVIOUS
  <2>3. r = Visit(g, u, n)
    BY <1>2, <2>1, <2>2 DEF Onwards
  <2>4. r \in Between(g, from, w) /\ Cardinality(r.seen) = Cardinality(t.seen) + 1
    BY <1>2, <2>1, <2>2, <2>3, NextVisit
  <2> QED BY <1>2, <2>4 DEF Advances
<1> QED BY <1>1, <1>2

LEMMA SeenCounted ==
    ASSUME NEW g, NEW from, NEW w, NEW t \in Between(g, from, w)
    PROVE  Cardinality(t.seen) \in Nat /\ Cardinality(t.seen) <= Cardinality(Nodes)
<1>1. t \in Searches
  BY TreeHas DEF Between
<1>2. t.seen \subseteq Nodes
  BY <1>1, SearchHas
<1>3. IsFiniteSet(t.seen) /\ Cardinality(t.seen) <= Cardinality(Nodes)
  BY <1>2, NodesAssumption, FS_Subset
<1> QED BY <1>3, FS_CardinalityType

LEMMA ExploredAll ==
    ASSUME NEW M, NEW E, NEW g, Good(M, E, g), NEW from \in Nodes, NEW w \in Nat, NEW r, r = Explored(g, from)
    PROVE  r \in Finished(g, from, w)
<1> DEFINE m == Cardinality(Nodes)
           S == Between(g, from, w)
           start == Visit(g, StartSearch, from)
           Step(s, i) == IF s.queue = <<>> THEN s ELSE Visit(g, [s EXCEPT !.queue = Tail(@)], Head(s.queue))
           Rec(h) == h = [i \in 0..m |-> IF i = 0 THEN start ELSE Step(h[i - 1], i)]
<1>1. m \in Nat
  BY NodesCounted
<1>2. start \in S /\ Cardinality(start.seen) = 1
  <2>1. PICK u : u = start
    OBVIOUS
  <2>2. u \in Between(g, from, w) /\ Cardinality(u.seen) = 1
    BY <2>1, FirstVisit
  <2> QED BY <2>1, <2>2
<1>0. \A i \in 1..m : \A t \in S : Step(t, i) = Onwards(g, t)
  BY DEF Onwards
<1>3. \A i \in 1..m : \A t \in S : Step(t, i) \in S /\ Advances(t, Step(t, i))
  <2> SUFFICES ASSUME NEW i \in 1..m, NEW t \in S PROVE Step(t, i) \in S /\ Advances(t, Step(t, i))
    OBVIOUS
  <2>1. PICK u : u = Onwards(g, t)
    OBVIOUS
  <2>2. u \in Between(g, from, w) /\ Advances(t, u)
    BY <2>1, OneMore
  <2>3. Step(t, i) = u
    BY <1>0, <2>1
  <2> HIDE DEF Step
  <2> QED BY <2>2, <2>3
<1>9. \A i \in 1..m : \A t \in S : Step(t, i) \in S
  <2> HIDE DEF Step, S, m
  <2> QED BY <1>3
<1>4. PICK z : /\ z \in [0..m -> S] /\ z[0] = start /\ r = z[m]
               /\ \A i \in 1..m : z[i] = Step(z[i - 1], i)
  <2> DEFINE f == [i \in 1..m |-> [t \in S |-> Step(t, i)]]
  <2>1. f \in [1..m -> [S -> S]]
    <3> HIDE DEF Step, m, S
    <3> QED BY <1>9
  <2>0. PICK z : Steps(m, S, start, f, z)
    <3>1. m \in Nat /\ start \in S /\ f \in [1..m -> [S -> S]]
      BY <1>1, <1>2, <2>1
    <3> HIDE DEF f, m, S, Step, Rec, start
    <3> QED BY <3>1, StepsExist
  <2>2. z \in [0..m -> S] /\ z[0] = start /\ \A i \in 1..m : z[i] = f[i][z[i - 1]]
    <3> HIDE DEF f, m, S, Step, Rec, start
    <3> QED BY <2>0 DEF Steps
  <2>3. \A i \in 1..m : z[i] = Step(z[i - 1], i)
    <3> SUFFICES ASSUME NEW i \in 1..m PROVE z[i] = Step(z[i - 1], i)
      OBVIOUS
    <3>1. i - 1 \in 0..m
      BY <1>1
    <3> HIDE DEF m, S, Step, start
    <3> QED BY <2>2, <3>1
  <2>4. Rec(z)
    <3>1. ASSUME NEW i \in 0..m PROVE z[i] = IF i = 0 THEN start ELSE Step(z[i - 1], i)
      <4>1. i = 0 \/ i \in 1..m
        BY <1>1
      <4> HIDE DEF m, S, Step, start
      <4> QED BY <2>2, <2>3, <4>1
    <3> HIDE DEF m, S, Step, start
    <3> QED BY <2>2, <3>1
  <2> DEFINE h == CHOOSE h : Rec(h)
  <2>5. r = h[m]
    BY DEF Explored
  <2>6. Rec(h)
    <3> HIDE DEF Rec
    <3> QED BY <2>4
  <2> HIDE DEF h
  <2>7. \A i \in 0..m : h[i] = IF i = 0 THEN start ELSE Step(h[i - 1], i)
    <3> HIDE DEF Step, start, m
    <3> QED BY <2>6
  <2>8. h[0] = z[0] /\ \A i \in 1..m : h[i - 1] = z[i - 1] => h[i] = z[i]
    <3>1. 0 \in 0..m /\ \A i \in 1..m : i \in 0..m /\ i # 0
      BY <1>1
    <3> HIDE DEF Step, start, m, S
    <3> QED BY <2>2, <2>3, <2>7, <3>1
  <2>9. h[m] = z[m]
    <3>1. m \in Nat
      BY <1>1
    <3> HIDE DEF m, Step, S, start
    <3> QED BY <2>8, <3>1, SameSteps
  <2> QED BY <2>2, <2>3, <2>5, <2>9
<1>5. ASSUME NEW k \in 1..m PROVE z[k - 1] \in S /\ Advances(z[k - 1], z[k])
  <2>1. k - 1 \in 0..m
    BY <1>1
  <2>2. z[k - 1] \in S /\ z[k] = Step(z[k - 1], k)
    <3> HIDE DEF S, Step, m, start
    <3> QED BY <1>4, <2>1
  <2> HIDE DEF S, Step, m, start
  <2> QED BY <1>3, <2>2
<1> HIDE DEF Step, start
<1> DEFINE Done(t, k) == t.queue = <<>> \/ Cardinality(t.seen) >= k + 1
           G == {k \in 0..m : Done(z[k], k)}
<1>6. 0 \in G
  BY <1>1, <1>2, <1>4
<1>7. ASSUME NEW k \in 1..m, k - 1 \in G PROVE k \in G
  <2>1. PICK t, u : t = z[k - 1] /\ u = z[k]
    OBVIOUS
  <2>2. Done(t, k - 1) /\ t \in Between(g, from, w) /\ Advances(t, u)
    BY <1>5, <1>7, <2>1
  <2>3. Cardinality(t.seen) \in Nat
    BY <2>2, SeenCounted
  <2>4. Done(u, k)
    <3>1. CASE t.queue = <<>>
      BY <2>2, <3>1 DEF Advances
    <3>2. CASE t.queue # <<>>
      BY <1>1, <2>2, <2>3, <3>2 DEF Advances
    <3> QED BY <3>1, <3>2
  <2>5. k \in 0..m
    BY <1>1
  <2> HIDE DEF Done
  <2> QED BY <2>1, <2>4, <2>5
<1>8. m \in 0..m /\ \A k \in 0..m : k \in G
  <2>1. m \in 0..m
    BY <1>1
  <2> HIDE DEF G, m
  <2> QED BY <1>1, <1>6, <1>7, <2>1, CountUp
<1>10. r \in Between(g, from, w) /\ Done(r, m)
  <2>1. r = z[m] /\ z[m] \in S
    <3> HIDE DEF S, m
    <3> QED BY <1>4, <1>8
  <2> HIDE DEF Done, m
  <2> QED BY <1>8, <2>1
<1>11. r.queue = <<>>
  BY <1>1, <1>10, SeenCounted
<1>12. Held(r.queue) = {}
  <2>1. Len(r.queue) = 0 /\ 1..0 = {}
    BY <1>11
  <2> QED BY <2>1 DEF Held
<1>13. Rooted(r) \union {from} = r.seen \union Held(r.queue)
  <2>1. r \in Trees(g, from)
    BY <1>10 DEF Between
  <2> QED BY <2>1, TreeHas
<1> QED BY <1>10, <1>12, <1>13 DEF Finished
\* The same edges, in whatever order
SameEdges(g, h) == \A x \in Nodes : Held(h.out[x]) = Held(g.out[x])

LEMMA FinishedSame ==
    ASSUME NEW g, NEW h, SameEdges(g, h), NEW from, NEW w, NEW s \in Finished(g, from, w)
    PROVE  s \in Finished(h, from, w)
<1>1. s \in Trees(g, from) /\ Closed(g, from, s) /\ (Even(g, w) => Ordered(s) /\ Flat(g, s)) /\ s.seen = Rooted(s) \union {from}
  BY DEF Finished, Between
<1>2. /\ s \in Searches /\ from \in s.seen /\ s.root[from] = NoNode /\ s.weight[from] = 0
      /\ Rooted(s) \union {from} = s.seen \union Held(s.queue)
      /\ Held(s.queue) \intersect s.seen = {} /\ Unrepeated(s.queue)
      /\ \A n \in Rooted(s) : Over(g, s, n)
  BY <1>1, TreeHas
<1>3. s.seen \subseteq Nodes /\ \A n \in Rooted(s) : s.root[n] \in Nodes
  BY <1>2, SearchHas
<1>4. \A x \in Nodes : Held(h.out[x]) = Held(g.out[x])
  BY DEF SameEdges
<1>5. ASSUME NEW n \in Rooted(s) PROVE Over(h, s, n)
  <2>1. PICK x : x = s.root[n]
    OBVIOUS
  <2>2. x \in Nodes /\ Held(h.out[x]) = Held(g.out[x])
    BY <1>3, <1>4, <2>1
  <2>3. \E e \in Held(g.out[x]) : e.to = n /\ s.weight[n] = s.weight[x] + e.weight
    BY <1>2, <2>1 DEF Over
  <2> QED BY <2>1, <2>2, <2>3 DEF Over
<1>6. s \in Trees(h, from)
  BY <1>2, <1>5 DEF Trees
<1>7. Closed(h, from, s)
  BY <1>1, <1>3, <1>4 DEF Closed
<1>8. Even(h, w) => Ordered(s) /\ Flat(h, s)
  <2>1. Even(h, w) => Even(g, w)
    BY <1>4 DEF Even
  <2>2. Flat(g, s) => Flat(h, s)
    BY <1>3, <1>4 DEF Flat
  <2> QED BY <1>1, <2>1, <2>2
<1> QED BY <1>1, <1>6, <1>7, <1>8 DEF Finished, Between

\* e is the edge from x to y.
LEMMA EdgeIs ==
    ASSUME NEW M, NEW E, NEW g, Good(M, E, g), NEW x \in Nodes, NEW e \in Held(g.out[x])
    PROVE  HasEdge(g, x, e.to) /\ EdgeOf(g, x, e.to) = e
<1> DEFINE T == Edges(M)
<1>1. PICK l : l = g.out[x]
  OBVIOUS
<1>2. l \in Seq(T) /\ (\A d \in Held(l) : d.to = e.to => d = e) /\ \A i \in 1..Len(l) : l[i] \in Held(l)
  BY <1>1, GoodAt
<1> HIDE DEF T
<1>3. DOMAIN l = 1..Len(l)
  BY <1>2
<1>4. PICK i \in DOMAIN l : l[i] = e
  BY <1>1, <1>3 DEF Held
<1>5. PICK j : j = CHOOSE k \in DOMAIN l : l[k].to = e.to
  OBVIOUS
<1>6. j \in DOMAIN l /\ l[j].to = e.to
  BY <1>4, <1>5
<1>7. l[j] = e
  BY <1>2, <1>3, <1>6
<1>8. HasEdge(g, x, e.to)
  BY <1>1, <1>4 DEF HasEdge
<1>9. EdgeOf(g, x, e.to) = l[j]
  BY <1>1, <1>5 DEF EdgeOf
<1> QED BY <1>7, <1>8, <1>9

-----------------------------------------------------------------------------
(* The way back from a vertex *)

\* p leads back from one vertex to another, each of which the one before was
\* found from, and says what is left from there to the first.
Traces(s, from, to) ==
    {p \in Seq(Hops) :
        /\ Len(p) >= 1 /\ p[1].node = to /\ p[1].weight = s.weight[to]
        /\ \A i \in 1..Len(p) : p[i].node \in Rooted(s) \union {from} /\ p[i].hops = i - 1
        /\ \A i \in 1..(Len(p) - 1) : /\ p[i].node \in Rooted(s) /\ p[i + 1].node = s.root[p[i].node]
                                      /\ p[i + 1].weight = s.weight[to] - s.weight[p[i + 1].node]
        /\ \A i, j \in 1..Len(p) : i < j => s.weight[p[j].node] < s.weight[p[i].node]}

\* What was found was found from a vertex that is nearer.
LEMMA RootNearer ==
    ASSUME NEW M, NEW E, NEW g, Good(M, E, g), NEW from, NEW w, NEW s \in Finished(g, from, w), NEW n \in Rooted(s)
    PROVE  /\ s.root[n] \in Rooted(s) \union {from} /\ s.root[n] \in Nodes /\ n \in Nodes
           /\ s.weight[s.root[n]] \in Nat /\ s.weight[n] \in Nat /\ s.weight[s.root[n]] < s.weight[n]
           /\ s.weight[n] <= s.weight[s.root[n]] + MaxWeight
<1>1. s \in Trees(g, from) /\ s.seen = Rooted(s) \union {from}
  BY DEF Finished, Between
<1>2. s \in Searches /\ Over(g, s, n)
  BY <1>1, TreeHas
<1>3. s.root[n] \in s.seen /\ s.root[n] \in Nodes /\ n \in Nodes /\ s.weight \in [Nodes -> Nat]
  BY <1>2, SearchHas
<1>4. PICK x : x = s.root[n]
  OBVIOUS
<1>5. PICK e \in Held(g.out[x]) : s.weight[n] = s.weight[x] + e.weight
  BY <1>2, <1>4 DEF Over
<1>6. e \in Edges(M)
  BY <1>3, <1>4, <1>5, GoodAt
<1>7. e.weight \in Nat /\ e.weight >= 1 /\ e.weight <= MaxWeight
  BY <1>6 DEF Edges, MaxWeight
<1> QED BY <1>1, <1>3, <1>4, <1>5, <1>7 DEF MaxWeight

\* Goes on if there is where to.
Follows(s, p, r) ==
    LET v == s.root[p[Len(p)].node]
    IN  IF v = NoNode THEN r = p ELSE Len(r) = Len(p) + 1

LEMMA TraceOn ==
    ASSUME NEW M, NEW E, NEW g, Good(M, E, g), NEW from \in Nodes, NEW w, NEW s \in Finished(g, from, w),
           NEW to \in Rooted(s), NEW p \in Traces(s, from, to), NEW r, r = Onward(s, to, p)
    PROVE  r \in Traces(s, from, to) /\ Follows(s, p, r)
<1>1. /\ p \in Seq(Hops) /\ Len(p) \in Nat
      /\ Len(p) >= 1 /\ p[1].node = to /\ p[1].weight = s.weight[to]
      /\ \A i \in 1..Len(p) : p[i].node \in Rooted(s) \union {from} /\ p[i].hops = i - 1
      /\ \A i \in 1..(Len(p) - 1) : /\ p[i].node \in Rooted(s) /\ p[i + 1].node = s.root[p[i].node]
                                    /\ p[i + 1].weight = s.weight[to] - s.weight[p[i + 1].node]
      /\ \A i, j \in 1..Len(p) : i < j => s.weight[p[j].node] < s.weight[p[i].node]
  BY DEF Traces
<1>2. PICK u : u = p[Len(p)].node
  OBVIOUS
<1>3. PICK v : v = s.root[u]
  OBVIOUS
<1>4. Len(p) \in 1..Len(p) /\ u \in Rooted(s) \union {from}
  BY <1>1, <1>2
<1>5. s.weight \in [Nodes -> Nat] /\ Rooted(s) \subseteq Nodes /\ s.root[from] = NoNode
  <2>1. s \in Trees(g, from)
    BY DEF Finished, Between
  <2>2. s \in Searches
    BY <2>1, TreeHas
  <2> QED BY <2>1, <2>2, TreeHas, SearchHas
<1>6. CASE v = NoNode
  <2>1. r = p
    BY <1>2, <1>3, <1>6 DEF Onward
  <2> QED BY <1>2, <1>3, <1>6, <2>1 DEF Follows
<1>7. CASE v # NoNode
  <2>1. u \in Rooted(s)
    BY <1>3, <1>4, <1>5, <1>7
  <2>2. v \in Rooted(s) \union {from} /\ v \in Nodes /\ s.weight[v] < s.weight[u]
    BY <1>3, <2>1, RootNearer
  <2>3. \A i \in 1..Len(p) : s.weight[u] <= s.weight[p[i].node] /\ s.weight[p[i].node] \in Nat
    <3> SUFFICES ASSUME NEW i \in 1..Len(p) PROVE s.weight[u] <= s.weight[p[i].node] /\ s.weight[p[i].node] \in Nat
      OBVIOUS
    <3>1. p[i].node \in Nodes /\ s.weight[p[i].node] \in Nat /\ u \in Nodes /\ s.weight[u] \in Nat
      BY <1>1, <1>5, <2>1
    <3>2. i = Len(p) \/ i < Len(p)
      BY <1>1
    <3> QED BY <1>1, <1>2, <1>4, <3>1, <3>2
  <2>4. \A i \in 1..Len(p) : s.weight[v] < s.weight[p[i].node]
    <3>1. s.weight[v] \in Nat /\ s.weight[u] \in Nat
      BY <1>5, <2>1, <2>2
    <3> QED BY <2>2, <2>3, <3>1
  <2>5. PICK x : x = [node |-> v, weight |-> s.weight[to] - s.weight[v], hops |-> Len(p)]
    OBVIOUS
  <2>6. x \in Hops /\ x.node = v /\ x.weight = s.weight[to] - s.weight[v] /\ x.hops = Len(p)
    <3>1. s.weight[v] < s.weight[to] /\ s.weight[to] \in Nat /\ s.weight[v] \in Nat
      <4>1. 1 \in 1..Len(p)
        BY <1>1
      <4>2. s.weight[v] < s.weight[p[1].node]
        BY <2>4, <4>1
      <4> QED BY <1>1, <1>5, <2>2, <4>2
    <3>2. s.weight[to] - s.weight[v] \in Nat
      BY <3>1
    <3> QED BY <1>1, <2>2, <2>5, <3>2 DEF Hops
  <2>7. r = Append(p, x)
    BY <1>2, <1>3, <1>7, <2>5 DEF Onward
  <2>8. /\ r \in Seq(Hops) /\ Len(r) = Len(p) + 1 /\ r[Len(r)] = x
        /\ \A i \in 1..Len(p) : r[i] = p[i]
    BY <1>1, <2>6, <2>7
  <2>9. \A i \in 1..Len(r) : i = Len(r) \/ i \in 1..Len(p)
    BY <1>1, <2>8
  <2>10. Len(r) >= 1 /\ r[1].node = to /\ r[1].weight = s.weight[to]
    <3>1. 1 \in 1..Len(p)
      BY <1>1
    <3> QED BY <1>1, <2>8, <3>1
  <2>11. ASSUME NEW i \in 1..Len(r) PROVE r[i].node \in Rooted(s) \union {from} /\ r[i].hops = i - 1
    <3>1. CASE i = Len(r)
      BY <1>1, <2>2, <2>6, <2>8, <3>1
    <3>2. CASE i \in 1..Len(p)
      BY <1>1, <2>8, <3>2
    <3> QED BY <2>9, <3>1, <3>2
  <2>12. ASSUME NEW i \in 1..(Len(r) - 1)
         PROVE  /\ r[i].node \in Rooted(s) /\ r[i + 1].node = s.root[r[i].node]
                /\ r[i + 1].weight = s.weight[to] - s.weight[r[i + 1].node]
    <3>1. i \in 1..Len(p)
      BY <1>1, <2>8
    <3>2. CASE i = Len(p)
      <4>1. r[i].node = u /\ r[i + 1] = x
        BY <1>2, <2>8, <3>1, <3>2
      <4> QED BY <1>3, <2>1, <2>6, <4>1
    <3>3. CASE i # Len(p)
      <4>1. i \in 1..(Len(p) - 1) /\ i + 1 \in 1..Len(p)
        BY <1>1, <3>1, <3>3
      <4> QED BY <1>1, <2>8, <3>1, <4>1
    <3> QED BY <3>2, <3>3
  <2>13. ASSUME NEW i \in 1..Len(r), NEW j \in 1..Len(r), i < j
         PROVE  s.weight[r[j].node] < s.weight[r[i].node]
    <3>1. i \in 1..Len(p) /\ r[i] = p[i]
      BY <1>1, <2>8, <2>9, <2>13
    <3>2. CASE j = Len(r)
      BY <2>4, <2>6, <2>8, <3>1, <3>2
    <3>3. CASE j \in 1..Len(p)
      BY <1>1, <2>8, <2>13, <3>1, <3>3
    <3> QED BY <2>9, <3>2, <3>3
  <2>14. r \in Traces(s, from, to)
    BY <2>8, <2>10, <2>11, <2>12, <2>13 DEF Traces
  <2> QED BY <1>2, <1>3, <1>7, <2>8, <2>14 DEF Follows
<1> QED BY <1>6, <1>7

\* No vertex is passed twice.
LEMMA TraceShort ==
    ASSUME NEW g, NEW from \in Nodes, NEW w, NEW s \in Finished(g, from, w), NEW to, NEW p \in Traces(s, from, to)
    PROVE  /\ Len(p) \in Nat /\ Len(p) <= Cardinality(Nodes)
           /\ \A i, j \in 1..Len(p) : p[i].node = p[j].node => i = j
<1>1. /\ p \in Seq(Hops) /\ Len(p) \in Nat /\ Len(p) >= 1
      /\ \A i \in 1..Len(p) : p[i].node \in Rooted(s) \union {from}
      /\ \A i, j \in 1..Len(p) : i < j => s.weight[p[j].node] < s.weight[p[i].node]
  BY DEF Traces
<1>2. s.weight \in [Nodes -> Nat] /\ Rooted(s) \subseteq Nodes
  <2>1. s \in Searches
    BY TreeHas DEF Finished, Between
  <2> QED BY <2>1, SearchHas
<1>3. \A i \in 1..Len(p) : p[i].node \in Nodes /\ s.weight[p[i].node] \in Nat
  BY <1>1, <1>2
<1>4. ASSUME NEW i \in 1..Len(p), NEW j \in 1..Len(p), p[i].node = p[j].node PROVE i = j
  <2>1. CASE i < j
    <3>1. s.weight[p[j].node] < s.weight[p[j].node] /\ s.weight[p[j].node] \in Nat
      BY <1>1, <1>3, <1>4, <2>1
    <3> QED BY <3>1
  <2>2. CASE j < i
    <3>1. s.weight[p[j].node] < s.weight[p[j].node] /\ s.weight[p[j].node] \in Nat
      BY <1>1, <1>3, <1>4, <2>2
    <3> QED BY <3>1
  <2> QED BY <1>1, <2>1, <2>2
<1>5. PICK f : f = [i \in 1..Len(p) |-> p[i].node]
  OBVIOUS
<1>6. f \in Injection(1..Len(p), Nodes)
  BY <1>3, <1>4, <1>5 DEF Injection, IsInjective
<1>7. Cardinality(1..Len(p)) <= Cardinality(Nodes)
  BY <1>6, NodesAssumption, FS_Injection
<1>8. Cardinality(1..Len(p)) = Len(p)
  BY <1>1, FS_Interval
<1> QED BY <1>1, <1>4, <1>7, <1>8

\* A way from one vertex back to another
LEMMA TracedBack ==
    ASSUME NEW M, NEW E, NEW g, Good(M, E, g), NEW from \in Nodes, NEW w, NEW s \in Finished(g, from, w),
           NEW to \in Rooted(s), NEW r, r = Traced(s, to)
    PROVE  r \in Traces(s, from, to) /\ r[Len(r)].node = from
<1> DEFINE m == Cardinality(Nodes)
           S == Traces(s, from, to)
           start == <<[node |-> to, weight |-> s.weight[to], hops |-> 0]>>
           Step(p, i) == LET v == s.root[p[Len(p)].node]
                         IN  IF v = NoNode THEN p
                             ELSE Append(p, [node |-> v, weight |-> s.weight[to] - s.weight[v], hops |-> Len(p)])
           Rec(h) == h = [i \in 0..m |-> IF i = 0 THEN start ELSE Step(h[i - 1], i)]
<1>1. m \in Nat
  BY NodesCounted
<1>2. start \in S /\ Len(start) = 1
  <2>1. PICK x : x = [node |-> to, weight |-> s.weight[to], hops |-> 0]
    OBVIOUS
  <2>2. to \in Nodes /\ s.weight[to] \in Nat
    <3>1. s \in Searches
      BY TreeHas DEF Finished, Between
    <3> QED BY <3>1, SearchHas
  <2>3. x \in Hops /\ x.node = to /\ x.weight = s.weight[to] /\ x.hops = 0
    BY <2>1, <2>2 DEF Hops
  <2>4. start = <<x>>
    BY <2>1
  <2>5. start \in Seq(Hops) /\ Len(start) = 1 /\ start[1] = x /\ 1..Len(start) = {1} /\ 1..(Len(start) - 1) = {}
    BY <2>3, <2>4
  <2>6. PICK p : p = start
    OBVIOUS
  <2>7. p \in Seq(Hops) /\ Len(p) = 1 /\ p[1] = x /\ \A i \in 1..Len(p) : i = 1
    BY <2>5, <2>6
  <2>8. to \in Rooted(s) \union {from} /\ \A i \in 1..Len(p) : p[i].node = to /\ p[i].hops = i - 1
    BY <2>3, <2>7
  <2>9. /\ 1..(Len(p) - 1) = {} /\ \A i, j \in 1..Len(p) : ~(i < j)
        /\ p[1].node = to /\ p[1].weight = s.weight[to] /\ Len(p) >= 1
    BY <2>3, <2>7
  <2>10. p \in Traces(s, from, to)
    BY <2>7, <2>8, <2>9 DEF Traces
  <2> HIDE DEF start
  <2> QED BY <2>6, <2>7, <2>10
<1>0. \A i \in 1..m : \A p \in S : Step(p, i) = Onward(s, to, p)
  BY DEF Onward
<1>3. \A i \in 1..m : \A p \in S : Step(p, i) \in S /\ Follows(s, p, Step(p, i))
  <2> SUFFICES ASSUME NEW i \in 1..m, NEW p \in S PROVE Step(p, i) \in S /\ Follows(s, p, Step(p, i))
    OBVIOUS
  <2>1. PICK u : u = Onward(s, to, p)
    OBVIOUS
  <2>2. u \in Traces(s, from, to) /\ Follows(s, p, u)
    BY <2>1, TraceOn
  <2>3. Step(p, i) = u
    BY <1>0, <2>1
  <2> HIDE DEF Step
  <2> QED BY <2>2, <2>3
<1>9. \A i \in 1..m : \A t \in S : Step(t, i) \in S
  <2> HIDE DEF Step, S, m
  <2> QED BY <1>3
<1>4. PICK z : /\ z \in [0..m -> S] /\ z[0] = start /\ r = z[m]
               /\ \A i \in 1..m : z[i] = Step(z[i - 1], i)
  <2> DEFINE f == [i \in 1..m |-> [t \in S |-> Step(t, i)]]
  <2>1. f \in [1..m -> [S -> S]]
    <3> HIDE DEF Step, m, S
    <3> QED BY <1>9
  <2>0. PICK z : Steps(m, S, start, f, z)
    <3>1. m \in Nat /\ start \in S /\ f \in [1..m -> [S -> S]]
      BY <1>1, <1>2, <2>1
    <3> HIDE DEF f, m, S, Step, Rec, start
    <3> QED BY <3>1, StepsExist
  <2>2. z \in [0..m -> S] /\ z[0] = start /\ \A i \in 1..m : z[i] = f[i][z[i - 1]]
    <3> HIDE DEF f, m, S, Step, Rec, start
    <3> QED BY <2>0 DEF Steps
  <2>3. \A i \in 1..m : z[i] = Step(z[i - 1], i)
    <3> SUFFICES ASSUME NEW i \in 1..m PROVE z[i] = Step(z[i - 1], i)
      OBVIOUS
    <3>1. i - 1 \in 0..m
      BY <1>1
    <3> HIDE DEF m, S, Step, start
    <3> QED BY <2>2, <3>1
  <2>4. Rec(z)
    <3>1. ASSUME NEW i \in 0..m PROVE z[i] = IF i = 0 THEN start ELSE Step(z[i - 1], i)
      <4>1. i = 0 \/ i \in 1..m
        BY <1>1
      <4> HIDE DEF m, S, Step, start
      <4> QED BY <2>2, <2>3, <4>1
    <3> HIDE DEF m, S, Step, start
    <3> QED BY <2>2, <3>1
  <2> DEFINE h == CHOOSE h : Rec(h)
  <2>5. r = h[m]
    BY Zenon DEF Traced
  <2>6. Rec(h)
    <3> HIDE DEF Rec
    <3> QED BY <2>4
  <2> HIDE DEF h
  <2>7. \A i \in 0..m : h[i] = IF i = 0 THEN start ELSE Step(h[i - 1], i)
    <3> HIDE DEF Step, start, m
    <3> QED BY <2>6
  <2>8. h[0] = z[0] /\ \A i \in 1..m : h[i - 1] = z[i - 1] => h[i] = z[i]
    <3>1. 0 \in 0..m /\ \A i \in 1..m : i \in 0..m /\ i # 0
      BY <1>1
    <3> HIDE DEF Step, start, m, S
    <3> QED BY <2>2, <2>3, <2>7, <3>1
  <2>9. h[m] = z[m]
    <3>1. m \in Nat
      BY <1>1
    <3> HIDE DEF m, Step, S, start
    <3> QED BY <2>8, <3>1, SameSteps
  <2> QED BY <2>2, <2>3, <2>5, <2>9
<1>5. ASSUME NEW k \in 1..m PROVE z[k - 1] \in S /\ Follows(s, z[k - 1], z[k])
  <2>1. k - 1 \in 0..m
    BY <1>1
  <2>2. z[k - 1] \in S /\ z[k] = Step(z[k - 1], k)
    <3> HIDE DEF S, Step, m, start
    <3> QED BY <1>4, <2>1
  <2> HIDE DEF S, Step, m, start
  <2> QED BY <1>3, <2>2
<1> HIDE DEF Step, start
<1> DEFINE Done(t, k) == s.root[t[Len(t)].node] = NoNode \/ Len(t) >= k + 1
           G == {k \in 0..m : Done(z[k], k)}
<1>6. 0 \in G
  <2>1. Len(z[0]) >= 0 + 1 /\ 0 \in 0..m
    <3>1. Len(z[0]) = 1
      <4>1. z[0] = start
        BY <1>4
      <4> HIDE DEF S, m
      <4> QED BY <1>2, <4>1
    <3>2. 0 \in 0..m
      BY <1>1
    <3> HIDE DEF m
    <3> QED BY <3>1, <3>2
  <2> HIDE DEF m
  <2> QED BY <2>1
<1>7. ASSUME NEW k \in 1..m, k - 1 \in G PROVE k \in G
  <2>1. PICK t, u : t = z[k - 1] /\ u = z[k]
    OBVIOUS
  <2>2. Done(t, k - 1) /\ t \in Traces(s, from, to) /\ Follows(s, t, u)
    BY <1>5, <1>7, <2>1
  <2>3. Len(t) \in Nat
    BY <2>2, TraceShort
  <2>4. Done(u, k)
    <3>1. CASE s.root[t[Len(t)].node] = NoNode
      BY <2>2, <3>1 DEF Follows
    <3>2. CASE s.root[t[Len(t)].node] # NoNode
      BY <1>1, <2>2, <2>3, <3>2 DEF Follows
    <3> QED BY <3>1, <3>2
  <2>5. k \in 0..m
    BY <1>1
  <2> HIDE DEF Done
  <2> QED BY <2>1, <2>4, <2>5
<1>8. m \in 0..m /\ \A k \in 0..m : k \in G
  <2>1. m \in 0..m
    BY <1>1
  <2> HIDE DEF G, m
  <2> QED BY <1>1, <1>6, <1>7, <2>1, CountUp
<1>10. r \in Traces(s, from, to) /\ Done(r, m)
  <2>1. r = z[m] /\ z[m] \in S
    <3> HIDE DEF S, m
    <3> QED BY <1>4, <1>8
  <2> HIDE DEF Done, m
  <2> QED BY <1>8, <2>1
<1>11. s.root[r[Len(r)].node] = NoNode
  BY <1>1, <1>10, TraceShort
<1>12. r[Len(r)].node \in Rooted(s) \union {from}
  <2>1. Len(r) \in Nat /\ Len(r) >= 1 /\ \A i \in 1..Len(r) : r[i].node \in Rooted(s) \union {from}
    BY <1>10 DEF Traces
  <2>2. Len(r) \in 1..Len(r)
    BY <2>1
  <2> QED BY <2>1, <2>2
<1> QED BY <1>10, <1>11, <1>12 DEF Rooted

-----------------------------------------------------------------------------
(* The reference: distances *)

\* r is d after all edges were relaxed once.
Nearing(g, d, r) ==
    \A n \in Nodes :
        /\ r[n] <= d[n]
        /\ \A x \in Nodes : \A e \in Held(g.out[x]) : e.to = n => r[n] <= d[x] + e.weight
        /\ r[n] = d[n] \/ \E x \in Nodes : \E e \in Held(g.out[x]) : e.to = n /\ r[n] = d[x] + e.weight

LEMMA CloserIs ==
    ASSUME NEW M, NEW E, NEW g, Good(M, E, g), NEW d \in [Nodes -> Nat], NEW r, r = Closer(g, d)
    PROVE  r \in [Nodes -> Nat] /\ Nearing(g, d, r)
<1> DEFINE From(n) == {y \in Nodes : HasEdge(g, y, n)}
           Over1(n) == {d[x] + EdgeOf(g, x, n).weight : x \in From(n)}
           All(n) == {d[n]} \union Over1(n)
<1>1. \A n \in Nodes : \A x \in From(n) : \E e \in Held(g.out[x]) : e.to = n /\ e = EdgeOf(g, x, n) /\ e.weight \in Nat
  <2> SUFFICES ASSUME NEW n \in Nodes, NEW x \in Nodes, HasEdge(g, x, n)
               PROVE  \E e \in Held(g.out[x]) : e.to = n /\ e = EdgeOf(g, x, n) /\ e.weight \in Nat
    OBVIOUS
  <2>1. PICK l : l = g.out[x]
    OBVIOUS
  <2>2. PICK e \in Held(l) : e.to = n
    BY <2>1, GoodAt
  <2>3. e \in Edges(M)
    BY <2>1, GoodAt
  <2>4. e.weight \in Nat
    BY <2>3 DEF Edges, MaxWeight
  <2>5. EdgeOf(g, x, n) = e
    BY <2>1, <2>2, EdgeIs
  <2> QED BY <2>1, <2>2, <2>4, <2>5
<1>2. ASSUME NEW n \in Nodes
      PROVE  All(n) \in SUBSET Nat /\ All(n) # {} /\ r[n] = LowestOf(All(n))
  <2>1. ASSUME NEW x \in From(n) PROVE d[x] + EdgeOf(g, x, n).weight \in Nat
    <3>1. x \in Nodes /\ d[x] \in Nat /\ EdgeOf(g, x, n).weight \in Nat
      BY <1>1
    <3> QED BY <3>1
  <2>2. d[n] \in Nat /\ r[n] = LowestOf(All(n))
    BY DEF Closer
  <2> QED BY <2>1, <2>2
<1>3. ASSUME NEW n \in Nodes PROVE r[n] \in All(n) /\ \A y \in All(n) : r[n] <= y
  <2>1. PICK S : S = All(n)
    OBVIOUS
  <2>2. S \in SUBSET Nat /\ S # {} /\ r[n] = LowestOf(S)
    BY <1>2, <2>1
  <2>3. \E x \in S : \A y \in S : x <= y
    BY <2>2, LeastOf
  <2>4. LowestOf(S) \in S /\ \A y \in S : LowestOf(S) <= y
    BY <2>3 DEF LowestOf
  <2> HIDE DEF All
  <2> QED BY <2>1, <2>2, <2>4
<1>4. r = [n \in Nodes |-> r[n]]
  BY DEF Closer
<1>5. r \in [Nodes -> Nat]
  <2>1. \A n \in Nodes : r[n] \in Nat
    <3> HIDE DEF All
    <3> QED BY <1>2, <1>3
  <2> QED BY <1>4, <2>1
<1>6. ASSUME NEW n \in Nodes
      PROVE  /\ r[n] <= d[n]
             /\ \A x \in Nodes : \A e \in Held(g.out[x]) : e.to = n => r[n] <= d[x] + e.weight
             /\ r[n] = d[n] \/ \E x \in Nodes : \E e \in Held(g.out[x]) : e.to = n /\ r[n] = d[x] + e.weight
  <2>1. r[n] <= d[n]
    BY <1>3
  <2>2. ASSUME NEW x \in Nodes, NEW e \in Held(g.out[x]), e.to = n PROVE r[n] <= d[x] + e.weight
    <3>1. HasEdge(g, x, n) /\ EdgeOf(g, x, n) = e
      BY <2>2, EdgeIs
    <3>2. d[x] + EdgeOf(g, x, n).weight \in All(n)
      BY <3>1
    <3> HIDE DEF All
    <3> QED BY <1>3, <3>1, <3>2
  <2>3. ASSUME r[n] # d[n] PROVE \E x \in Nodes : \E e \in Held(g.out[x]) : e.to = n /\ r[n] = d[x] + e.weight
    <3>1. r[n] \in Over1(n)
      BY <1>3, <2>3
    <3>2. PICK x \in From(n) : r[n] = d[x] + EdgeOf(g, x, n).weight
      BY <3>1
    <3>3. PICK e \in Held(g.out[x]) : e.to = n /\ e = EdgeOf(g, x, n)
      BY <1>1
    <3> QED BY <3>2, <3>3
  <2> QED BY <2>1, <2>2, <2>3
<1> QED BY <1>5, <1>6 DEF Nearing

\* An edge from x to n makes up for what lies between them.
Ahead(g, s, n, x) ==
    /\ n \in Nodes /\ x \in Nodes /\ s.weight[n] \in Nat /\ s.weight[x] \in Nat
    /\ \E e \in Held(g.out[x]) : e.to = n /\ e.weight \in 1..MaxWeight /\ s.weight[n] = s.weight[x] + e.weight

\* An edge leads from each vertex of a trace to the one before.
LEMMA TraceStep ==
    ASSUME NEW M, NEW E, NEW g, Good(M, E, g), NEW from \in Nodes, NEW w, NEW s \in Finished(g, from, w),
           NEW to, NEW p \in Traces(s, from, to), NEW i \in 1..(Len(p) - 1),
           NEW n, n = p[i].node, NEW x, x = p[i + 1].node
    PROVE  Ahead(g, s, n, x)
<1>1. n \in Rooted(s) /\ x = s.root[n]
  BY DEF Traces
<1>2. x \in Nodes /\ n \in Nodes /\ s.weight[n] \in Nat /\ s.weight[x] \in Nat
  BY <1>1, RootNearer
<1>3. s \in Trees(g, from)
  BY DEF Finished, Between
<1>4. Over(g, s, n)
  BY <1>1, <1>3, TreeHas
<1>5. PICK e \in Held(g.out[x]) : e.to = n /\ s.weight[n] = s.weight[x] + e.weight
  BY <1>1, <1>4 DEF Over
<1>6. e \in Edges(M)
  BY <1>2, <1>5, GoodAt
<1>7. e.weight \in 1..MaxWeight
  BY <1>6 DEF Edges
<1> QED BY <1>2, <1>5, <1>7 DEF Ahead

\* No trace weighs as much as nothing does.
LEMMA TraceLight ==
    ASSUME NEW M, NEW E, NEW g, Good(M, E, g), NEW from \in Nodes, NEW w, NEW s \in Finished(g, from, w),
           NEW to, NEW p \in Traces(s, from, to), p[Len(p)].node = from
    PROVE  s.weight[to] \in Nat /\ s.weight[to] < Infinite
<1> DEFINE m == Cardinality(Nodes)
           k == Len(p)
           Light(j) == s.weight[p[k - j].node] \in Nat /\ s.weight[p[k - j].node] <= MaxWeight * j
           G == {j \in 0..(k - 1) : Light(j)}
<1>1. m \in Nat /\ m >= 1 /\ k \in Nat /\ k >= 1 /\ k <= m /\ p[1].node = to /\ MaxWeight = 100
  <2>1. k >= 1 /\ p[1].node = to
    BY DEF Traces
  <2> QED BY <2>1, NodesCounted, TraceShort DEF MaxWeight
<1>2. 0 \in G
  <2>1. s.weight[from] = 0
    BY TreeHas DEF Finished, Between
  <2>2. k - 0 = k /\ 0 \in 0..(k - 1) /\ MaxWeight * 0 = 0
    BY <1>1
  <2>3. Light(0)
    <3> HIDE DEF k
    <3>1. p[k - 0].node = from
      BY <2>2 DEF k
    <3> QED BY <2>1, <2>2, <3>1
  <2> HIDE DEF Light, k
  <2> QED BY <2>2, <2>3
<1>3. ASSUME NEW j \in 1..(k - 1), j - 1 \in G PROVE j \in G
  <2>1. PICK i : i = k - j
    OBVIOUS
  <2>2. i \in 1..(k - 1) /\ k - (j - 1) = i + 1 /\ j \in 0..(k - 1)
    BY <1>1, <2>1
  <2>3. Light(j - 1)
    BY <1>3
  <2>4. PICK n, x : n = p[i].node /\ x = p[i + 1].node
    OBVIOUS
  <2>11. Ahead(g, s, n, x)
    <3>1. i \in 1..(Len(p) - 1)
      BY <2>2
    <3> HIDE DEF G, Light, m, k
    <3> QED BY <2>4, <3>1, TraceStep
  <2>5. s.weight[n] \in Nat /\ s.weight[x] \in Nat
    BY <2>11 DEF Ahead
  <2>6. s.weight[n] <= s.weight[x] + MaxWeight
    <3>1. PICK e \in Held(g.out[x]) : e.weight \in 1..MaxWeight /\ s.weight[n] = s.weight[x] + e.weight
      BY <2>11 DEF Ahead
    <3>3. \A b \in 1..MaxWeight : b <= MaxWeight /\ b \in Int /\ MaxWeight \in Int
      BY DEF MaxWeight
    <3>2. e.weight <= MaxWeight /\ e.weight \in Int /\ MaxWeight \in Int
      BY <3>1, <3>3
    <3> QED BY <2>5, <3>1, <3>2
  <2>7. s.weight[x] <= MaxWeight * (j - 1)
    BY <2>2, <2>3, <2>4
  <2>8. MaxWeight * (j - 1) + MaxWeight = MaxWeight * j
    BY <1>1
  <2>9. s.weight[n] <= MaxWeight * j
    <3>1. MaxWeight * (j - 1) \in Int /\ MaxWeight * j \in Int /\ MaxWeight \in Int
      BY <1>1
    <3> QED BY <2>5, <2>6, <2>7, <2>8, <3>1
  <2>10. Light(j)
    BY <2>1, <2>4, <2>5, <2>9
  <2> HIDE DEF Light, k
  <2> QED BY <2>2, <2>10
<1>4. Light(k - 1)
  <2>1. k - 1 \in Nat /\ k - 1 \in 0..(k - 1)
    BY <1>1
  <2>2. \A j \in 0..(k - 1) : j \in G
    <3> HIDE DEF G, k
    <3>1. PICK q : q = k - 1
      OBVIOUS
    <3>2. \A j \in 0..q : j \in G
      BY <1>2, <1>3, <2>1, <3>1, CountUp
    <3> QED BY <3>1, <3>2
  <2> HIDE DEF Light, k
  <2> QED BY <2>1, <2>2
<1>5. k - (k - 1) = 1 /\ MaxWeight * (k - 1) < MaxWeight * m
  BY <1>1
<1>6. s.weight[to] \in Nat /\ s.weight[to] <= MaxWeight * (k - 1)
  BY <1>1, <1>4, <1>5
<1>7. Infinite = MaxWeight * m
  BY DEF Infinite
<1> HIDE DEF m, k
<1> QED BY <1>1, <1>5, <1>6, <1>7

\* What the reference has, of a search that is over: what is near was seen, and when
\* all edges weigh the same it is no nearer.
Beyond(g, from, w, s) ==
    {d \in [Nodes -> Nat] :
        /\ d[from] = 0
        /\ \A n \in Nodes : d[n] < Infinite => n \in s.seen /\ (Even(g, w) => s.weight[n] <= d[n])}

LEMMA CloserBeyond ==
    ASSUME NEW M, NEW E, NEW g, Good(M, E, g), NEW from \in Nodes, NEW w, NEW s \in Finished(g, from, w),
           NEW d \in Beyond(g, from, w, s), NEW r, r = Closer(g, d)
    PROVE  r \in Beyond(g, from, w, s)
<1>1. d \in [Nodes -> Nat] /\ d[from] = 0
  BY DEF Beyond
<1>2. r \in [Nodes -> Nat] /\ Nearing(g, d, r)
  BY <1>1, CloserIs
<1>3. r[from] = 0
  <2>1. r[from] <= d[from] /\ r[from] \in Nat
    BY <1>2 DEF Nearing
  <2> QED BY <1>1, <2>1
<1>4. /\ Closed(g, from, s) /\ (Even(g, w) => Flat(g, s)) /\ s.seen = Rooted(s) \union {from}
      /\ s.weight \in [Nodes -> Nat] /\ s.seen \subseteq Nodes
  <2>1. s \in Searches
    BY TreeHas DEF Finished, Between
  <2> QED BY <2>1, SearchHas DEF Finished, Between
<1>5. Infinite \in Nat
  BY NodesCounted DEF Infinite, MaxWeight
<1>6. ASSUME NEW n \in Nodes, r[n] < Infinite PROVE n \in s.seen /\ (Even(g, w) => s.weight[n] <= r[n])
  <2>1. CASE r[n] = d[n]
    BY <1>6, <2>1 DEF Beyond
  <2>2. CASE r[n] # d[n]
    <3>1. PICK x \in Nodes : \E e \in Held(g.out[x]) : e.to = n /\ r[n] = d[x] + e.weight
      BY <1>2, <2>2 DEF Nearing
    <3>2. PICK e \in Held(g.out[x]) : e.to = n /\ r[n] = d[x] + e.weight
      BY <3>1
    <3>3. e \in Edges(M)
      BY GoodAt
    <3>4. e.weight \in Nat
      BY <3>3 DEF Edges, MaxWeight
    <3>5. d[x] \in Nat /\ r[n] \in Nat /\ d[x] < Infinite
      BY <1>1, <1>2, <1>5, <1>6, <3>2, <3>4
    <3>6. x \in s.seen /\ (Even(g, w) => s.weight[x] <= d[x])
      BY <3>5 DEF Beyond
    <3>7. n \in s.seen
      BY <1>4, <3>2, <3>6 DEF Closed
    <3>8. ASSUME Even(g, w) PROVE s.weight[n] <= r[n]
      <4>1. s.weight[n] <= s.weight[x] + e.weight
        BY <1>4, <3>2, <3>6, <3>8 DEF Flat
      <4>2. s.weight[n] \in Nat /\ s.weight[x] \in Nat /\ s.weight[x] <= d[x]
        BY <1>4, <3>6, <3>8
      <4> QED BY <3>2, <3>4, <3>5, <4>1, <4>2
    <3> QED BY <3>7, <3>8
  <2> QED BY <2>1, <2>2
<1> QED BY <1>2, <1>3, <1>6 DEF Beyond

\* What the reference ends with, for a search that is over
Reached(g, from, w, s, d) ==
    /\ d \in [Nodes -> Nat]
    /\ \A n \in Nodes :
          /\ d[n] < Infinite <=> n \in s.seen
          /\ n \in Rooted(s) => d[n] <= s.weight[n] /\ (Even(g, w) => s.weight[n] <= d[n])

\* Of a trace, the last j vertices are no farther by the reference.
Caught(s, p, d, j) == \A i \in 1..Len(p) : Len(p) - i <= j => d[p[i].node] <= s.weight[p[i].node]

LEMMA CaughtMore ==
    ASSUME NEW M, NEW E, NEW g, Good(M, E, g), NEW from \in Nodes, NEW w, NEW s \in Finished(g, from, w),
           NEW to, NEW p \in Traces(s, from, to), NEW d \in [Nodes -> Nat], NEW r, r = Closer(g, d),
           NEW j \in Nat \ {0}, Caught(s, p, d, j - 1)
    PROVE  Caught(s, p, r, j)
<1>1. r \in [Nodes -> Nat] /\ Nearing(g, d, r)
  BY CloserIs
<1>2. /\ \A i \in 1..Len(p) : p[i].node \in Nodes /\ s.weight[p[i].node] \in Nat
      /\ Len(p) \in Nat /\ Len(p) >= 1
  <2>1. /\ Len(p) \in Nat /\ Len(p) >= 1
        /\ \A i \in 1..Len(p) : p[i].node \in Rooted(s) \union {from}
    BY DEF Traces
  <2>2. s \in Searches
    BY TreeHas DEF Finished, Between
  <2>3. s.weight \in [Nodes -> Nat] /\ Rooted(s) \subseteq Nodes
    BY <2>2, SearchHas
  <2> QED BY <2>1, <2>3
<1> SUFFICES ASSUME NEW i \in 1..Len(p), Len(p) - i <= j PROVE r[p[i].node] <= s.weight[p[i].node]
  BY DEF Caught
<1>3. PICK n : n = p[i].node
  OBVIOUS
<1>4. n \in Nodes /\ s.weight[n] \in Nat /\ r[n] \in Nat /\ d[n] \in Nat /\ r[n] <= d[n]
  BY <1>1, <1>2, <1>3 DEF Nearing
<1>5. CASE Len(p) - i <= j - 1
  <2>1. d[n] <= s.weight[n]
    BY <1>3, <1>5 DEF Caught
  <2> QED BY <1>3, <1>4, <2>1
<1>6. CASE Len(p) - i = j
  <2>1. i \in 1..(Len(p) - 1) /\ i + 1 \in 1..Len(p) /\ Len(p) - (i + 1) <= j - 1
    BY <1>2, <1>6
  <2>2. PICK x : x = p[i + 1].node
    OBVIOUS
  <2>3. Ahead(g, s, n, x)
    BY <1>3, <2>1, <2>2, TraceStep
  <2>4. PICK e \in Held(g.out[x]) : e.to = n /\ e.weight \in 1..MaxWeight /\ s.weight[n] = s.weight[x] + e.weight
    BY <2>3 DEF Ahead
  <2>5. x \in Nodes /\ s.weight[x] \in Nat /\ d[x] \in Nat
    BY <2>3 DEF Ahead
  <2>6. d[x] <= s.weight[x]
    BY <2>1, <2>2 DEF Caught
  <2>7. r[n] <= d[x] + e.weight
    BY <1>1, <1>4, <2>4, <2>5 DEF Nearing
  <2>8. e.weight \in Nat
    <3>1. \A k \in 1..MaxWeight : k \in Nat
      BY DEF MaxWeight
    <3> QED BY <2>4, <3>1
  <2> QED BY <1>3, <1>4, <2>4, <2>5, <2>6, <2>7, <2>8
<1> QED BY <1>2, <1>5, <1>6

LEMMA DistancesIs ==
    ASSUME NEW M, NEW E, NEW g, Good(M, E, g), NEW from \in Nodes, NEW w, NEW s \in Finished(g, from, w),
           NEW r, r = Distances(g, from)
    PROVE  Reached(g, from, w, s, r)
<1> DEFINE l == [i \in 1..Cardinality(Nodes) |-> i]
           m == Len(l)
           S == Beyond(g, from, w, s)
           start == [n \in Nodes |-> IF n = from THEN 0 ELSE Infinite]
           Step(d, i) == Closer(g, d)
           Rec(h) == h = [i \in 0..m |-> IF i = 0 THEN start ELSE Step(h[i - 1], i)]
<1>0. Cardinality(Nodes) \in Nat /\ m = Cardinality(Nodes)
  BY NodesCounted
<1> HIDE DEF l
<1>1. m \in Nat
  BY <1>0
<1>11. Infinite \in Nat /\ Infinite > 0
  BY NodesCounted DEF Infinite, MaxWeight
<1>12. from \in s.seen /\ s.weight[from] = 0 /\ s.root[from] = NoNode
  BY TreeHas DEF Finished, Between
<1>2. start \in S
  <2>1. start \in [Nodes -> Nat] /\ start[from] = 0
    BY <1>11
  <2>2. \A n \in Nodes : start[n] < Infinite => n = from /\ start[n] = 0
    BY <1>11
  <2> HIDE DEF start
  <2>3. \A n \in Nodes : start[n] < Infinite => n \in s.seen /\ (Even(g, w) => s.weight[n] <= start[n])
    BY <1>12, <2>2
  <2> QED BY <2>1, <2>3 DEF Beyond
<1>9. \A i \in 1..m : \A t \in S : Step(t, i) \in S
  <2> SUFFICES ASSUME NEW t \in S PROVE Closer(g, t) \in S
    OBVIOUS
  <2> HIDE DEF m
  <2> QED BY CloserBeyond
<1>4. PICK z : /\ z \in [0..m -> S] /\ z[0] = start /\ r = z[m]
               /\ \A i \in 1..m : z[i] = Step(z[i - 1], i)
  <2> DEFINE f == [i \in 1..m |-> [t \in S |-> Step(t, i)]]
  <2>1. f \in [1..m -> [S -> S]]
    <3> HIDE DEF Step, m, S
    <3> QED BY <1>9
  <2>0. PICK z : Steps(m, S, start, f, z)
    <3>1. m \in Nat /\ start \in S /\ f \in [1..m -> [S -> S]]
      BY <1>1, <1>2, <2>1
    <3> HIDE DEF f, m, S, Step, Rec, start
    <3> QED BY <3>1, StepsExist
  <2>2. z \in [0..m -> S] /\ z[0] = start /\ \A i \in 1..m : z[i] = f[i][z[i - 1]]
    <3> HIDE DEF f, m, S, Step, Rec, start
    <3> QED BY <2>0 DEF Steps
  <2>3. \A i \in 1..m : z[i] = Step(z[i - 1], i)
    <3> SUFFICES ASSUME NEW i \in 1..m PROVE z[i] = Step(z[i - 1], i)
      OBVIOUS
    <3>1. i - 1 \in 0..m
      BY <1>1
    <3> HIDE DEF m, S, Step, start
    <3> QED BY <2>2, <3>1
  <2>4. Rec(z)
    <3>1. ASSUME NEW i \in 0..m PROVE z[i] = IF i = 0 THEN start ELSE Step(z[i - 1], i)
      <4>1. i = 0 \/ i \in 1..m
        BY <1>1
      <4> HIDE DEF m, S, Step, start
      <4> QED BY <2>2, <2>3, <4>1
    <3> HIDE DEF m, S, Step, start
    <3> QED BY <2>2, <3>1
  <2> DEFINE h == CHOOSE h : Rec(h)
  <2>5. r = h[m]
    BY DEF Distances, Folded, l
  <2>6. Rec(h)
    <3> HIDE DEF Rec
    <3> QED BY <2>4
  <2> HIDE DEF h
  <2>7. \A i \in 0..m : h[i] = IF i = 0 THEN start ELSE Step(h[i - 1], i)
    <3> HIDE DEF Step, start, m
    <3> QED BY <2>6
  <2>8. h[0] = z[0] /\ \A i \in 1..m : h[i - 1] = z[i - 1] => h[i] = z[i]
    <3>1. 0 \in 0..m /\ \A i \in 1..m : i \in 0..m /\ i # 0
      BY <1>1
    <3> HIDE DEF Step, start, m, S
    <3> QED BY <2>2, <2>3, <2>7, <3>1
  <2>9. h[m] = z[m]
    <3>1. m \in Nat
      BY <1>1
    <3> HIDE DEF m, Step, S, start
    <3> QED BY <2>8, <3>1, SameSteps
  <2> QED BY <2>2, <2>3, <2>5, <2>9
<1>5. r \in S
  <2>1. m \in 0..m
    BY <1>1
  <2> HIDE DEF S, m, Step, start
  <2> QED BY <1>4, <2>1
<1>6. \A n \in Nodes : r[n] < Infinite => n \in s.seen /\ (Even(g, w) => s.weight[n] <= r[n])
  BY <1>5 DEF Beyond
<1>7. ASSUME NEW to \in Rooted(s) PROVE r[to] <= s.weight[to] /\ r[to] < Infinite
  <2>1. PICK p : p = Traced(s, to)
    OBVIOUS
  <2>2. p \in Traces(s, from, to) /\ p[Len(p)].node = from
    BY <2>1, TracedBack
  <2>3. Len(p) \in Nat /\ Len(p) <= m /\ Len(p) >= 1 /\ p[1].node = to
    <3>1. Len(p) \in Nat /\ Len(p) <= Cardinality(Nodes)
      BY <2>2, TraceShort
    <3>2. Len(p) >= 1 /\ p[1].node = to
      BY <2>2 DEF Traces
    <3> HIDE DEF m
    <3> QED BY <1>0, <3>1, <3>2
  <2>4. s.weight[to] \in Nat /\ s.weight[to] < Infinite
    BY <2>2, TraceLight
  <2> DEFINE G == {j \in 0..m : Caught(s, p, z[j], j)}
  <2>5. 0 \in G
    <3>1. z[0] = start
      BY <1>4
    <3>2. start[from] = 0
      BY DEF start
    <3>3. PICK d : d = z[0]
      OBVIOUS
    <3>4. d[from] = 0
      <4> HIDE DEF start
      <4> QED BY <3>1, <3>2, <3>3
    <3>5. \A i \in 1..Len(p) : Len(p) - i <= 0 => i = Len(p)
      BY <2>3
    <3>6. Caught(s, p, d, 0)
      BY <1>12, <2>2, <3>4, <3>5 DEF Caught
    <3>7. 0 \in 0..m
      BY <1>1
    <3> HIDE DEF m, S, start
    <3> QED BY <3>3, <3>6, <3>7
  <2>6. ASSUME NEW j \in 1..m, j - 1 \in G PROVE j \in G
    <3>1. PICK d, u : d = z[j - 1] /\ u = z[j]
      OBVIOUS
    <3>2. j - 1 \in 0..m /\ j \in 0..m /\ j \in Nat \ {0}
      BY <1>1
    <3>3. d \in S /\ u = Closer(g, d)
      <4>1. z[j - 1] \in S /\ z[j] = Step(z[j - 1], j)
        <5> HIDE DEF S, Step, m, start, G
        <5> QED BY <1>4, <3>2
      <4> HIDE DEF S, m, start, G
      <4> QED BY <3>1, <4>1
    <3>4. d \in [Nodes -> Nat]
      BY <3>3 DEF Beyond
    <3>5. Caught(s, p, d, j - 1)
      <4> HIDE DEF m, S
      <4> QED BY <2>6, <3>1
    <3>6. Caught(s, p, u, j)
      <4> HIDE DEF m, S, G
      <4> QED BY <2>2, <3>2, <3>3, <3>4, <3>5, CaughtMore
    <3> HIDE DEF m, S
    <3> QED BY <3>1, <3>2, <3>6
  <2>7. m \in 0..m /\ \A j \in 0..m : j \in G
    <3>1. m \in 0..m
      BY <1>1
    <3> HIDE DEF G, m
    <3> QED BY <1>1, <2>5, <2>6, <3>1, CountUp
  <2>8. Caught(s, p, r, m)
    <3>1. r = z[m]
      <4> HIDE DEF S, m
      <4> QED BY <1>4
    <3> HIDE DEF m, S
    <3> QED BY <2>7, <3>1
  <2>9. r[to] <= s.weight[to]
    <3>1. 1 \in 1..Len(p) /\ Len(p) - 1 <= m
      <4> HIDE DEF m
      <4> QED BY <1>1, <2>3
    <3> HIDE DEF m, S
    <3> QED BY <2>3, <2>8, <3>1 DEF Caught
  <2>10. r[to] \in Nat
    <3>1. to \in Nodes
      BY DEF Rooted
    <3> QED BY <1>5, <3>1 DEF Beyond
  <2> HIDE DEF m, S
  <2> QED BY <1>11, <2>4, <2>9, <2>10
<1>8. r[from] < Infinite
  BY <1>5, <1>11 DEF Beyond
<1>10. s.seen = Rooted(s) \union {from}
  BY DEF Finished
<1>14. r \in [Nodes -> Nat]
  BY <1>5 DEF Beyond
<1> HIDE DEF m, S, start, l, Step
<1>13. ASSUME NEW n \in Nodes
       PROVE  /\ r[n] < Infinite <=> n \in s.seen
              /\ n \in Rooted(s) => r[n] <= s.weight[n] /\ (Even(g, w) => s.weight[n] <= r[n])
  BY <1>6, <1>7, <1>8, <1>10
<1> QED BY <1>13, <1>14 DEF Reached

-----------------------------------------------------------------------------
(* What a route is *)

\* One leg of p, over an edge of g, and what p says at either end
Leg(g, p, i) ==
    /\ HasEdge(g, p[i + 1].node, p[i].node)
    /\ p[i + 1].hops = p[i].hops + 1
    /\ p[i + 1].weight = (IF i = 1 THEN 0 ELSE p[i].weight) + EdgeOf(g, p[i + 1].node, p[i].node).weight

\* p is a path back, no vertex twice, with what is left to its first at each.
PathBack(g, from, to, p) ==
    /\ p \in Seq(Hops) /\ Len(p) >= 2 /\ p[1].node = to /\ p[Len(p)].node = from
    /\ \A i, j \in 1..Len(p) : p[i].node = p[j].node => i = j
    /\ \A i \in 1..(Len(p) - 1) : Leg(g, p, i)
    /\ p[1].weight = p[Len(p)].weight

LEMMA TraceIsPath ==
    ASSUME NEW M, NEW E, NEW g, Good(M, E, g), NEW from \in Nodes, NEW w, NEW s \in Finished(g, from, w),
           NEW to \in Rooted(s), NEW p \in Traces(s, from, to), p[Len(p)].node = from
    PROVE  PathBack(g, from, to, p)
<1>1. /\ p \in Seq(Hops) /\ Len(p) \in Nat
      /\ Len(p) >= 1 /\ p[1].node = to /\ p[1].weight = s.weight[to]
      /\ \A i \in 1..Len(p) : p[i].hops = i - 1
      /\ \A i \in 1..(Len(p) - 1) : p[i + 1].weight = s.weight[to] - s.weight[p[i + 1].node]
  BY DEF Traces
<1>2. s.root[from] = NoNode /\ s.weight[from] = 0 /\ s.weight \in [Nodes -> Nat] /\ to \in Nodes
  <2>1. s \in Searches /\ s.root[from] = NoNode /\ s.weight[from] = 0
    BY TreeHas DEF Finished, Between
  <2> QED BY <2>1, SearchHas DEF Rooted
<1>3. to # from
  BY <1>2 DEF Rooted
<1>4. Len(p) >= 2
  BY <1>1, <1>3
<1>5. p[1].weight = p[Len(p)].weight
  <2>1. PICK i : i = Len(p) - 1
    OBVIOUS
  <2>2. i \in 1..(Len(p) - 1) /\ i + 1 = Len(p)
    BY <1>1, <1>4, <2>1
  <2>3. p[Len(p)].weight = s.weight[to] - s.weight[from]
    BY <1>1, <2>2
  <2>4. s.weight[to] \in Nat
    BY <1>2
  <2> QED BY <1>1, <1>2, <2>3, <2>4
<1>6. ASSUME NEW i \in 1..(Len(p) - 1) PROVE Leg(g, p, i)
  <2>1. PICK n, x : n = p[i].node /\ x = p[i + 1].node
    OBVIOUS
  <2>2. Ahead(g, s, n, x)
    BY <2>1, TraceStep
  <2>3. PICK e \in Held(g.out[x]) : e.to = n /\ e.weight \in 1..MaxWeight /\ s.weight[n] = s.weight[x] + e.weight
    BY <2>2 DEF Ahead
  <2>4. x \in Nodes /\ s.weight[x] \in Nat /\ s.weight[n] \in Nat
    BY <2>2 DEF Ahead
  <2>5. HasEdge(g, x, n) /\ EdgeOf(g, x, n) = e
    BY <2>3, <2>4, EdgeIs
  <2>6. i \in 1..Len(p) /\ i + 1 \in 1..Len(p)
    BY <1>1
  <2>7. p[i + 1].hops = p[i].hops + 1
    BY <1>1, <2>6
  <2>8. p[i + 1].weight = s.weight[to] - s.weight[x] /\ s.weight[to] \in Nat
    BY <1>1, <1>2, <2>1
  <2>9. \A b \in 1..MaxWeight : b \in Nat
    BY DEF MaxWeight
  <2>10. e.weight \in Nat
    BY <2>3, <2>9
  <2>11. p[i + 1].weight = (IF i = 1 THEN 0 ELSE p[i].weight) + e.weight
    <3>1. CASE i = 1
      <4>1. n = to
        BY <1>1, <2>1, <3>1
      <4> QED BY <2>3, <2>4, <2>8, <2>10, <3>1, <4>1
    <3>2. CASE i # 1
      <4>1. PICK j : j = i - 1
        OBVIOUS
      <4>2. j \in 1..(Len(p) - 1) /\ j + 1 = i
        BY <1>1, <3>2, <4>1
      <4>3. p[i].weight = s.weight[to] - s.weight[n]
        BY <1>1, <2>1, <4>2
      <4> QED BY <2>3, <2>4, <2>8, <2>10, <3>2, <4>3
    <3> QED BY <3>1, <3>2
  <2> QED BY <2>1, <2>5, <2>7, <2>11 DEF Leg
<1>7. \A i, j \in 1..Len(p) : p[i].node = p[j].node => i = j
  BY TraceShort
<1> QED BY <1>1, <1>4, <1>5, <1>6, <1>7 DEF PathBack

\* A route to what can be reached and is elsewhere, and to nothing else; as short as
\* the reference says, if all edges weigh the same.
Routed(g, from, to, p) ==
    /\ p # <<>> <=> Distances(g, from)[to] < Infinite /\ to # from
    /\ p # <<>> => PathBack(g, from, to, p)
    /\ \A w \in 1..MaxWeight : p # <<>> /\ Even(g, w) => p[1].weight = Distances(g, from)[to]

\* A search finds one.
LEMMA SearchFinds ==
    ASSUME NEW M, NEW E, Limits(M, E), NEW g, Good(M, E, g), NEW from \in Nodes, NEW to \in Nodes,
           NEW r, r = ShortestPath(g, from, to)
    PROVE  Routed(r.graph, from, to, r.route)
<1>1. PICK h : h = GetVertex(g, from)
  OBVIOUS
<1>2. Good(M, E, h)
  BY <1>1, GetVertexIs
<1>3. PICK k : k = GetVertex(h, to)
  OBVIOUS
<1>4. Good(M, E, k) /\ \A x \in Nodes : Held(k.out[x]) = Held(h.out[x])
  BY <1>2, <1>3, GetVertexIs
<1>5. SameEdges(h, k)
  BY <1>4 DEF SameEdges
<1>6. PICK s : s = Explored(h, from)
  OBVIOUS
<1>7. PICK p : p = RouteIn(s, to)
  OBVIOUS
<1>8. r.graph = k /\ r.route = p
  BY <1>1, <1>3, <1>6, <1>7 DEF ShortestPath
<1>9. ASSUME NEW w \in Nat PROVE s \in Finished(k, from, w)
  <2>1. s \in Finished(h, from, w)
    BY <1>2, <1>6, ExploredAll
  <2> QED BY <1>5, <2>1, FinishedSame
<1>10. PICK d : d = Distances(k, from)
  OBVIOUS
<1>11. ASSUME NEW w \in Nat PROVE Reached(k, from, w, s, d)
  <2>1. s \in Finished(k, from, w)
    BY <1>9
  <2> QED BY <1>4, <1>10, <2>1, DistancesIs
<1>12. 0 \in Nat
  OBVIOUS
<1>13. s \in Finished(k, from, 0) /\ Reached(k, from, 0, s, d)
  BY <1>9, <1>11, <1>12
<1>14. s.seen = Rooted(s) \union {from} /\ from \notin Rooted(s)
  <2>1. s.root[from] = NoNode
    BY <1>13, TreeHas DEF Finished, Between
  <2> QED BY <1>13, <2>1 DEF Finished, Rooted
<1>15. CASE to \notin Rooted(s)
  <2>1. s.root[to] = NoNode
    BY <1>15 DEF Rooted
  <2>2. p = <<>>
    BY <1>7, <2>1 DEF RouteIn
  <2>3. ~(d[to] < Infinite /\ to # from)
    BY <1>13, <1>14, <1>15 DEF Reached
  <2> QED BY <1>8, <1>10, <2>2, <2>3 DEF Routed
<1>16. CASE to \in Rooted(s)
  <2>1. p = Traced(s, to)
    BY <1>7, <1>16 DEF RouteIn, Rooted
  <2>2. p \in Traces(s, from, to) /\ p[Len(p)].node = from
    BY <1>4, <1>13, <1>16, <2>1, TracedBack
  <2>3. PathBack(k, from, to, p)
    BY <1>4, <1>13, <1>16, <2>2, TraceIsPath
  <2>4. p # <<>>
    <3>1. Len(p) >= 2
      BY <2>3 DEF PathBack
    <3> QED BY <3>1
  <2>5. d[to] < Infinite /\ to # from
    BY <1>13, <1>14, <1>16 DEF Reached
  <2>6. ASSUME NEW w \in 1..MaxWeight, Even(k, w) PROVE p[1].weight = d[to]
    <3>1. w \in Nat
      BY DEF MaxWeight
    <3>2. Reached(k, from, w, s, d)
      BY <1>11, <3>1
    <3>3. d[to] <= s.weight[to] /\ s.weight[to] <= d[to]
      BY <1>16, <2>6, <3>2 DEF Reached
    <3>4. d[to] \in Nat /\ s.weight[to] \in Nat
      <4>1. d \in [Nodes -> Nat]
        BY <1>13 DEF Reached
      <4>2. s \in Searches
        BY <1>13, TreeHas DEF Finished, Between
      <4> QED BY <4>1, <4>2, SearchHas
    <3>5. p[1].weight = s.weight[to]
      BY <2>2 DEF Traces
    <3> QED BY <3>3, <3>4, <3>5
  <2> QED BY <1>8, <1>10, <2>3, <2>4, <2>5, <2>6 DEF Routed
<1> QED BY <1>15, <1>16
=============================================================================
