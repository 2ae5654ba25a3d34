-------------------------- MODULE SerialLinkProofs --------------------------
(***************************************************************************)
(* The serial line.  First its bytes: either reader is back in step with   *)
(* the frames after whatever is lost or printed, for frames of any length. *)
(* Then its packets: one is out at a time, answers are about it, and they  *)
(* go out in order, for any queues, limits and losses.                     *)
(***************************************************************************)
EXTENDS MCSerial, FiniteSetTheorems, WellFoundedInduction, TLAPS

-----------------------------------------------------------------------------
(* The bytes: counting up to a number *)

\* What holds of zero, and of a number if it holds of the one before, holds up to m.
LEMMA CountUp ==
    ASSUME NEW m \in Nat, NEW G, 0 \in G, \A k \in 1..m : k - 1 \in G => k \in G
    PROVE  \A k \in 0..m : k \in G
  <1> DEFINE Bad == {k \in 0..m : k \notin G}
             R == {ss \in Nat \X Nat : ss[1] < ss[2]}
  <1> SUFFICES ASSUME Bad # {} PROVE FALSE
    OBVIOUS
  <1>1. IsWellFoundedOn(R, Nat)
    BY NatLessThanWellFounded DEF OpToRel
  <1> HIDE DEF R
  <1>2. Bad \subseteq Nat
    OBVIOUS
  <1> HIDE DEF Bad
  <1>3. PICK k \in Bad : \A j \in Bad : ~(<<j, k>> \in R)
    BY <1>1, <1>2, WFMin, Zenon
  <1>4. k \in 1..m
    BY DEF Bad
  <1>5. k - 1 \in 0..m /\ k - 1 < k /\ k \in Nat /\ k - 1 \in Nat
    BY <1>4
  <1>6. <<k - 1, k>> \in R
    BY <1>5 DEF R
  <1>7. k - 1 \notin Bad
    BY <1>3, <1>6
  <1>8. k - 1 \in G
    BY <1>5, <1>7 DEF Bad
  <1> QED BY <1>4, <1>8 DEF Bad

\* g goes from b on, from each number to the next, by the steps f
Steps(m, S, b, f, g) ==
    /\ g \in [0..m -> S] /\ g[0] = b
    /\ \A i \in 1..m : g[i] = f[i][g[i - 1]]

\* A function that is defined from each number to the next is there, and stays in a
\* set that the steps stay in.
LEMMA StepsExist ==
    ASSUME NEW m \in Nat, NEW S, NEW b \in S, NEW f \in [1..m -> [S -> S]]
    PROVE  \E g : Steps(m, S, b, f, g)
  <1> DEFINE Upto(n, g) == g[0] = b /\ \A i \in 1..n : g[i] = f[i][g[i - 1]]
             G == {n \in 0..m : \E g \in [0..n -> S] : Upto(n, g)}
  <1>1. 0 \in G
    <2> DEFINE g == [i \in 0..0 |-> b]
    <2>1. g \in [0..0 -> S] /\ Upto(0, g)
      OBVIOUS
    <2> HIDE DEF g, Upto
    <2> QED BY <2>1
  <1>2. ASSUME NEW n \in 1..m, n - 1 \in G PROVE n \in G
    <2>1. PICK g \in [0..(n - 1) -> S] : Upto(n - 1, g)
      BY <1>2
    <2>2. n \in Nat /\ n - 1 \in Nat /\ n - 1 < n /\ n - 1 \in 0..(n - 1)
      OBVIOUS
    <2>3. PICK y : y = f[n][g[n - 1]]
      OBVIOUS
    <2>4. y \in S
      <3>1. f[n] \in [S -> S] /\ g[n - 1] \in S
        BY <2>2
      <3> QED BY <2>3, <3>1
    <2> DEFINE h == [i \in 0..n |-> IF i = n THEN y ELSE g[i]]
    <2>5. h \in [0..n -> S]
      <3>1. ASSUME NEW i \in 0..n PROVE (IF i = n THEN y ELSE g[i]) \in S
        BY <2>2, <2>4
      <3> QED BY <3>1
    <2>6. h[0] = b
      BY <2>1, <2>2
    <2>7. ASSUME NEW i \in 1..n PROVE h[i] = f[i][h[i - 1]]
      <3>1. h[i - 1] = g[i - 1]
        BY <2>2
      <3>2. CASE i = n
        <4>1. h[i] = y
          BY <2>2, <3>2
        <4> HIDE DEF h
        <4> QED BY <2>3, <3>1, <3>2, <4>1
      <3>3. CASE i # n
        <4>1. i \in 1..(n - 1) /\ h[i] = g[i]
          BY <2>2, <3>3
        <4> QED BY <2>1, <3>1, <4>1
      <3> QED BY <3>2, <3>3
    <2> HIDE DEF h
    <2>8. Upto(n, h)
      BY <2>6, <2>7
    <2> HIDE DEF Upto
    <2> QED BY <2>5, <2>8
  <1>3. m \in G
    <2> HIDE DEF G
    <2>1. \A n \in 0..m : n \in G
      BY <1>1, <1>2, CountUp
    <2> QED BY <2>1
  <1> QED BY <1>3 DEF Steps

-----------------------------------------------------------------------------
(* The bytes of a frame *)

\* Bit 5 inverted
Inv5(b) == Reader(TRUE, 0)!Inverted(b)

Byte == 0..255
Special == {125, 126}

\* e[k] is what the line has of s before its last k bytes are read: each of them as
\* it is or after an escape, and the boundary.
Spells(s, e) ==
    /\ e \in [0..Len(s) -> Seq(Byte)] /\ e[0] = <<126>>
    /\ \A k \in 1..Len(s) :
          LET b == s[Len(s) + 1 - k]
          IN  e[k] = IF b \in Special THEN <<125>> \o (<<Inv5(b)>> \o e[k - 1]) ELSE <<b>> \o e[k - 1]

\* The whole frame
Opens(s, w) == \E e : Spells(s, e) /\ w = <<126>> \o e[Len(s)]

\* A byte x before others
Puts(x, t, w) ==
    /\ w \in Seq(Byte) /\ w # <<>> /\ Head(w) = x /\ Tail(w) = t /\ Len(w) = Len(t) + 1
    /\ t # <<>> => w[Len(w)] = t[Len(t)]
    /\ w[1] = x /\ \A k \in 1..Len(t) : w[1 + k] = t[k]

\* Inverting twice gives the byte, and no special byte is another inverted.
LEMMA InverseByte ==
    ASSUME NEW b \in Byte
    PROVE  /\ Inv5(b) \in Byte
           /\ b \in Special => Inv5(b) \notin Special /\ Inv5(Inv5(b)) = b
  <1>1. b \div 32 \in 0..7 /\ 32 * (b \div 32) <= b /\ b < 32 * (b \div 32) + 32
    BY DEF Byte
  <1>2. Inv5(b) \in Byte
    BY <1>1 DEF Inv5, Reader!Inverted, Byte
  <1>3. Inv5(125) = 93 /\ Inv5(93) = 125 /\ Inv5(126) = 94 /\ Inv5(94) = 126
    BY DEF Inv5, Reader!Inverted
  <1> QED BY <1>2, <1>3 DEF Special

\* It is so.
LEMMA PutBefore ==
    ASSUME NEW x \in Byte, NEW t \in Seq(Byte), NEW u, u = <<x>> \o t
    PROVE  Puts(x, t, u)
  <1>1. PICK S : S = Byte
    OBVIOUS
  <1>2. x \in S /\ t \in Seq(S) /\ Len(t) \in Nat
    BY <1>1
  <1>3. PICK y : y = <<x>>
    OBVIOUS
  <1>4. y \in Seq(S) /\ Len(y) = 1 /\ y[1] = x
    BY <1>2, <1>3
  <1>5. PICK w : w = y \o t
    OBVIOUS
  <1>6. /\ w \in Seq(S) /\ Len(w) = 1 + Len(t) /\ w[1] = x
        /\ \A k \in 1..Len(t) : w[1 + k] = t[k]
    <2>1. y \in Seq(S) /\ t \in Seq(S)
      BY <1>2, <1>4
    <2>2. w \in Seq(S) /\ Len(w) = Len(y) + Len(t)
      BY <1>5, <2>1
    <2>3. \A k \in 1..Len(y) : w[k] = y[k]
      BY <1>5, <2>1
    <2>4. \A k \in 1..Len(t) : w[Len(y) + k] = t[k]
      BY <1>5, <2>1
    <2> QED BY <1>4, <2>2, <2>3, <2>4
  <1>9. w # <<>> /\ Head(w) = x
    BY <1>2, <1>6
  <1>10. Tail(w) = t
    <2>1. PICK v : v = Tail(w)
      OBVIOUS
    <2>2. v \in Seq(S) /\ Len(v) = Len(t)
      BY <1>2, <1>6, <1>9, <2>1
    <2>3. \A k \in 1..Len(v) : v[k] = w[k + 1]
      BY <1>2, <1>6, <1>9, <2>1
    <2>4. \A k \in 1..Len(v) : v[k] = t[k]
      BY <1>2, <1>6, <2>2, <2>3
    <2>5. v = t
      BY <1>2, <2>2, <2>4
    <2> QED BY <2>1, <2>5
  <1>11. t # <<>> => w[Len(w)] = t[Len(t)]
    <2> SUFFICES ASSUME t # <<>> PROVE w[Len(w)] = t[Len(t)]
      OBVIOUS
    <2>1. Len(t) \in 1..Len(t)
      BY <1>2
    <2> QED BY <1>2, <1>6, <2>1
  <1>12. u = w
    BY <1>3, <1>5
  <1> QED BY <1>1, <1>6, <1>9, <1>10, <1>11, <1>12 DEF Puts

\* Two bytes before others
LEMMA PutTwo ==
    ASSUME NEW x \in Byte, NEW y \in Byte, NEW t \in Seq(Byte), NEW w, w = <<x, y>> \o t
    PROVE  w \in Seq(Byte) /\ w = <<x>> \o (<<y>> \o t)
  <1>1. PICK a : a = <<x, y>>
    OBVIOUS
  <1>2. a \in Seq(Byte) /\ t \in Seq(Byte)
    BY <1>1
  <1>3. Len(a) = 2 /\ a[1] = x /\ a[2] = y
    BY <1>1
  <1>4. w = a \o t
    BY <1>1
  <1>5. w \in Seq(Byte) /\ Len(w) = Len(a) + Len(t)
    BY <1>2, <1>4
  <1>6. \A k \in 1..Len(a) : w[k] = a[k]
    BY <1>2, <1>4
  <1>7. \A k \in 1..Len(t) : w[Len(a) + k] = t[k]
    BY <1>2, <1>4
  <1>8. PICK u : u = <<y>> \o t
    OBVIOUS
  <1>9. Puts(y, t, u)
    BY <1>8, PutBefore
  <1>10. PICK v : v = <<x>> \o u
    OBVIOUS
  <1>11. u \in Seq(Byte)
    BY <1>9 DEF Puts
  <1>12. Puts(x, u, v)
    BY <1>10, <1>11, PutBefore
  <1>13. Len(t) \in Nat /\ Len(w) = Len(t) + 2 /\ Len(v) = Len(t) + 2 /\ v \in Seq(Byte)
    BY <1>3, <1>5, <1>9, <1>12 DEF Puts
  <1>14. ASSUME NEW k \in 1..Len(w) PROVE w[k] = v[k]
    <2>1. CASE k = 1
      BY <1>3, <1>6, <1>12, <2>1 DEF Puts
    <2>2. CASE k = 2
      <3>1. w[2] = y
        BY <1>3, <1>6
      <3>2. v[1 + 1] = u[1] /\ u[1] = y
        <4>1. 1 \in 1..Len(u)
          BY <1>9, <1>13 DEF Puts
        <4> QED BY <1>9, <1>12, <4>1 DEF Puts
      <3> QED BY <2>2, <3>1, <3>2
    <2>3. CASE k > 2
      <3>1. PICK j : j = k - 2
        OBVIOUS
      <3>2. j \in 1..Len(t) /\ 1 + j \in 1..Len(u) /\ k = 2 + j /\ k = 1 + (1 + j)
        BY <1>9, <1>13, <2>3, <3>1 DEF Puts
      <3>3. w[k] = t[j]
        BY <1>3, <1>7, <3>2
      <3>4. v[k] = u[1 + j]
        BY <1>12, <3>2 DEF Puts
      <3>5. u[1 + j] = t[j]
        BY <1>9, <3>2 DEF Puts
      <3> QED BY <3>3, <3>4, <3>5
    <2> QED BY <1>13, <2>1, <2>2, <2>3
  <1>15. w = v
    <2>1. w \in Seq(Byte) /\ v \in Seq(Byte) /\ Len(w) = Len(v)
      BY <1>5, <1>13
    <2> QED BY <1>14, <2>1
  <1> QED BY <1>5, <1>8, <1>10, <1>15

\* What is left of a frame is not empty, ends with the boundary, and has at most
\* two bytes for each of the frame.
LEMMA Ending ==
    ASSUME NEW s \in Seq(Byte), NEW e, Spells(s, e)
    PROVE  \A k \in 0..Len(s) : /\ e[k] \in Seq(Byte) /\ e[k] # <<>> /\ e[k][Len(e[k])] = 126
                                /\ Len(e[k]) \in Nat /\ Len(e[k]) <= 2 * k + 1
  <1> DEFINE G == {k \in 0..Len(s) : /\ e[k] # <<>> /\ e[k][Len(e[k])] = 126
                                     /\ Len(e[k]) \in Nat /\ Len(e[k]) <= 2 * k + 1}
  <1>1. Len(s) \in Nat /\ \A k \in 0..Len(s) : e[k] \in Seq(Byte)
    BY DEF Spells
  <1>2. 0 \in G
    <2>1. e[0] = <<126>>
      BY DEF Spells
    <2>2. PICK t : t = <<126>>
      OBVIOUS
    <2>3. t # <<>> /\ Len(t) = 1 /\ t[Len(t)] = 126
      BY <2>2
    <2>4. 0 \in 0..Len(s)
      BY <1>1
    <2>5. e[0] # <<>> /\ e[0][Len(e[0])] = 126 /\ Len(e[0]) \in Nat /\ Len(e[0]) <= 2 * 0 + 1
      <3>1. e[0] = t
        BY <2>1, <2>2
      <3> QED BY <2>3, <3>1
    <2> QED BY <2>4, <2>5
  <1>3. ASSUME NEW k \in 1..Len(s), k - 1 \in G PROVE k \in G
    <2>1. PICK b : b = s[Len(s) + 1 - k]
      OBVIOUS
    <2>2. b \in Byte /\ k - 1 \in 0..Len(s) /\ k \in Nat
      BY <1>1, <2>1
    <2>3. PICK t : t = e[k - 1]
      OBVIOUS
    <2>4. t \in Seq(Byte) /\ t # <<>> /\ t[Len(t)] = 126 /\ Len(t) \in Nat /\ Len(t) <= 2 * (k - 1) + 1
      BY <1>1, <1>3, <2>2, <2>3
    <2>5. PICK v : v = <<Inv5(b)>> \o t
      OBVIOUS
    <2>6. Inv5(b) \in Byte
      BY <2>2, InverseByte
    <2>7. Puts(Inv5(b), t, v)
      BY <2>4, <2>5, <2>6, PutBefore
    <2>8. PICK w : w = <<125>> \o v
      OBVIOUS
    <2>9. Puts(125, v, w)
      <3>1. 125 \in Byte /\ v \in Seq(Byte)
        BY <2>7 DEF Byte, Puts
      <3> QED BY <2>8, <3>1, PutBefore
    <2>10. PICK x : x = <<b>> \o t
      OBVIOUS
    <2>11. Puts(b, t, x)
      BY <2>2, <2>4, <2>10, PutBefore
    <2>12. e[k] = w \/ e[k] = x
      BY <2>1, <2>3, <2>5, <2>8, <2>10 DEF Spells
    <2>13. \A y \in {w, x} : y # <<>> /\ y[Len(y)] = 126 /\ Len(y) \in Nat /\ Len(y) <= 2 * k + 1
      <3>1. w[Len(w)] = 126 /\ Len(w) \in Nat /\ Len(w) <= 2 * k + 1
        BY <2>2, <2>4, <2>7, <2>9 DEF Puts
      <3>2. x[Len(x)] = 126 /\ Len(x) \in Nat /\ Len(x) <= 2 * k + 1
        BY <2>2, <2>4, <2>11 DEF Puts
      <3>3. w # <<>> /\ x # <<>>
        BY <2>9, <2>11 DEF Puts
      <3> QED BY <3>1, <3>2, <3>3
    <2>14. e[k] # <<>> /\ e[k][Len(e[k])] = 126 /\ Len(e[k]) \in Nat /\ Len(e[k]) <= 2 * k + 1
      <3>1. PICK y \in {w, x} : e[k] = y
        BY <2>12
      <3> QED BY <2>13, <3>1
    <2>15. k \in 0..Len(s)
      BY <1>1
    <2> QED BY <2>14, <2>15
  <1>4. \A k \in 0..Len(s) : k \in G
    <2> HIDE DEF G
    <2> QED BY <1>1, <1>2, <1>3, CountUp
  <1> QED BY <1>1, <1>4

\* The next of them, b, or its escape, and what is left after it
Gives(e, k, b) ==
    /\ b \in Byte
    /\ b \in Special => Head(e[k]) = 125 /\ Tail(e[k]) = <<Inv5(b)>> \o e[k - 1]
    /\ b \notin Special => Head(e[k]) = b /\ Tail(e[k]) = e[k - 1]
    /\ Head(<<Inv5(b)>> \o e[k - 1]) = Inv5(b) /\ Tail(<<Inv5(b)>> \o e[k - 1]) = e[k - 1]

\* It is so.
LEMMA NextByte ==
    ASSUME NEW s \in Seq(Byte), NEW e, Spells(s, e), NEW k \in 1..Len(s),
           NEW b, b = s[Len(s) + 1 - k]
    PROVE  Gives(e, k, b)
  <1>1. Len(s) \in Nat /\ k - 1 \in 0..Len(s) /\ b \in Byte /\ Len(s) + 1 - k \in 1..Len(s)
    OBVIOUS
  <1>2. PICK t : t = e[k - 1]
    OBVIOUS
  <1>3. t \in Seq(Byte)
    BY <1>1, <1>2 DEF Spells
  <1>4. PICK v : v = <<Inv5(b)>> \o t
    OBVIOUS
  <1>5. Inv5(b) \in Byte
    BY <1>1, InverseByte
  <1>6. Puts(Inv5(b), t, v)
    BY <1>3, <1>4, <1>5, PutBefore
  <1>7. PICK w : w = <<125>> \o v
    OBVIOUS
  <1>8. Puts(125, v, w)
    <2>1. 125 \in Byte /\ v \in Seq(Byte)
      BY <1>6 DEF Byte, Puts
    <2> QED BY <1>7, <2>1, PutBefore
  <1>9. PICK x : x = <<b>> \o t
    OBVIOUS
  <1>10. Puts(b, t, x)
    BY <1>1, <1>3, <1>9, PutBefore
  <1>11. e[k] = IF b \in Special THEN w ELSE x
    BY <1>2, <1>4, <1>7, <1>9 DEF Spells
  <1> QED BY <1>1, <1>2, <1>4, <1>6, <1>8, <1>10, <1>11 DEF Puts, Gives

\* What is sent spells the frame, if what is not escaped is not special.
LEMMA EncodedOpens ==
    ASSUME NEW A, NEW X, NEW s \in Seq(Byte), NEW p, \A i \in 1..Len(s) : i <= p => s[i] \notin Special,
           NEW w, w = Reader(A, X)!Encoded(s, p)
    PROVE  Opens(s, w)
  <1> DEFINE m == Len(s)
             Code(i) == IF i <= p THEN <<s[i]>> ELSE Reader(A, X)!Escaped(s[i])
             Rec(h) == h = [k \in 0..m |-> IF k = 0 THEN <<126>> ELSE Code(m + 1 - k) \o h[k - 1]]
  <1>1. m \in Nat /\ \A i \in 1..m : s[i] \in Byte
    OBVIOUS
  <1>2. ASSUME NEW i \in 1..m, NEW t \in Seq(Byte)
        PROVE  /\ Code(i) \o t \in Seq(Byte)
               /\ Code(i) \o t = IF s[i] \in Special THEN <<125>> \o (<<Inv5(s[i])>> \o t) ELSE <<s[i]>> \o t
    <2>1. CASE s[i] \in Special
      <3>1. Code(i) = <<125, Inv5(s[i])>>
        BY <2>1 DEF Reader!Escaped, Reader!Boundary, Reader!Escape, Special, Inv5, Reader!Inverted
      <3>2. PICK x : x = Inv5(s[i])
        OBVIOUS
      <3>3. x \in Byte
        BY <1>1, <3>2, InverseByte
      <3>4. PICK y : y = <<125, x>> \o t
        OBVIOUS
      <3>5. y \in Seq(Byte) /\ y = <<125>> \o (<<x>> \o t)
        <4>1. 125 \in Byte
          BY DEF Byte
        <4> QED BY <3>3, <3>4, <4>1, PutTwo
      <3> HIDE DEF Code
      <3> QED BY <2>1, <3>1, <3>2, <3>4, <3>5
    <2>2. CASE s[i] \notin Special
      <3>1. Code(i) = <<s[i]>>
        BY <2>2 DEF Reader!Escaped, Reader!Boundary, Reader!Escape, Special
      <3>2. PICK y : y = <<s[i]>> \o t
        OBVIOUS
      <3>3. Puts(s[i], t, y)
        BY <1>1, <3>2, PutBefore
      <3> HIDE DEF Code
      <3> QED BY <2>2, <3>1, <3>2, <3>3 DEF Puts
    <2> QED BY <2>1, <2>2
  <1>3. PICK g : g = CHOOSE h : Rec(h)
    OBVIOUS
  <1>4. w = <<126>> \o g[m]
    BY <1>3 DEF Reader!Encoded, Reader!Boundary
  <1> HIDE DEF Code
  <1>5. \E h : Rec(h) /\ h \in [0..m -> Seq(Byte)]
    <2> DEFINE f == [k \in 1..m |-> [t \in Seq(Byte) |-> Code(m + 1 - k) \o t]]
               S == Seq(Byte)
               b == <<126>>
    <2>1. f \in [1..m -> [S -> S]]
      <3>1. \A k \in 1..m : m + 1 - k \in 1..m
        BY <1>1
      <3> HIDE DEF m
      <3>2. \A k \in 1..m, t \in S : Code(m + 1 - k) \o t \in S
        BY <1>2, <3>1
      <3> QED BY <3>2
    <2>2. b \in S
      <3>1. 126 \in Byte
        BY DEF Byte
      <3> QED BY <3>1
    <2> HIDE DEF f, S, b, m
    <2>3. PICK h : Steps(m, S, b, f, h)
      BY <1>1, <2>1, <2>2, StepsExist
    <2>4. ASSUME NEW k \in 0..m PROVE h[k] = IF k = 0 THEN <<126>> ELSE Code(m + 1 - k) \o h[k - 1]
      <3>1. CASE k = 0
        BY <2>3, <3>1 DEF Steps, b
      <3>2. CASE k # 0
        <4>1. k \in 1..m /\ k - 1 \in 0..m
          BY <1>1, <3>2
        <4>2. h[k] = f[k][h[k - 1]] /\ h[k - 1] \in S
          BY <2>3, <4>1 DEF Steps
        <4> QED BY <3>2, <4>1, <4>2 DEF f, S
      <3> QED BY <3>1, <3>2
    <2>5. h \in [0..m -> S]
      BY <2>3 DEF Steps
    <2>6. Rec(h)
      BY <2>4, <2>5
    <2> QED BY <2>5, <2>6 DEF S
  <1>6. Rec(g)
    <2> HIDE DEF Rec
    <2> QED BY <1>3, <1>5
  <1>7. g[0] = <<126>> /\ \A k \in 1..m : g[k] = Code(m + 1 - k) \o g[k - 1]
    <2>1. \A k \in 0..m : g[k] = IF k = 0 THEN <<126>> ELSE Code(m + 1 - k) \o g[k - 1]
      <3> HIDE DEF m
      <3> QED BY <1>6
    <2>2. 0 \in 0..m /\ \A k \in 1..m : k \in 0..m /\ k # 0
      BY <1>1
    <2> HIDE DEF m
    <2> QED BY <2>1, <2>2
  <1>8. \A k \in 0..m : g[k] \in Seq(Byte)
    <2> DEFINE G == {k \in 0..m : g[k] \in Seq(Byte)}
    <2>1. 0 \in G
      <3>1. <<126>> \in Seq(Byte)
        <4>1. 126 \in Byte
          BY DEF Byte
        <4> QED BY <4>1
      <3>2. 0 \in 0..m
        BY <1>1
      <3> HIDE DEF m
      <3> QED BY <1>7, <3>1, <3>2
    <2>2. ASSUME NEW k \in 1..m, k - 1 \in G PROVE k \in G
      <3>1. m + 1 - k \in 1..m /\ k \in 0..m
        BY <1>1
      <3>5. g[k - 1] \in Seq(Byte)
        BY <2>2
      <3>2. PICK t : t = g[k - 1]
        OBVIOUS
      <3>3. Code(m + 1 - k) \o t \in Seq(Byte)
        BY <1>2, <3>1, <3>2, <3>5
      <3> HIDE DEF m
      <3> QED BY <1>7, <3>1, <3>2, <3>3
    <2> HIDE DEF G
    <2>3. \A k \in 0..m : k \in G
      BY <1>1, <2>1, <2>2, CountUp
    <2> QED BY <2>3 DEF G
  <1>9. Spells(s, g)
    <2>1. g \in [0..m -> Seq(Byte)]
      <3> HIDE DEF m
      <3> QED BY <1>6, <1>8
    <2>2. ASSUME NEW k \in 1..m
          PROVE  g[k] = IF s[m + 1 - k] \in Special THEN <<125>> \o (<<Inv5(s[m + 1 - k])>> \o g[k - 1])
                        ELSE <<s[m + 1 - k]>> \o g[k - 1]
      <3>1. PICK i, t : i = m + 1 - k /\ t = g[k - 1]
        OBVIOUS
      <3>2. i \in 1..m /\ t \in Seq(Byte)
        BY <1>1, <1>8, <3>1
      <3>3. g[k] = Code(i) \o t
        BY <1>7, <3>1
      <3> HIDE DEF m
      <3> QED BY <1>2, <3>1, <3>2, <3>3
    <2> QED BY <1>7, <2>1, <2>2 DEF Spells
  <1> QED BY <1>4, <1>9 DEF Opens

-----------------------------------------------------------------------------
(* The bytes of a frame: the inductive invariant *)

\* The longest frame that is taken
Most(A, X) == IF A THEN X ELSE HeaderSize + X

IsFrame(A, X, s) == s \in Seq(Byte) /\ Len(s) \in Nat /\ HeaderSize <= Len(s) /\ Len(s) <= Most(A, X)

BytesTyped(A, X) ==
    /\ line \in Seq(Byte) /\ Len(line) \in Nat /\ Len(line) <= 2 * (HeaderSize + X) + 2
    /\ frame \in Seq(Byte) /\ Len(frame) \in Nat /\ Len(frame) <= Most(A, X)
    /\ escape \in BOOLEAN /\ overflow \in BOOLEAN /\ (overflow => A)
    /\ got \in Seq(Seq(Byte))
    /\ clean \in 0..2 /\ damaged \in {"none", "lose", "print"}

\* The reader is in step with what is sent: nothing was lost or printed since the
\* last frame but one, or only a byte was lost before the last frame.
InStep == clean = 2 \/ damaged = "lose"

\* It has the first m bytes of the frame.
Has(m) ==
    /\ ~overflow /\ Len(frame) = m
    /\ \A i \in 1..m : frame[i] = written[i]

\* The boundary that begins the frame is next,
AtStart(e) ==
    /\ line = <<126>> \o e[Len(written)] /\ got = <<>>
    /\ clean = 2 => frame = <<>> /\ ~overflow
    /\ InStep => ~escape

\* or the one of its bytes, or the boundary that ends it, with k bytes left,
AtByte(e, k) ==
    /\ line = e[k] /\ ~escape
    /\ InStep => Has(Len(written) - k)
    /\ clean = 2 => got = <<>>

\* or what follows an escape,
AfterEscape(e, k) ==
    /\ written[Len(written) + 1 - k] \in Special
    /\ line = <<Inv5(written[Len(written) + 1 - k])>> \o e[k - 1] /\ escape
    /\ InStep => Has(Len(written) - k)
    /\ clean = 2 => got = <<>>

\* or it has been read.
AtEnd ==
    /\ line = <<>> /\ frame = <<>> /\ ~escape /\ ~overflow
    /\ InStep => got # <<>> /\ got[Len(got)] = written
    /\ clean = 2 => got = <<written>>

\* Where the reader is in the frame, which nothing has damaged
InFrame(A, X) ==
    /\ IsFrame(A, X, written)
    /\ \E e : /\ Spells(written, e)
              /\ \/ AtStart(e)
                 \/ \E k \in 0..Len(written) : AtByte(e, k)
                 \/ \E k \in 1..Len(written) : AfterEscape(e, k)
                 \/ AtEnd

\* Before the first frame
Fresh ==
    /\ line = <<>> /\ frame = <<>> /\ ~escape /\ ~overflow
    /\ written = <<>> /\ got = <<>> /\ clean = 2

\* After a lost byte the rest of the frame still ends with a boundary, and after
\* that no escape is open.
Loses == damaged = "lose" => IF line = <<>> THEN ~escape ELSE line[Len(line)] = 126

BytesInv(A, X) ==
    /\ BytesTyped(A, X)
    /\ clean > 0 => Fresh \/ InFrame(A, X)
    /\ clean = 0 => Loses /\ damaged # "none"
    /\ clean = 1 => damaged # "none"

\* What may be assumed of a reader
IsReader(A, X) ==
    /\ A \in BOOLEAN /\ X \in Nat /\ HeaderSize \in Nat \ {0}
    /\ Octets \subseteq Byte /\ Headers \cap Special = {}
    /\ \A m \in Lengths : m \in Nat /\ HeaderSize <= m /\ m <= Most(A, X)

\* A frame that is not damaged ends with a boundary; if that is all there is left of
\* it, no escape is open.
LEMMA FrameEnds ==
    ASSUME NEW A, NEW X, HeaderSize \in Nat \ {0}, InFrame(A, X), line # <<>>
    PROVE  line[Len(line)] = 126 /\ (Len(line) = 1 => ~escape)
  <1>1. written \in Seq(Byte) /\ Len(written) \in Nat /\ Len(written) > 0
    BY DEF InFrame, IsFrame
  <1>2. PICK e : /\ Spells(written, e)
                 /\ \/ AtStart(e)
                    \/ \E k \in 0..Len(written) : AtByte(e, k)
                    \/ \E k \in 1..Len(written) : AfterEscape(e, k)
                    \/ AtEnd
    BY DEF InFrame
  <1>3. \A k \in 0..Len(written) : /\ e[k] \in Seq(Byte) /\ e[k] # <<>> /\ e[k][Len(e[k])] = 126
                                   /\ Len(e[k]) \in Nat
    BY <1>1, <1>2, Ending
  <1>4. ASSUME NEW x \in Byte, NEW k \in 0..Len(written), line = <<x>> \o e[k]
        PROVE  line[Len(line)] = 126 /\ Len(line) # 1
    <2>1. PICK t : t = e[k]
      OBVIOUS
    <2>2. t \in Seq(Byte) /\ t # <<>> /\ t[Len(t)] = 126 /\ Len(t) \in Nat
      BY <1>3, <2>1
    <2>3. Puts(x, t, line)
      BY <1>4, <2>1, <2>2, PutBefore
    <2>4. Len(t) # 0
      BY <2>2
    <2> QED BY <2>2, <2>3, <2>4 DEF Puts
  <1>5. CASE AtStart(e)
    <2>1. 126 \in Byte /\ Len(written) \in 0..Len(written)
      BY <1>1 DEF Byte
    <2> QED BY <1>4, <1>5, <2>1 DEF AtStart
  <1>6. CASE \E k \in 0..Len(written) : AtByte(e, k)
    BY <1>3, <1>6 DEF AtByte
  <1>7. ASSUME NEW k \in 1..Len(written), AfterEscape(e, k) PROVE line[Len(line)] = 126 /\ Len(line) # 1
    <2>1. k - 1 \in 0..Len(written) /\ Len(written) + 1 - k \in 1..Len(written)
      BY <1>1
    <2>2. Inv5(written[Len(written) + 1 - k]) \in Byte
      BY <1>1, <2>1, InverseByte
    <2> QED BY <1>4, <1>7, <2>1, <2>2 DEF AfterEscape
  <1>8. ~AtEnd
    BY DEF AtEnd
  <1> QED BY <1>2, <1>5, <1>6, <1>7, <1>8

\* When nothing is left on the line the frame has been read.
LEMMA NothingLeft ==
    ASSUME NEW A, NEW X, InFrame(A, X), line = <<>>
    PROVE  AtEnd
  <1>1. PICK e : /\ Spells(written, e)
                 /\ \/ AtStart(e)
                    \/ \E k \in 0..Len(written) : AtByte(e, k)
                    \/ \E k \in 1..Len(written) : AfterEscape(e, k)
                    \/ AtEnd
    BY DEF InFrame
  <1>2. written \in Seq(Byte) /\ Len(written) \in Nat
    BY DEF InFrame, IsFrame
  <1>3. \A k \in 0..Len(written) : e[k] \in Seq(Byte) /\ e[k] # <<>>
    BY <1>1, <1>2, Ending
  <1>4. ASSUME NEW x \in Byte, NEW k \in 0..Len(written) PROVE <<x>> \o e[k] # <<>>
    <2>1. PICK t, v : t = e[k] /\ v = <<x>> \o t
      OBVIOUS
    <2>2. Puts(x, t, v)
      BY <1>3, <2>1, PutBefore
    <2> QED BY <2>1, <2>2 DEF Puts
  <1>5. ~AtStart(e)
    <2>1. 126 \in Byte /\ Len(written) \in 0..Len(written)
      BY <1>2 DEF Byte
    <2> QED BY <1>4, <2>1 DEF AtStart
  <1>6. \A k \in 0..Len(written) : ~AtByte(e, k)
    BY <1>3 DEF AtByte
  <1>7. ASSUME NEW k \in 1..Len(written) PROVE ~AfterEscape(e, k)
    <2>1. k - 1 \in 0..Len(written) /\ Len(written) + 1 - k \in 1..Len(written)
      BY <1>2
    <2>2. Inv5(written[Len(written) + 1 - k]) \in Byte
      BY <1>2, <2>1, InverseByte
    <2> QED BY <1>4, <2>1, <2>2 DEF AfterEscape
  <1> QED BY <1>1, <1>5, <1>6, <1>7

\* A frame is sent when the line is empty.
LEMMA SendKeeps ==
    ASSUME NEW A, NEW X, IsReader(A, X), BytesInv(A, X), NEW s, NEW p \in Nat,
           s \in Reader(A, X)!Frames, \A i \in 1..Len(s) : i <= p => s[i] \notin Special,
           line = <<>>, line' = Reader(A, X)!Encoded(s, p), written' = s, got' = <<>>,
           clean' = IF clean = 0 THEN 1 ELSE 2, UNCHANGED <<frame, escape, overflow, damaged>>
    PROVE  BytesInv(A, X)'
  <1>1. PICK m \in Lengths : s \in [1..m -> Octets]
    BY DEF Reader!Frames
  <1>2. m \in Nat /\ HeaderSize <= m /\ m <= Most(A, X)
    BY <1>1 DEF IsReader
  <1>3. s \in Seq(Byte) /\ Len(s) = m
    BY <1>1, <1>2 DEF IsReader
  <1>4. IsFrame(A, X, s)
    BY <1>2, <1>3 DEF IsFrame
  <1>5. PICK w : w = Reader(A, X)!Encoded(s, p)
    OBVIOUS
  <1>6. Opens(s, w)
    BY <1>3, <1>5, EncodedOpens
  <1>7. PICK e : Spells(s, e) /\ w = <<126>> \o e[Len(s)]
    BY <1>6 DEF Opens
  <1>8. w \in Seq(Byte) /\ Len(w) \in Nat /\ Len(w) <= 2 * (HeaderSize + X) + 2 /\ w # <<>>
    <2>1. PICK t : t = e[Len(s)]
      OBVIOUS
    <2>2. t \in Seq(Byte) /\ Len(t) \in Nat /\ Len(t) <= 2 * Len(s) + 1
      <3>1. Len(s) \in 0..Len(s)
        BY <1>2, <1>3
      <3> QED BY <1>3, <1>7, <2>1, <3>1, Ending
    <2>3. Puts(126, t, w)
      <3>1. 126 \in Byte
        BY DEF Byte
      <3> QED BY <1>7, <2>1, <2>2, <3>1, PutBefore
    <2>4. Len(s) <= HeaderSize + X
      BY <1>2, <1>3 DEF IsReader, Most
    <2>5. HeaderSize \in Nat /\ X \in Nat /\ Len(s) \in Nat
      BY <1>2, <1>3 DEF IsReader
    <2>6. Len(w) = Len(t) + 1 /\ w \in Seq(Byte) /\ w # <<>>
      BY <2>3 DEF Puts
    <2> QED BY <2>2, <2>4, <2>5, <2>6
  <1>9. clean \in 0..2 /\ clean' \in 1..2 /\ clean' \in 0..2 /\ clean' > 0
    BY DEF BytesInv, BytesTyped
  <1>10. BytesTyped(A, X)'
    <2>1. got' \in Seq(Seq(Byte))
      OBVIOUS
    <2> QED BY <1>5, <1>8, <1>9, <2>1 DEF BytesInv, BytesTyped
  <1>11. clean > 0 => frame = <<>> /\ ~escape /\ ~overflow
    <2> SUFFICES ASSUME clean > 0, ~Fresh PROVE frame = <<>> /\ ~escape /\ ~overflow
      BY DEF Fresh
    <2>1. InFrame(A, X)
      BY DEF BytesInv
    <2> QED BY <2>1, NothingLeft DEF AtEnd
  <1>12. clean' = 2 => clean > 0
    BY <1>9
  <1>13. damaged = "lose" => ~escape
    BY <1>9, <1>11 DEF BytesInv, Loses
  <1>14. AtStart(e)'
    <2>1. line' = <<126>> \o e[Len(written')] /\ got' = <<>>
      BY <1>5, <1>7
    <2> QED BY <1>11, <1>12, <1>13, <2>1 DEF AtStart, InStep
  <1>15. InFrame(A, X)'
    BY <1>4, <1>7, <1>14 DEF InFrame, IsFrame
  <1>16. clean' = 1 => damaged' # "none"
    BY <1>9 DEF BytesInv
  <1> QED BY <1>9, <1>10, <1>15, <1>16 DEF BytesInv

\* The rest of the line
LEMMA RestEnds ==
    ASSUME NEW l \in Seq(Byte), l # <<>>, NEW t, t = Tail(l)
    PROVE  /\ t \in Seq(Byte) /\ Len(t) \in Nat /\ Len(t) = Len(l) - 1 /\ Head(l) \in Byte
           /\ t = <<>> => Len(l) = 1 /\ Head(l) = l[Len(l)]
           /\ t # <<>> => t[Len(t)] = l[Len(l)]
  <1>1. Len(l) \in Nat /\ Len(l) > 0 /\ Head(l) = l[1]
    OBVIOUS
  <1>2. t \in Seq(Byte) /\ Len(t) = Len(l) - 1 /\ \A k \in 1..Len(t) : t[k] = l[k + 1]
    BY <1>1
  <1>3. l[1] \in Byte
    BY <1>1
  <1>4. t = <<>> => Len(l) = 1
    <2>1. t = <<>> => Len(t) = 0
      OBVIOUS
    <2>2. Len(t) = Len(l) - 1 /\ Len(l) \in Nat
      BY <1>1, <1>2
    <2> QED BY <2>1, <2>2
  <1>5. t # <<>> => Len(t) \in 1..Len(t)
    <2>1. Len(t) \in Nat /\ t \in Seq(Byte)
      BY <1>1, <1>2
    <2> QED BY <2>1
  <1>6. t # <<>> => t[Len(t)] = l[Len(l)]
    BY <1>1, <1>2, <1>5
  <1> QED BY <1>1, <1>2, <1>3, <1>4, <1>6

\* A byte is read.
Reads(A, X) ==
    \/ Reader(A, X)!EscapedBoundaryRead \/ Reader(A, X)!GiveUp \/ Reader(A, X)!EndFrame
    \/ Reader(A, X)!ReadEscape \/ Reader(A, X)!ReadData

ReadsNext(A, X) ==
    /\ line # <<>> /\ line' = Tail(line) /\ UNCHANGED <<written, clean, damaged>>
    /\ \/ Head(line) = 126 /\ escape /\ ~escape' /\ UNCHANGED got
          /\ (A => UNCHANGED <<frame, overflow>>) /\ (~A => Reader(A, X)!Keep(126))
       \/ Head(line) = 126 /\ ~escape /\ ~escape' /\ frame' = <<>> /\ ~overflow' /\ overflow' \in BOOLEAN
          /\ (overflow => UNCHANGED got)
          /\ (~overflow => got' = IF Len(frame) >= HeaderSize THEN Append(got, frame) ELSE got)
       \/ Head(line) = 125 /\ ~escape /\ escape' = TRUE /\ UNCHANGED <<frame, overflow, got>>
       \/ /\ Head(line) # 126 /\ (Head(line) = 125 => escape) /\ ~escape' /\ UNCHANGED got
          /\ Reader(A, X)!Keep(IF escape THEN Inv5(Head(line)) ELSE Head(line))

LEMMA ReadIs ==
    ASSUME NEW A, NEW X, IsReader(A, X), BytesTyped(A, X), Reads(A, X)
    PROVE  ReadsNext(A, X) /\ escape' \in BOOLEAN
  <1>1. escape \in BOOLEAN /\ overflow \in BOOLEAN /\ A \in BOOLEAN
    BY DEF BytesTyped, IsReader
  <1>2. CASE Reader(A, X)!EscapedBoundaryRead
    BY <1>1, <1>2 DEF Reader!EscapedBoundaryRead, Reader!Read, Reader!Boundary, ReadsNext
  <1>3. CASE Reader(A, X)!GiveUp
    BY <1>1, <1>3 DEF Reader!GiveUp, Reader!Read, Reader!Boundary, ReadsNext
  <1>4. CASE Reader(A, X)!EndFrame
    BY <1>1, <1>4 DEF Reader!EndFrame, Reader!Read, Reader!Boundary, ReadsNext
  <1>5. CASE Reader(A, X)!ReadEscape
    BY <1>1, <1>5 DEF Reader!ReadEscape, Reader!Read, Reader!Escape, ReadsNext
  <1>6. CASE Reader(A, X)!ReadData
    <2>1. PICK b \in 0..255 \ {126} :
             /\ Reader(A, X)!Read(b) /\ (b = 125 => escape)
             /\ Reader(A, X)!Keep(IF escape THEN Reader(A, X)!Inverted(b) ELSE b)
      BY <1>6 DEF Reader!ReadData, Reader!Boundary, Reader!Escape
    <2>2. Reader(A, X)!Inverted(b) = Inv5(b)
      BY DEF Reader!Inverted, Inv5
    <2>3. escape' = FALSE /\ UNCHANGED got
      BY <1>6 DEF Reader!ReadData
    <2>4. Head(line) = b /\ line # <<>> /\ line' = Tail(line) /\ UNCHANGED <<written, clean, damaged>>
      BY <2>1 DEF Reader!Read
    <2>5. Reader(A, X)!Keep(IF escape THEN Inv5(Head(line)) ELSE Head(line))
      BY <2>1, <2>2, <2>4
    <2> QED BY <2>1, <2>3, <2>4, <2>5 DEF ReadsNext
  <1> QED BY <1>2, <1>3, <1>4, <1>5, <1>6 DEF Reads

\* Keeping a byte
LEMMA KeepIs ==
    ASSUME NEW A, NEW X, IsReader(A, X), BytesTyped(A, X), NEW b \in Byte, Reader(A, X)!Keep(b)
    PROVE  /\ frame' \in Seq(Byte) /\ Len(frame') \in Nat /\ Len(frame') <= Most(A, X)
           /\ overflow' \in BOOLEAN /\ (overflow' => A)
           /\ Len(frame) < Most(A, X) =>
                 /\ UNCHANGED overflow /\ Len(frame') = Len(frame) + 1
                 /\ \A i \in 1..Len(frame') : frame'[i] = IF i = Len(frame) + 1 THEN b ELSE frame[i]
  <1>1. /\ frame \in Seq(Byte) /\ Len(frame) \in Nat /\ Len(frame) <= Most(A, X) /\ overflow \in BOOLEAN
        /\ (overflow => A) /\ A \in BOOLEAN /\ Most(A, X) \in Nat
    BY DEF BytesTyped, IsReader, Most
  <1>2. Reader(A, X)!Limit = Most(A, X)
    BY DEF Reader!Limit, Most
  <1>3. CASE Len(frame) < Most(A, X)
    <2>1. frame' = Append(frame, b) /\ UNCHANGED overflow
      BY <1>2, <1>3 DEF Reader!Keep
    <2>2. PICK v : v = Append(frame, b)
      OBVIOUS
    <2>3. /\ v \in Seq(Byte) /\ Len(v) = Len(frame) + 1
          /\ \A i \in 1..Len(v) : v[i] = IF i = Len(frame) + 1 THEN b ELSE frame[i]
      BY <1>1, <2>2
    <2>4. frame' = v
      BY <2>1, <2>2
    <2> QED BY <1>1, <1>3, <2>1, <2>3, <2>4
  <1>4. CASE ~(Len(frame) < Most(A, X))
    <2>1. overflow' = A /\ UNCHANGED frame
      BY <1>2, <1>4 DEF Reader!Keep
    <2> QED BY <1>1, <1>4, <2>1
  <1> QED BY <1>3, <1>4

\* What is kept is of the right type and fits.
LEMMA ReadTyped ==
    ASSUME NEW A, NEW X, IsReader(A, X), BytesTyped(A, X), ReadsNext(A, X), escape' \in BOOLEAN
    PROVE  BytesTyped(A, X)'
  <1>1. /\ line \in Seq(Byte) /\ Len(line) \in Nat /\ Len(line) <= 2 * (HeaderSize + X) + 2
        /\ HeaderSize \in Nat /\ X \in Nat
    BY DEF BytesTyped, IsReader
  <1>2. line' = Tail(line) /\ line # <<>>
    BY DEF ReadsNext
  <1>3. line' \in Seq(Byte) /\ Len(line') \in Nat /\ Len(line') = Len(line) - 1 /\ Head(line) \in Byte
    BY <1>1, <1>2, RestEnds
  <1>4. Len(line') <= 2 * (HeaderSize + X) + 2
    BY <1>1, <1>3
  <1>5. /\ frame \in Seq(Byte) /\ Len(frame) \in Nat /\ Len(frame) <= Most(A, X)
        /\ overflow \in BOOLEAN /\ (overflow => A) /\ got \in Seq(Seq(Byte)) /\ Most(A, X) \in Nat
    BY DEF BytesTyped, IsReader, Most
  <1>6. /\ frame' \in Seq(Byte) /\ Len(frame') \in Nat /\ Len(frame') <= Most(A, X)
        /\ overflow' \in BOOLEAN /\ (overflow' => A)
    <2>1. ASSUME NEW b \in Byte, Reader(A, X)!Keep(b)
          PROVE  /\ frame' \in Seq(Byte) /\ Len(frame') \in Nat /\ Len(frame') <= Most(A, X)
                 /\ overflow' \in BOOLEAN /\ (overflow' => A)
      BY <2>1, KeepIs
    <2>2. 126 \in Byte /\ Inv5(Head(line)) \in Byte
      <3>1. Inv5(Head(line)) \in Byte
        BY <1>3, InverseByte
      <3> QED BY <3>1 DEF Byte
    <2>3. CASE frame' = <<>> /\ ~overflow' /\ overflow' \in BOOLEAN
      <3>1. PICK v : v = <<>>
        OBVIOUS
      <3>2. v \in Seq(Byte) /\ Len(v) = 0
        BY <3>1
      <3> QED BY <1>5, <2>3, <3>1, <3>2
    <2>4. CASE UNCHANGED <<frame, overflow>>
      BY <1>5, <2>4
    <2>5. CASE Reader(A, X)!Keep(126)
      BY <2>1, <2>2, <2>5
    <2>6. CASE Reader(A, X)!Keep(IF escape THEN Inv5(Head(line)) ELSE Head(line))
      BY <1>3, <2>1, <2>2, <2>6
    <2> QED BY <2>3, <2>4, <2>5, <2>6 DEF ReadsNext
  <1>7. got' \in Seq(Seq(Byte))
    <2>1. got' = got \/ got' = Append(got, frame)
      BY DEF ReadsNext
    <2>2. PICK S : S = Seq(Byte)
      OBVIOUS
    <2>3. got \in Seq(S) /\ frame \in S
      BY <1>5, <2>2
    <2>4. Append(got, frame) \in Seq(S)
      BY <2>3
    <2> QED BY <2>1, <2>2, <2>3, <2>4
  <1>8. clean' \in 0..2 /\ damaged' \in {"none", "lose", "print"}
    BY DEF ReadsNext, BytesTyped
  <1> QED BY <1>3, <1>4, <1>6, <1>7, <1>8 DEF BytesTyped

\* One more byte of the frame
LEMMA KeepHas ==
    ASSUME NEW A, NEW X, IsReader(A, X), BytesTyped(A, X), IsFrame(A, X, written), UNCHANGED written,
           NEW k \in 1..Len(written), Has(Len(written) - k),
           Reader(A, X)!Keep(written[Len(written) + 1 - k])
    PROVE  Has(Len(written) - (k - 1))'
  <1>1. Len(written) \in Nat /\ Len(written) <= Most(A, X) /\ Most(A, X) \in Nat /\ written \in Seq(Byte)
    BY DEF IsFrame, IsReader, Most
  <1>2. PICK m : m = Len(written) - k
    OBVIOUS
  <1>3. m \in Nat /\ m < Most(A, X) /\ Len(written) + 1 - k = m + 1 /\ Len(written) - (k - 1) = m + 1 /\ m + 1 \in 1..Len(written)
    BY <1>1, <1>2
  <1>4. ~overflow /\ Len(frame) = m /\ \A i \in 1..m : frame[i] = written[i]
    BY <1>2 DEF Has
  <1>5. /\ UNCHANGED overflow /\ Len(frame') = m + 1
        /\ \A i \in 1..Len(frame') : frame'[i] = IF i = m + 1 THEN written[m + 1] ELSE frame[i]
    <2>1. written[m + 1] \in Byte
      BY <1>1, <1>3
    <2> QED BY <1>3, <1>4, <2>1, KeepIs
  <1>6. ASSUME NEW i \in 1..(m + 1) PROVE frame'[i] = written[i]
    <2>1. i = m + 1 \/ i \in 1..m
      BY <1>3
    <2> QED BY <1>4, <1>5, <2>1
  <1>7. Has(m + 1)'
    BY <1>4, <1>5, <1>6 DEF Has
  <1> QED BY <1>3, <1>7

\* The boundary that begins a frame
LEMMA StartRead ==
    ASSUME NEW A, NEW X, IsReader(A, X), BytesTyped(A, X), ReadsNext(A, X), IsFrame(A, X, written),
           NEW e, Spells(written, e), AtStart(e)
    PROVE  AtByte(e, Len(written))'
  <1>1. written \in Seq(Byte) /\ Len(written) \in Nat /\ HeaderSize \in Nat \ {0}
    BY DEF IsFrame, IsReader
  <1>2. PICK t : t = e[Len(written)]
    OBVIOUS
  <1>3. t \in Seq(Byte)
    <2>1. Len(written) \in 0..Len(written)
      BY <1>1
    <2> QED BY <1>1, <1>2, <2>1, Ending
  <1>4. Head(line) = 126 /\ Tail(line) = t
    <2>1. 126 \in Byte /\ line = <<126>> \o t
      BY <1>2 DEF AtStart, Byte
    <2>2. Puts(126, t, line)
      BY <1>3, <2>1, PutBefore
    <2> QED BY <2>2 DEF Puts
  <1>5. UNCHANGED <<written, clean, damaged>> /\ line' = t
    BY <1>4 DEF ReadsNext
  <1>6. ~escape'
    BY <1>4 DEF ReadsNext
  <1>7. InStep => frame' = <<>> /\ ~overflow'
    BY <1>4 DEF ReadsNext, AtStart
  <1>8. InStep => Has(0)'
    <2> SUFFICES ASSUME InStep PROVE Has(0)'
      OBVIOUS
    <2>1. PICK v : v = <<>>
      OBVIOUS
    <2>2. Len(v) = 0
      BY <2>1
    <2>3. frame' = v /\ ~overflow'
      BY <1>7, <2>1
    <2> QED BY <2>2, <2>3 DEF Has
  <1>9. clean = 2 => got' = <<>>
    <2> SUFFICES ASSUME clean = 2 PROVE got' = <<>>
      OBVIOUS
    <2>1. frame = <<>> /\ ~overflow /\ ~escape /\ got = <<>>
      BY DEF AtStart, InStep
    <2>2. ~(Len(frame) >= HeaderSize)
      <3>1. PICK v : v = <<>>
        OBVIOUS
      <3>2. Len(v) = 0
        BY <3>1
      <3> QED BY <1>1, <2>1, <3>1, <3>2
    <2> QED BY <1>4, <2>1, <2>2 DEF ReadsNext
  <1>10. InStep' => InStep
    BY <1>5 DEF InStep
  <1>11. Len(written) - Len(written) = 0 /\ Len(written') = Len(written)
    BY <1>1, <1>5
  <1> QED BY <1>2, <1>5, <1>6, <1>8, <1>9, <1>10, <1>11 DEF AtByte

\* The boundary that ends it
LEMMA EndRead ==
    ASSUME NEW A, NEW X, IsReader(A, X), BytesTyped(A, X), ReadsNext(A, X), IsFrame(A, X, written),
           NEW e, Spells(written, e), AtByte(e, 0)
    PROVE  AtEnd'
  <1>1. /\ written \in Seq(Byte) /\ Len(written) \in Nat /\ HeaderSize \in Nat /\ HeaderSize <= Len(written)
        /\ frame \in Seq(Byte) /\ Len(frame) \in Nat /\ got \in Seq(Seq(Byte))
    BY DEF IsFrame, IsReader, BytesTyped
  <1>2. Head(line) = 126 /\ Tail(line) = <<>>
    <2>1. line = <<126>>
      BY DEF AtByte, Spells
    <2> QED BY <2>1
  <1>3. /\ UNCHANGED <<written, clean, damaged>> /\ line' = <<>> /\ ~escape
        /\ frame' = <<>> /\ ~overflow' /\ ~escape'
        /\ (~overflow => got' = IF Len(frame) >= HeaderSize THEN Append(got, frame) ELSE got)
    BY <1>2 DEF ReadsNext, AtByte
  <1>4. InStep => got' = Append(got, written)
    <2> SUFFICES ASSUME InStep PROVE got' = Append(got, written)
      OBVIOUS
    <2>1. Len(written) - 0 = Len(written)
      BY <1>1
    <2>2. ~overflow /\ Len(frame) = Len(written) /\ \A i \in 1..Len(written) : frame[i] = written[i]
      BY <2>1 DEF AtByte, Has
    <2>3. frame = written
      BY <1>1, <2>2
    <2>4. Len(frame) >= HeaderSize
      BY <1>1, <2>2
    <2> QED BY <1>3, <2>2, <2>3, <2>4
  <1>5. PICK S, v : S = Seq(Byte) /\ v = Append(got, written)
    OBVIOUS
  <1>6. v # <<>> /\ v[Len(v)] = written /\ (got = <<>> => v = <<written>>)
    <2>1. got \in Seq(S) /\ written \in S
      BY <1>1, <1>5
    <2>2. v # <<>> /\ v[Len(v)] = written
      BY <1>5, <2>1
    <2>3. got = <<>> => v = <<written>>
      BY <1>5
    <2> QED BY <2>2, <2>3
  <1>7. InStep' => InStep
    BY <1>3 DEF InStep
  <1>8. InStep' => got' # <<>> /\ got'[Len(got')] = written'
    BY <1>3, <1>4, <1>5, <1>6, <1>7
  <1>9. clean' = 2 => got' = <<written'>>
    BY <1>3, <1>4, <1>5, <1>6 DEF AtByte, InStep
  <1> QED BY <1>3, <1>8, <1>9 DEF AtEnd

\* A byte between them, or the escape before it
LEMMA ByteRead ==
    ASSUME NEW A, NEW X, IsReader(A, X), BytesTyped(A, X), ReadsNext(A, X), IsFrame(A, X, written),
           NEW e, Spells(written, e), NEW k \in 1..Len(written), AtByte(e, k)
    PROVE  AtByte(e, k - 1)' \/ AfterEscape(e, k)'
  <1>1. written \in Seq(Byte) /\ Len(written) \in Nat
    BY DEF IsFrame
  <1>2. PICK b : b = written[Len(written) + 1 - k]
    OBVIOUS
  <1>3. /\ b \in Byte
        /\ b \in Special => Head(e[k]) = 125 /\ Tail(e[k]) = <<Inv5(b)>> \o e[k - 1]
        /\ b \notin Special => Head(e[k]) = b /\ Tail(e[k]) = e[k - 1]
    <2>1. Gives(e, k, b)
      BY <1>1, <1>2, NextByte
    <2> QED BY <2>1 DEF Gives
  <1>4. line = e[k] /\ ~escape /\ (InStep => Has(Len(written) - k)) /\ (clean = 2 => got = <<>>)
    BY DEF AtByte
  <1>5. line' = Tail(e[k]) /\ UNCHANGED <<written, clean, damaged>>
    BY <1>4 DEF ReadsNext
  <1>6. InStep' => InStep
    BY <1>5 DEF InStep
  <1>7. CASE b \in Special
    <2>1. escape' = TRUE /\ UNCHANGED <<frame, overflow, got>>
      BY <1>3, <1>4, <1>7 DEF ReadsNext
    <2>2. InStep' => Has(Len(written) - k)'
      BY <1>4, <1>5, <1>6, <2>1 DEF Has
    <2> QED BY <1>2, <1>3, <1>4, <1>5, <1>7, <2>1, <2>2 DEF AfterEscape
  <1>8. CASE b \notin Special
    <2>1. ~escape' /\ UNCHANGED got /\ Reader(A, X)!Keep(b)
      BY <1>3, <1>4, <1>8 DEF ReadsNext, Special
    <2>2. InStep => Has(Len(written) - (k - 1))'
      BY <1>2, <1>4, <1>5, <2>1, KeepHas
    <2>3. Len(written') - (k - 1) = Len(written) - (k - 1)
      BY <1>5
    <2> QED BY <1>3, <1>4, <1>5, <1>6, <1>8, <2>1, <2>2, <2>3 DEF AtByte
  <1> QED BY <1>7, <1>8

\* A byte after an escape
LEMMA EscapedRead ==
    ASSUME NEW A, NEW X, IsReader(A, X), BytesTyped(A, X), ReadsNext(A, X), IsFrame(A, X, written),
           NEW e, Spells(written, e), NEW k \in 1..Len(written), AfterEscape(e, k)
    PROVE  AtByte(e, k - 1)'
  <1>1. written \in Seq(Byte) /\ Len(written) \in Nat
    BY DEF IsFrame
  <1>2. PICK b : b = written[Len(written) + 1 - k]
    OBVIOUS
  <1>3. /\ b \in Byte
        /\ Head(<<Inv5(b)>> \o e[k - 1]) = Inv5(b) /\ Tail(<<Inv5(b)>> \o e[k - 1]) = e[k - 1]
    <2>1. Gives(e, k, b)
      BY <1>1, <1>2, NextByte
    <2> QED BY <2>1 DEF Gives
  <1>4. /\ b \in Special /\ line = <<Inv5(b)>> \o e[k - 1] /\ escape
        /\ (InStep => Has(Len(written) - k)) /\ (clean = 2 => got = <<>>)
    BY <1>2 DEF AfterEscape
  <1>5. line' = e[k - 1] /\ UNCHANGED <<written, clean, damaged>> /\ Head(line) = Inv5(b)
    BY <1>3, <1>4 DEF ReadsNext
  <1>6. InStep' => InStep
    BY <1>5 DEF InStep
  <1>7. Inv5(b) # 125 /\ Inv5(b) # 126 /\ Inv5(Inv5(b)) = b
    BY <1>3, <1>4, InverseByte DEF Special
  <1>8. ~escape' /\ UNCHANGED got /\ Reader(A, X)!Keep(b)
    BY <1>4, <1>5, <1>7 DEF ReadsNext
  <1>9. InStep => Has(Len(written) - (k - 1))'
    BY <1>2, <1>4, <1>5, <1>8, KeepHas
  <1>10. Len(written') - (k - 1) = Len(written) - (k - 1)
    BY <1>5
  <1> QED BY <1>4, <1>5, <1>6, <1>8, <1>9, <1>10 DEF AtByte

\* Reading keeps the invariant.
LEMMA ReadKeeps ==
    ASSUME NEW A, NEW X, IsReader(A, X), BytesInv(A, X), Reads(A, X)
    PROVE  BytesInv(A, X)'
  <1>1. BytesTyped(A, X) /\ ReadsNext(A, X) /\ escape' \in BOOLEAN
    BY ReadIs DEF BytesInv
  <1>2. BytesTyped(A, X)'
    BY <1>1, ReadTyped
  <1>3. UNCHANGED <<written, clean, damaged>> /\ line # <<>> /\ line' = Tail(line)
    BY <1>1 DEF ReadsNext
  <1>4. ASSUME InFrame(A, X) PROVE InFrame(A, X)'
    <2>1. IsFrame(A, X, written)
      BY <1>4 DEF InFrame
    <2>2. PICK e : /\ Spells(written, e)
                   /\ \/ AtStart(e)
                      \/ \E k \in 0..Len(written) : AtByte(e, k)
                      \/ \E k \in 1..Len(written) : AfterEscape(e, k)
                      \/ AtEnd
      BY <1>4 DEF InFrame
    <2>3. Len(written) \in Nat /\ written' = written
      BY <1>3, <2>1 DEF IsFrame
    <2>4. IsFrame(A, X, written)' /\ Spells(written', e)
      BY <2>1, <2>2, <2>3 DEF IsFrame, Most
    <2>5. CASE AtStart(e)
      <3>1. AtByte(e, Len(written))'
        BY <1>1, <2>1, <2>2, <2>5, StartRead
      <3>2. Len(written) \in 0..Len(written')
        BY <2>3
      <3> QED BY <2>4, <3>1, <3>2 DEF InFrame
    <2>6. ASSUME NEW k \in 0..Len(written), AtByte(e, k) PROVE InFrame(A, X)'
      <3>1. CASE k = 0
        <4>1. AtEnd'
          BY <1>1, <2>1, <2>2, <2>6, <3>1, EndRead
        <4> QED BY <2>4, <4>1 DEF InFrame
      <3>2. CASE k # 0
        <4>1. k \in 1..Len(written) /\ k \in 1..Len(written') /\ k - 1 \in 0..Len(written')
          BY <2>3, <3>2
        <4>2. AtByte(e, k - 1)' \/ AfterEscape(e, k)'
          BY <1>1, <2>1, <2>2, <2>6, <4>1, ByteRead
        <4> QED BY <2>4, <4>1, <4>2 DEF InFrame
      <3> QED BY <3>1, <3>2
    <2>7. ASSUME NEW k \in 1..Len(written), AfterEscape(e, k) PROVE InFrame(A, X)'
      <3>1. AtByte(e, k - 1)'
        BY <1>1, <2>1, <2>2, <2>7, EscapedRead
      <3>2. k - 1 \in 0..Len(written')
        BY <2>3
      <3> QED BY <2>4, <3>1, <3>2 DEF InFrame
    <2>8. ~AtEnd
      BY <1>3 DEF AtEnd
    <2> QED BY <2>2, <2>5, <2>6, <2>7, <2>8
  <1>5. ~Fresh
    BY <1>3 DEF Fresh
  <1>6. ASSUME Loses PROVE Loses'
    <2> SUFFICES ASSUME damaged = "lose" PROVE IF line' = <<>> THEN ~escape' ELSE line'[Len(line')] = 126
      BY <1>3 DEF Loses
    <2>1. line[Len(line)] = 126 /\ line \in Seq(Byte)
      BY <1>1, <1>3, <1>6 DEF Loses, BytesTyped
    <2>2. /\ line' = <<>> => Head(line) = line[Len(line)]
          /\ line' # <<>> => line'[Len(line')] = line[Len(line)]
      BY <1>3, <2>1, RestEnds
    <2>3. Head(line) = 126 => ~escape'
      BY <1>1 DEF ReadsNext
    <2> QED BY <2>1, <2>2, <2>3
  <1> QED BY <1>2, <1>3, <1>4, <1>5, <1>6 DEF BytesInv

\* So do a byte that is lost
LEMMA LoseKeeps ==
    ASSUME NEW A, NEW X, IsReader(A, X), BytesInv(A, X), Reader(A, X)!LoseByte
    PROVE  BytesInv(A, X)'
  <1>1. /\ line # <<>> /\ clean > 0 /\ line' = Tail(line) /\ clean' = 0 /\ damaged' = "lose"
        /\ UNCHANGED <<frame, escape, overflow, written, got>>
    BY DEF Reader!LoseByte
  <1>2. InFrame(A, X)
    BY <1>1 DEF BytesInv, Fresh
  <1>3. line[Len(line)] = 126 /\ (Len(line) = 1 => ~escape)
    BY <1>1, <1>2, FrameEnds DEF IsReader
  <1>4. line \in Seq(Byte) /\ Len(line) \in Nat /\ Len(line) <= 2 * (HeaderSize + X) + 2
        /\ HeaderSize \in Nat /\ X \in Nat
    BY DEF BytesInv, BytesTyped, IsReader
  <1>5. /\ line' \in Seq(Byte) /\ Len(line') \in Nat /\ Len(line') = Len(line) - 1
        /\ line' = <<>> => Len(line) = 1
        /\ line' # <<>> => line'[Len(line')] = line[Len(line)]
    BY <1>1, <1>4, RestEnds
  <1>6. Loses'
    BY <1>1, <1>3, <1>5 DEF Loses
  <1>7. Len(line') <= 2 * (HeaderSize + X) + 2
    BY <1>4, <1>5
  <1>8. BytesTyped(A, X)'
    BY <1>1, <1>5, <1>7 DEF BytesInv, BytesTyped
  <1> QED BY <1>1, <1>6, <1>8 DEF BytesInv

\* and one that is printed.
LEMMA PrintKeeps ==
    ASSUME NEW A, NEW X, IsReader(A, X), BytesInv(A, X), NEW b \in Octets, Reader(A, X)!PrintByte(b)
    PROVE  BytesInv(A, X)'
  <1>1. /\ line' = <<b>> /\ clean' = 0 /\ damaged' = "print" /\ got' = <<>>
        /\ UNCHANGED <<frame, escape, overflow>>
    BY DEF Reader!PrintByte
  <1>2. PICK v : v = <<b>>
    OBVIOUS
  <1>3. v \in Seq(Byte) /\ Len(v) = 1
    BY <1>2 DEF IsReader
  <1>4. 1 <= 2 * (HeaderSize + X) + 2
    BY DEF IsReader
  <1>5. BytesTyped(A, X)'
    <2>1. got' \in Seq(Seq(Byte))
      BY <1>1
    <2> QED BY <1>1, <1>2, <1>3, <1>4, <2>1 DEF BytesInv, BytesTyped
  <1> QED BY <1>1, <1>5 DEF BytesInv, Loses

\* Every step does.
LEMMA BytesKeep ==
    ASSUME NEW A, NEW X, IsReader(A, X), BytesInv(A, X), Reader(A, X)!Next
    PROVE  BytesInv(A, X)'
  <1>1. ASSUME NEW s \in Reader(A, X)!Frames, Reader(A, X)!SendFrame(s) PROVE BytesInv(A, X)'
    <2>1. /\ line = <<>> /\ line' = Reader(A, X)!Encoded(s, 0) /\ written' = s /\ got' = <<>>
          /\ clean' = IF clean = 0 THEN 1 ELSE 2
          /\ UNCHANGED <<frame, escape, overflow, damaged>>
      BY <1>1 DEF Reader!SendFrame
    <2>2. \A i \in 1..Len(s) : i <= 0 => s[i] \notin Special
      <3>1. Len(s) \in Nat
        <4>1. PICK m \in Lengths : s \in [1..m -> Octets]
          BY <1>1 DEF Reader!Frames
        <4>2. m \in Nat
          BY <4>1 DEF IsReader
        <4> QED BY <4>1, <4>2
      <3> QED BY <3>1
    <2>3. 0 \in Nat
      OBVIOUS
    <2> QED BY <1>1, <2>1, <2>2, <2>3, SendKeeps
  <1>2. ASSUME NEW s \in Reader(A, X)!Frames, Reader(A, X)!PrintFrame(s) PROVE BytesInv(A, X)'
    <2>1. /\ line = <<>> /\ line' = Reader(A, X)!Encoded(s, HeaderSize) /\ written' = s /\ got' = <<>>
          /\ clean' = IF clean = 0 THEN 1 ELSE 2
          /\ UNCHANGED <<frame, escape, overflow, damaged>>
          /\ \A i \in 1..HeaderSize : s[i] \in Headers
      BY <1>2 DEF Reader!PrintFrame
    <2>2. HeaderSize \in Nat
      BY DEF IsReader
    <2>3. \A i \in 1..Len(s) : i <= HeaderSize => s[i] \notin Special
      <3>1. Len(s) \in Nat
        <4>1. PICK m \in Lengths : s \in [1..m -> Octets]
          BY <1>2 DEF Reader!Frames
        <4>2. m \in Nat
          BY <4>1 DEF IsReader
        <4> QED BY <4>1, <4>2
      <3>2. \A i \in 1..Len(s) : i <= HeaderSize => i \in 1..HeaderSize
        BY <2>2, <3>1
      <3> QED BY <2>1, <3>2 DEF IsReader
    <2> QED BY <1>2, <2>1, <2>2, <2>3, SendKeeps
  <1>3. CASE Reads(A, X)
    BY <1>3, ReadKeeps
  <1>4. CASE Reader(A, X)!LoseByte
    BY <1>4, LoseKeeps
  <1>5. ASSUME NEW b \in Octets, Reader(A, X)!PrintByte(b) PROVE BytesInv(A, X)'
    BY <1>5, PrintKeeps
  <1> QED BY <1>1, <1>2, <1>3, <1>4, <1>5 DEF Reader!Next, Reads

\* It holds at first,
LEMMA BytesStart ==
    ASSUME NEW A, NEW X, IsReader(A, X), Reader(A, X)!Init
    PROVE  BytesInv(A, X)
  <1>1. /\ line = <<>> /\ frame = <<>> /\ escape = FALSE /\ overflow = FALSE
        /\ written = <<>> /\ got = <<>> /\ clean = 2 /\ damaged = "none"
    BY DEF Reader!Init
  <1>2. PICK v : v = <<>>
    OBVIOUS
  <1>3. v \in Seq(Byte) /\ Len(v) = 0 /\ v \in Seq(Seq(Byte))
    BY <1>2
  <1>4. 0 <= 2 * (HeaderSize + X) + 2 /\ 0 <= Most(A, X)
    BY DEF IsReader, Most
  <1>5. BytesTyped(A, X)
    <2>1. line = v /\ frame = v /\ got = v
      BY <1>1, <1>2
    <2>2. Len(line) \in Nat /\ Len(line) <= 2 * (HeaderSize + X) + 2
      BY <1>3, <1>4, <2>1
    <2>3. Len(frame) \in Nat /\ Len(frame) <= Most(A, X)
      BY <1>3, <1>4, <2>1
    <2>4. line \in Seq(Byte) /\ frame \in Seq(Byte) /\ got \in Seq(Seq(Byte))
      BY <1>3, <2>1
    <2>5. clean \in 0..2 /\ damaged \in {"none", "lose", "print"}
      BY <1>1
    <2>6. escape \in BOOLEAN /\ overflow \in BOOLEAN
      BY <1>1
    <2>7. overflow => A
      BY <1>1, Zenon
    <2> QED BY <2>2, <2>3, <2>4, <2>5, <2>6, <2>7 DEF BytesTyped
  <1> QED BY <1>1, <1>5 DEF BytesInv, Fresh

\* and says what is wanted.
LEMMA BytesTell ==
    ASSUME NEW A, NEW X, IsReader(A, X), BytesInv(A, X)
    PROVE  Reader(A, X)!TypeOK /\ Reader(A, X)!Resynchronised /\ Reader(A, X)!LossIsLocal
  <1>1. Reader(A, X)!TypeOK
    <2>1. Reader(A, X)!Limit = Most(A, X)
      BY DEF Reader!Limit, Most
    <2>2. line \in Seq(0..255) /\ frame \in Seq(0..255)
      BY DEF BytesInv, BytesTyped, Byte
    <2> QED BY <2>1, <2>2 DEF BytesInv, BytesTyped, Reader!TypeOK
  <1>2. ASSUME line = <<>>, written # <<>>, clean > 0 PROVE AtEnd
    <2>1. InFrame(A, X)
      BY <1>2 DEF BytesInv, Fresh
    <2> QED BY <1>2, <2>1, NothingLeft
  <1>3. Reader(A, X)!Resynchronised
    BY <1>2 DEF Reader!Resynchronised, Reader!AllRead, AtEnd
  <1>4. Reader(A, X)!LossIsLocal
    BY <1>2 DEF Reader!LossIsLocal, Reader!AllRead, AtEnd, InStep
  <1> QED BY <1>1, <1>3, <1>4

\* What the assumptions say
LEMMA AnyReader ==
    ASSUME NEW A, NEW X, Reader(A, X)!SerialFrameAssumption, Reader(A, X)!Conforming
    PROVE  IsReader(A, X)
  <1>1. Reader(A, X)!Limit = Most(A, X)
    BY DEF Reader!Limit, Most
  <1>2. HeaderSize \in Nat \ {0} /\ X \in Nat /\ A \in BOOLEAN
    BY DEF Reader!SerialFrameAssumption
  <1>3. \A m \in Lengths : m \in Nat /\ HeaderSize <= m
    BY <1>2 DEF Reader!SerialFrameAssumption
  <1> QED BY <1>1, <1>2, <1>3 DEF Reader!SerialFrameAssumption, Reader!Conforming, Reader!Boundary, Reader!Escape,
                                 IsReader, Special, Byte

\* Nothing of it is lost while the line and the reader stand still.
LEMMA BytesStand ==
    ASSUME NEW A, NEW X, BytesInv(A, X), UNCHANGED bytes
    PROVE  BytesInv(A, X)'
  <1>1. UNCHANGED <<line, frame, escape, overflow, written, got, clean, damaged>>
    BY DEF bytes
  <1>2. BytesTyped(A, X)'
    BY <1>1 DEF BytesInv, BytesTyped, Most
  <1>3. Fresh => Fresh'
    BY <1>1 DEF Fresh
  <1>4. ASSUME InFrame(A, X) PROVE InFrame(A, X)'
    <2>1. PICK e : /\ Spells(written, e)
                   /\ \/ AtStart(e)
                      \/ \E k \in 0..Len(written) : AtByte(e, k)
                      \/ \E k \in 1..Len(written) : AfterEscape(e, k)
                      \/ AtEnd
      BY <1>4 DEF InFrame
    <2>2. (InStep' <=> InStep) /\ \A m : Has(m) => Has(m)'
      BY <1>1 DEF InStep, Has
    <2>3. AtStart(e) => AtStart(e)'
      BY <1>1, <2>2 DEF AtStart
    <2>4. \A k : AtByte(e, k) => AtByte(e, k)'
      BY <1>1, <2>2 DEF AtByte
    <2>5. \A k : AfterEscape(e, k) => AfterEscape(e, k)'
      BY <1>1, <2>2 DEF AfterEscape
    <2>6. AtEnd => AtEnd'
      BY <1>1, <2>2 DEF AtEnd
    <2>7. IsFrame(A, X, written)' /\ Spells(written', e)
      BY <1>1, <1>4, <2>1 DEF InFrame, IsFrame, Most
    <2> QED BY <1>1, <2>1, <2>3, <2>4, <2>5, <2>6, <2>7 DEF InFrame
  <1>5. Loses => Loses'
    BY <1>1 DEF Loses
  <1> QED BY <1>1, <1>2, <1>3, <1>4, <1>5 DEF BytesInv

\* Either reader, whatever frames are sent, of whatever lengths it takes, and
\* whatever is lost or printed: from the second frame after that on every frame is
\* handed over as it was sent, once and nothing else, and a lost byte costs no frame
\* but its own.  (byteReceived in sdn-serial.c and Serializer::processByte: what
\* clears the escape, the overflow and the frame so far.)
THEOREM ReaderRecovers ==
    ASSUME NEW CONSTANT A, NEW CONSTANT X, Reader(A, X)!SerialFrameAssumption, Reader(A, X)!Conforming
    PROVE  Reader(A, X)!Spec =>
              [](Reader(A, X)!TypeOK /\ Reader(A, X)!Resynchronised /\ Reader(A, X)!LossIsLocal)
  <1>1. IsReader(A, X)
    BY AnyReader
  <1>2. Reader(A, X)!Init => BytesInv(A, X)
    BY <1>1, BytesStart
  <1>3. BytesInv(A, X) /\ [Reader(A, X)!Next]_(Reader(A, X)!vars) => BytesInv(A, X)'
    <2> SUFFICES ASSUME BytesInv(A, X), [Reader(A, X)!Next]_(Reader(A, X)!vars)
                 PROVE  BytesInv(A, X)'
      OBVIOUS
    <2>1. CASE Reader(A, X)!Next
      BY <1>1, <2>1, BytesKeep
    <2>2. CASE UNCHANGED Reader(A, X)!vars
      BY <2>2, BytesStand DEF Reader!vars, bytes
    <2> QED BY <2>1, <2>2
  <1>4. BytesInv(A, X) =>
           Reader(A, X)!TypeOK /\ Reader(A, X)!Resynchronised /\ Reader(A, X)!LossIsLocal
    BY <1>1, BytesTell
  <1> QED BY <1>2, <1>3, <1>4, PTL DEF Reader!Spec

-----------------------------------------------------------------------------
(* The bytes of a frame: the two readers of the run *)

\* The invariant of the one that moves
ReadersIInv ==
    /\ part = "node" => BytesInv(TRUE, 2)
    /\ part = "pc" => BytesInv(FALSE, 1)

\* Both are readers.
LEMMA Readers == IsReader(TRUE, 2) /\ IsReader(FALSE, 1)
  BY ReaderAssumption, AnyReader

\* It holds at first
LEMMA ReadersStart == AllInit => ReadersIInv
  <1> SUFFICES ASSUME AllInit PROVE ReadersIInv
    OBVIOUS
  <1>1. Reader(TRUE, 2)!Init
    BY DEF AllInit
  <1>2. Reader(FALSE, 1)!Init
    BY <1>1 DEF Reader!Init
  <1> QED BY <1>1, <1>2, Readers, BytesStart DEF ReadersIInv

\* and after every step, of this part or another.
LEMMA ReadersKeep == ReadersIInv /\ [AllNext]_all => ReadersIInv'
  <1> SUFFICES ASSUME ReadersIInv, [AllNext]_all PROVE ReadersIInv'
    OBVIOUS
  <1>1. ASSUME UNCHANGED <<part, bytes>> PROVE ReadersIInv'
    <2>1. part' = part /\ UNCHANGED bytes
      BY <1>1
    <2>2. part = "node" => BytesInv(TRUE, 2)'
      BY <2>1, BytesStand DEF ReadersIInv
    <2>3. part = "pc" => BytesInv(FALSE, 1)'
      BY <2>1, BytesStand DEF ReadersIInv
    <2> QED BY <2>1, <2>2, <2>3 DEF ReadersIInv
  <1>2. CASE BytesMove("node") /\ Reader(TRUE, 2)!Next
    BY <1>2, Readers, BytesKeep DEF ReadersIInv, BytesMove
  <1>3. CASE BytesMove("pc") /\ Reader(FALSE, 1)!Next
    BY <1>3, Readers, BytesKeep DEF ReadersIInv, BytesMove
  <1> QED BY <1>1, <1>2, <1>3 DEF AllNext, LinkMoves, all

\* Whatever the line loses or carries between frames, at either reader it costs
\* no more than the frame it was in and the one after (as above).
THEOREM FramesStayWhole == AllSpec => []FramesRecover
  <1>1. ReadersIInv => FramesRecover
    BY Readers, BytesTell DEF ReadersIInv, FramesRecover
  <1> QED BY <1>1, ReadersStart, ReadersKeep, PTL DEF AllSpec

-----------------------------------------------------------------------------
(* The packets, whose constants are those of the link *)
USE LinkAssumption

-----------------------------------------------------------------------------
(* Counting what a sequence holds *)

\* How many elements of s are in S
N(s, S) == Cardinality({i \in DOMAIN s : s[i] \in S})

\* The places of a sequence are finitely many.
LEMMA CountIs ==
    ASSUME NEW X, NEW s \in Seq(X), NEW S
    PROVE  IsFiniteSet({i \in DOMAIN s : s[i] \in S}) /\ N(s, S) \in Nat
  <1>1. DOMAIN s = 1..Len(s) /\ Len(s) \in Nat
    OBVIOUS
  <1>2. IsFiniteSet(1..Len(s))
    <2>1. Len(s) \in Int /\ 1 \in Int
      BY <1>1
    <2> QED BY <2>1, FS_Interval
  <1>3. {i \in DOMAIN s : s[i] \in S} \in SUBSET (1..Len(s))
    BY <1>1
  <1> QED BY <1>2, <1>3, FS_Subset, FS_CardinalityType DEF N

\* The empty sequence holds nothing.
LEMMA CountEmpty == ASSUME NEW S PROVE N(<<>>, S) = 0
  <1>1. {i \in DOMAIN <<>> : <<>>[i] \in S} = {}
    OBVIOUS
  <1> QED BY <1>1, FS_EmptySet DEF N

\* One more element is counted if it is in the set.
LEMMA CountAppend ==
    ASSUME NEW X, NEW s \in Seq(X), NEW x \in X, NEW S
    PROVE  N(Append(s, x), S) = IF x \in S THEN N(s, S) + 1 ELSE N(s, S)
  <1> DEFINE H == {i \in DOMAIN s : s[i] \in S}
             K == {i \in DOMAIN Append(s, x) : Append(s, x)[i] \in S}
  <1>1. IsFiniteSet(H)
    BY CountIs
  <1>2. K = IF x \in S THEN H \union {Len(s) + 1} ELSE H
    OBVIOUS
  <1>3. Len(s) + 1 \notin H
    OBVIOUS
  <1> HIDE DEF H, K
  <1>4. Cardinality(K) = IF x \in S THEN Cardinality(H) + 1 ELSE Cardinality(H)
    BY <1>1, <1>2, <1>3, FS_AddElement
  <1> QED BY <1>4 DEF N, H, K

\* One element less, the first.
LEMMA CountTail ==
    ASSUME NEW X, NEW s \in Seq(X), s # <<>>, NEW S
    PROVE  N(s, S) = IF Head(s) \in S THEN N(Tail(s), S) + 1 ELSE N(Tail(s), S)
  <1> DEFINE H == {i \in DOMAIN s : s[i] \in S}
             K == {i \in DOMAIN Tail(s) : Tail(s)[i] \in S}
             J == H \ {1}
             f == [i \in K |-> i + 1]
  <1>1. /\ DOMAIN s = 1..Len(s) /\ Len(s) \in Nat \ {0} /\ Head(s) = s[1]
        /\ Tail(s) \in Seq(X) /\ DOMAIN Tail(s) = 1..(Len(s) - 1)
        /\ \A i \in 1..(Len(s) - 1) : Tail(s)[i] = s[i + 1]
    OBVIOUS
  <1>2. IsFiniteSet(H) /\ IsFiniteSet(K)
    <2>1. IsFiniteSet({i \in DOMAIN s : s[i] \in S})
      BY CountIs
    <2>2. IsFiniteSet({i \in DOMAIN Tail(s) : Tail(s)[i] \in S})
      <3>1. Tail(s) \in Seq(X)
        BY <1>1
      <3> HIDE <1>1
      <3> QED BY <3>1, CountIs
    <2> QED BY <2>1, <2>2
  <1>3. f \in Bijection(K, J)
    <2>1. f \in [K -> J]
      BY <1>1
    <2>2. \A i, j \in K : f[i] = f[j] => i = j
      BY <1>1
    <2>3. ASSUME NEW j \in J PROVE \E i \in K : f[i] = j
      <3>1. j - 1 \in K /\ f[j - 1] = j
        BY <1>1
      <3> QED BY <3>1
    <2> HIDE DEF f, K, J
    <2> QED BY <2>1, <2>2, <2>3 DEF Bijection, Injection, Surjection, IsInjective
  <1> HIDE DEF f
  <1>4. Cardinality(J) = Cardinality(K)
    <2> HIDE DEF K, J
    <2> QED BY <1>2, <1>3, FS_Bijection DEF ExistsBijection
  <1>5. 1 \in H <=> Head(s) \in S
    BY <1>1
  <1>6. Cardinality(J) = IF 1 \in H THEN Cardinality(H) - 1 ELSE Cardinality(H)
    <2> HIDE DEF H
    <2> QED BY <1>2, FS_RemoveElement
  <1>7. Cardinality(H) \in Nat
    BY <1>2, FS_CardinalityType
  <1>8. N(s, S) = Cardinality(H) /\ N(Tail(s), S) = Cardinality(K)
    BY DEF N
  <1> HIDE DEF H, K, J
  <1> QED BY <1>4, <1>5, <1>6, <1>7, <1>8

\* An element is counted, and two are counted twice.
LEMMA CountAtLeast ==
    ASSUME NEW X, NEW s \in Seq(X), NEW S, NEW i \in DOMAIN s, s[i] \in S
    PROVE  /\ N(s, S) >= 1
           /\ \A j \in DOMAIN s : i # j /\ s[j] \in S => N(s, S) >= 2
  <1> DEFINE H == {h \in DOMAIN s : s[h] \in S}
  <1>1. IsFiniteSet(H) /\ i \in H
    BY CountIs
  <1>2. Cardinality(H \ {i}) = Cardinality(H) - 1 /\ IsFiniteSet(H \ {i})
    <2> HIDE DEF H
    <2> QED BY <1>1, FS_RemoveElement
  <1>3. Cardinality(H) \in Nat /\ Cardinality(H \ {i}) \in Nat
    BY <1>1, <1>2, FS_CardinalityType
  <1>4. ASSUME NEW j \in DOMAIN s, i # j, s[j] \in S PROVE Cardinality(H \ {i}) # 0
    <2>1. j \in H \ {i}
      BY <1>4
    <2> HIDE DEF H
    <2> QED BY <1>2, <2>1, FS_EmptySet
  <1>5. N(s, S) = Cardinality(H)
    BY DEF N
  <1>6. N(s, S) >= 1 /\ (Cardinality(H \ {i}) # 0 => N(s, S) >= 2)
    <2> HIDE DEF H
    <2> QED BY <1>2, <1>3, <1>5
  <1> QED BY <1>4, <1>6

\* A set of places has a first one.
LEMMA LeastIn == ASSUME NEW S \in SUBSET Nat, S # {} PROVE Min(S) \in S
  <1> DEFINE R == {ss \in Nat \X Nat : ss[1] < ss[2]}
  <1>1. IsWellFoundedOn(R, Nat)
    BY NatLessThanWellFounded DEF OpToRel
  <1> HIDE DEF R
  <1>2. PICK i \in S : \A j \in S : ~(<<j, i>> \in R)
    BY <1>1, WFMin, Zenon
  <1>3. \A j \in S : j < i => <<j, i>> \in R
    BY DEF R
  <1>4. \A j \in S : ~(j < i)
    BY <1>2, <1>3, Zenon
  <1>5. \A j \in S : i <= j
    BY <1>4
  <1> QED BY <1>5 DEF Min

-----------------------------------------------------------------------------
(* Small sums *)

\* The count of retransmissions starts below its limit.
LEMMA NothingRetried == MaxRetransmit \in Nat /\ 0 \in 0..(MaxRetransmit - 1)
  <1>1. MaxRetransmit \in Nat \ {0}
    BY LinkAssumption
  <1> QED BY <1>1

\* A sum of counts is a count.
LEMMA SumOfFour ==
    ASSUME NEW a \in Nat, NEW b \in Nat, NEW c \in Nat, NEW d \in Nat
    PROVE  a + b + c + d \in Nat
  OBVIOUS

\* With one count no larger, the sum is no larger.
LEMMA SumsCompared ==
    ASSUME NEW a \in Nat, NEW b \in Nat, NEW c \in Nat, NEW d \in Nat, NEW e \in Nat, c <= e
    PROVE  a + b + c + d <= a + b + e + d /\ a + b + c + d \in Nat
  OBVIOUS

\* If the sum is nothing, so is each count.
LEMMA NoneOfFour ==
    ASSUME NEW a \in Nat, NEW b \in Nat, NEW c \in Nat, NEW d \in Nat, a + b + c + d = 0
    PROVE  a = 0 /\ b = 0 /\ c = 0 /\ d = 0
  OBVIOUS

\* One of four counts with a small sum, and the last is nothing
LEMMA OneOfFour ==
    ASSUME NEW a \in Nat, NEW b \in Nat, NEW c \in Nat, NEW d \in Nat, a + b + c + d <= 1, c >= 1
    PROVE  a + b + c + d = 1 /\ d = 0
  OBVIOUS

\* If the last count is something, the others are nothing.
LEMMA LastOfFour ==
    ASSUME NEW a \in Nat, NEW b \in Nat, NEW c \in Nat, NEW d \in Nat, a + b + c + d <= 1, d >= 1
    PROVE  a + b + c + d = 1 /\ a = 0 /\ b = 0 /\ c = 0 /\ d = 1
  OBVIOUS

\* One less of two
LEMMA OneLess == ASSUME NEW a \in Nat, NEW b \in Nat, a + 1 = b, b <= 2 PROVE a <= 1
  OBVIOUS

-----------------------------------------------------------------------------
(* The order of packets *)

\* In the order o each packet has one place, and it is none of the fresh ones;
\* what was sent (s) and what is queued (q) rise in it, and nothing queued stands
\* before anything sent, nor at the same place if the head was not sent yet.
Rises(o, s) ==
    \A i, j \in DOMAIN s : \A k, l \in DOMAIN o :
        i < j /\ o[k] = s[i] /\ o[l] = s[j] => k < l

Within(o, s) == \A i \in DOMAIN s : \E k \in DOMAIN o : o[k] = s[i]

Ordered(o, f, s, q, unsent) ==
    /\ \A k, l \in DOMAIN o : o[k] = o[l] => k = l
    /\ \A k \in DOMAIN o : o[k] \notin f
    /\ Within(o, s) /\ Within(o, q) /\ Rises(o, s) /\ Rises(o, q)
    /\ \A i \in DOMAIN s, j \in DOMAIN q : \A k, l \in DOMAIN o :
          o[k] = s[i] /\ o[l] = q[j] => k <= l /\ (unsent => k < l)

\* Without the first packets of the queue, the others have not been sent.
LEMMA OrderedSuffix ==
    ASSUME NEW o \in Seq(Packets), NEW f, NEW s \in Seq(Packets), NEW q \in Seq(Packets), NEW b \in BOOLEAN,
           Ordered(o, f, s, q, b), NEW r \in Seq(Packets), NEW d \in Nat, Len(r) + d <= Len(q),
           \A i \in DOMAIN r : r[i] = q[i + d]
    PROVE  Ordered(o, f, s, r, b \/ d > 0)
  <1>0. /\ DOMAIN o = 1..Len(o) /\ DOMAIN q = 1..Len(q) /\ DOMAIN r = 1..Len(r)
        /\ Len(o) \in Nat /\ Len(q) \in Nat /\ Len(r) \in Nat
    OBVIOUS
  <1>1. \A i \in DOMAIN r : i \in Nat /\ i >= 1 /\ i + d \in DOMAIN q
    BY <1>0
  <1>2. Within(o, r)
    BY <1>1 DEF Ordered, Within
  <1>3. Rises(o, r)
    <2> SUFFICES ASSUME NEW i \in DOMAIN r, NEW j \in DOMAIN r, NEW k \in DOMAIN o, NEW l \in DOMAIN o,
                        i < j, o[k] = r[i], o[l] = r[j]
                 PROVE  k < l
      BY DEF Rises
    <2>1. /\ i + d \in DOMAIN q /\ j + d \in DOMAIN q /\ i + d < j + d
          /\ r[i] = q[i + d] /\ r[j] = q[j + d]
      BY <1>0, <1>1, SMTT(30)
    <2> QED BY <2>1 DEF Ordered, Rises
  <1>4. ASSUME NEW i \in DOMAIN s, NEW j \in DOMAIN r, NEW k \in DOMAIN o, NEW l \in DOMAIN o,
               o[k] = s[i], o[l] = r[j]
        PROVE  k <= l /\ (b \/ d > 0 => k < l)
    <2>1. j + d \in DOMAIN q /\ o[l] = q[j + d]
      BY <1>1, <1>4
    <2>2. k <= l /\ (b => k < l)
      BY <1>4, <2>1 DEF Ordered
    <2>3. ASSUME d > 0 PROVE k < l
      <3>1. 1 \in DOMAIN q /\ 1 < j + d
        <4>1. j \in Nat /\ j >= 1
          BY <1>1
        <4>2. j + d \in 1..Len(q)
          BY <1>0, <2>1
        <4>3. 1 < j + d
          BY <2>3, <4>1, SMTT(30)
        <4>4. 1 \in DOMAIN q
          BY <1>0, <4>2
        <4> QED BY <4>3, <4>4
      <3>2. PICK m \in DOMAIN o : o[m] = q[1]
        BY <3>1 DEF Ordered, Within
      <3>3. k <= m
        BY <1>4, <3>1, <3>2 DEF Ordered
      <3>4. m < l
        BY <2>1, <3>1, <3>2, SMTT(30) DEF Ordered, Rises
      <3>5. k \in Nat /\ m \in Nat /\ l \in Nat
        BY <1>0, SMTT(30)
      <3> QED BY <3>3, <3>4, <3>5
    <2> QED BY <2>2, <2>3
  <1> QED BY <1>2, <1>3, <1>4 DEF Ordered

\* A fresh packet joins the order and the queue at the end.
LEMMA OrderedEnqueue ==
    ASSUME NEW o \in Seq(Packets), NEW f \in SUBSET Packets, NEW s \in Seq(Packets), NEW q \in Seq(Packets),
           NEW b \in BOOLEAN, Ordered(o, f, s, q, b), NEW p \in f
    PROVE  Ordered(Append(o, p), f \ {p}, s, Append(q, p), b)
  <1> DEFINE oo == Append(o, p)
             qq == Append(q, p)
  <1>1. /\ DOMAIN oo = 1..(Len(o) + 1) /\ oo[Len(o) + 1] = p /\ Len(o) \in Nat
        /\ \A k \in DOMAIN o : oo[k] = o[k] /\ k \in DOMAIN oo /\ k < Len(o) + 1
        /\ \A k \in DOMAIN oo : k \in DOMAIN o \/ k = Len(o) + 1
    OBVIOUS
  <1>2. /\ DOMAIN qq = 1..(Len(q) + 1) /\ qq[Len(q) + 1] = p
        /\ \A k \in DOMAIN q : qq[k] = q[k]
        /\ \A k \in DOMAIN qq : k \in DOMAIN q \/ k = Len(q) + 1
    OBVIOUS
  <1>3. /\ \A k \in DOMAIN o : o[k] # p
        /\ \A i \in DOMAIN s : s[i] # p
        /\ \A i \in DOMAIN q : q[i] # p
    BY DEF Ordered, Within
  <1> HIDE DEF oo, qq
  <1>4. \A k, l \in DOMAIN oo : oo[k] = oo[l] => k = l
    BY <1>1, <1>3 DEF Ordered
  <1>5. \A k \in DOMAIN oo : oo[k] \notin f \ {p}
    BY <1>1 DEF Ordered
  <1>6. Within(oo, s) /\ Within(oo, qq)
    <2>1. Within(oo, s)
      BY <1>1 DEF Ordered, Within
    <2>2. ASSUME NEW i \in DOMAIN qq PROVE \E k \in DOMAIN oo : oo[k] = qq[i]
      <3>1. CASE i \in DOMAIN q
        BY <1>1, <1>2, <3>1 DEF Ordered, Within
      <3>2. CASE i = Len(q) + 1
        <4>1. Len(o) + 1 \in DOMAIN oo /\ oo[Len(o) + 1] = qq[i]
          BY <1>1, <1>2, <3>2
        <4> QED BY <4>1
      <3> QED BY <1>2, <3>1, <3>2
    <2> QED BY <2>1, <2>2 DEF Within
  <1>7. \A k \in DOMAIN oo : oo[k] # p => k \in DOMAIN o /\ o[k] = oo[k]
    BY <1>1
  <1>8. Rises(oo, s)
    BY <1>3, <1>7 DEF Ordered, Rises
  <1>9. Rises(oo, qq)
    <2> SUFFICES ASSUME NEW i \in DOMAIN qq, NEW j \in DOMAIN qq, NEW k \in DOMAIN oo, NEW l \in DOMAIN oo,
                        i < j, oo[k] = qq[i], oo[l] = qq[j]
                 PROVE  k < l
      BY DEF Rises
    <2>1. i \in DOMAIN q
      BY <1>2
    <2>2. k \in DOMAIN o /\ o[k] = q[i]
      BY <1>2, <1>3, <1>7, <2>1
    <2>3. CASE j \in DOMAIN q
      BY <1>2, <1>3, <1>7, <2>1, <2>2, <2>3, SMTT(30) DEF Ordered, Rises
    <2>4. CASE j = Len(q) + 1
      BY <1>1, <1>2, <1>3, <2>2, <2>4
    <2> QED BY <1>2, <2>3, <2>4
  <1>10. ASSUME NEW i \in DOMAIN s, NEW j \in DOMAIN qq, NEW k \in DOMAIN oo, NEW l \in DOMAIN oo,
                oo[k] = s[i], oo[l] = qq[j]
         PROVE  k <= l /\ (b => k < l)
    <2>1. k \in DOMAIN o /\ o[k] = s[i]
      BY <1>3, <1>7, <1>10
    <2>2. CASE j \in DOMAIN q
      BY <1>2, <1>3, <1>7, <1>10, <2>1, <2>2 DEF Ordered
    <2>3. CASE j = Len(q) + 1
      <3>1. l = Len(o) + 1
        BY <1>1, <1>2, <1>3, <1>10, <2>3
      <3> QED BY <1>1, <2>1, <3>1
    <2> QED BY <1>2, <2>2, <2>3
  <1>11. Ordered(oo, f \ {p}, s, qq, b)
    BY <1>4, <1>5, <1>6, <1>8, <1>9, <1>10 DEF Ordered
  <1> QED BY <1>11 DEF oo, qq

\* The head of the queue is sent.
LEMMA OrderedSend ==
    ASSUME NEW o \in Seq(Packets), NEW f, NEW s \in Seq(Packets), NEW q \in Seq(Packets), q # <<>>,
           Ordered(o, f, s, q, TRUE)
    PROVE  Ordered(o, f, Append(s, Head(q)), q, FALSE)
  <1> DEFINE p == Head(q)
             ss == Append(s, p)
  <1>1. /\ DOMAIN ss = 1..(Len(s) + 1) /\ ss[Len(s) + 1] = p
        /\ \A i \in DOMAIN s : ss[i] = s[i]
        /\ \A i \in DOMAIN ss : i \in DOMAIN s \/ i = Len(s) + 1
    OBVIOUS
  <1>2. 1 \in DOMAIN q /\ q[1] = p /\ \A j \in DOMAIN q : j = 1 \/ 1 < j
    OBVIOUS
  <1> HIDE DEF p, ss
  <1>3. Within(o, ss)
    <2> SUFFICES ASSUME NEW i \in DOMAIN ss PROVE \E k \in DOMAIN o : o[k] = ss[i]
      BY DEF Within
    <2>1. CASE i \in DOMAIN s
      <3>1. \E k \in DOMAIN o : o[k] = s[i]
        BY <2>1 DEF Ordered, Within
      <3> QED BY <1>1, <2>1, <3>1
    <2>2. CASE i = Len(s) + 1
      <3>1. \E k \in DOMAIN o : o[k] = q[1]
        BY <1>2 DEF Ordered, Within
      <3> QED BY <1>1, <1>2, <2>2, <3>1
    <2> QED BY <1>1, <2>1, <2>2
  <1>4. Rises(o, ss)
    <2> SUFFICES ASSUME NEW i \in DOMAIN ss, NEW j \in DOMAIN ss, NEW k \in DOMAIN o, NEW l \in DOMAIN o,
                        i < j, o[k] = ss[i], o[l] = ss[j]
                 PROVE  k < l
      BY DEF Rises
    <2>1. i \in DOMAIN s
      BY <1>1
    <2>2. CASE j \in DOMAIN s
      BY <1>1, <2>1, <2>2 DEF Ordered, Rises
    <2>3. CASE j = Len(s) + 1
      BY <1>1, <1>2, <2>1, <2>3 DEF Ordered
    <2> QED BY <1>1, <2>2, <2>3
  <1>5. ASSUME NEW i \in DOMAIN ss, NEW j \in DOMAIN q, NEW k \in DOMAIN o, NEW l \in DOMAIN o,
               o[k] = ss[i], o[l] = q[j]
        PROVE  k <= l
    <2>1. CASE i \in DOMAIN s
      BY <1>1, <1>5, <2>1 DEF Ordered
    <2>2. CASE i = Len(s) + 1 /\ j = 1
      <3>1. k = l
        BY <1>1, <1>2, <1>5, <2>2 DEF Ordered
      <3> QED BY <3>1
    <2>3. CASE i = Len(s) + 1 /\ 1 < j
      <3>1. k < l
        BY <1>1, <1>2, <1>5, <2>3 DEF Ordered, Rises
      <3> QED BY <3>1
    <2> QED BY <1>1, <1>2, <2>1, <2>2, <2>3
  <1>6. Ordered(o, f, ss, q, FALSE)
    BY <1>3, <1>4, <1>5 DEF Ordered
  <1> QED BY <1>6 DEF ss, p

\* The place of a packet in the order, as SentInOrder computes it
LEMMA OnePlace ==
    ASSUME NEW o \in Seq(Packets), NEW x, NEW k \in DOMAIN o, o[k] = x, \A i, j \in DOMAIN o : o[i] = o[j] => i = j
    PROVE  {i \in 1..Len(o) : o[i] = x} = {k}
  OBVIOUS

\* The least of one number
LEMMA MinOfOne == ASSUME NEW k \in Nat PROVE Min({k}) = k
  <1>1. \E x \in {k} : \A y \in {k} : x <= y
    OBVIOUS
  <1> QED BY <1>1 DEF Min

-----------------------------------------------------------------------------
(* The invariant *)

\* What is posted at the node: only a packet is handed on and continued.
Posted ==
    {e \in [ev : {"new", "raw", "custom", "continue"}, buf : 1..2, frame : Frames] :
        e.frame = IdRequest => e.ev = "new"}
Messages == [kind : {"ACK", "NACK", "ID", "RADIO"}, of : Frames \union {Beacon}]

\* An event whose buffer is still read, of a packet and of a request
Carriers == {e \in Posted : e.ev # "continue" /\ e.frame \in Packets}
Requests == {e \in Posted : e.frame = IdRequest}
Answers == {a \in Messages : a.kind \in {"ACK", "NACK"}}
Ids == {a \in Messages : a.kind = "ID"}

\* The packets that are out, and the requests that are still to be answered or made
Out == N(down, Packets) + N(events, Carriers) + N(sendq, Packets) + N(up, Answers)
Asked == N(down, {IdRequest}) + N(events, Requests) + N(up, Ids) + clicks

\* The packet on the way, in any of its forms, is one of S.
OnTheWay(S) ==
    /\ down \in Seq({IdRequest} \union S)
    /\ events \in Seq({e \in Posted : e \in Carriers => e.frame \in S})
    /\ sendq \in Seq({Beacon} \union S)
    /\ up \in Seq({a \in Messages : a \in Answers => a.of \in S})

Owed == IF queue = <<>> THEN {} ELSE {Head(queue)}

Typed ==
    /\ TypeOK
    /\ events \in Seq(Posted) /\ up \in Seq(Messages)
    /\ sent \in Seq(Packets) /\ order \in Seq(Packets)
    /\ fresh \in SUBSET Packets /\ clicks \in 0..1

\* The PC waits for the one packet that is out, and only once it knows the node.
Waits ==
    /\ Out <= 1
    /\ ~waiting => Out = 0 /\ queue = <<>>
    /\ waiting => known /\ queue # <<>> /\ (Out = 1 \/ lost)

\* The timer asks for the node's id until it is known, the user once.
OneRequest == Asked <= (IF known THEN 1 ELSE 2)

\* An event whose buffer is the next to be written: of a packet, and no request
\* can follow; or of a request, and another event follows, of the other frame.
Stale ==
    \A i \in DOMAIN events :
        events[i].ev # "continue" /\ events[i].buf = current =>
            IF events[i].frame \in Packets THEN N(down, {IdRequest}) + clicks = 0
            ELSE \E j \in DOMAIN events : i < j /\ events[j].ev # "continue"

\* The head of the queue was not transmitted yet.
Unsent == Out = 1 /\ \A i \in DOMAIN up : up[i].kind # "ACK"

LinkInv ==
    /\ Typed /\ Waits /\ OnTheWay(Owed) /\ OneRequest
    /\ BuffersIntact /\ Stale
    /\ Ordered(order, fresh, sent, queue, Unsent)

-----------------------------------------------------------------------------
(* What the parts of a step leave *)

\* Every count is a number.
LEMMA CountsNat ==
    ASSUME Typed
    PROVE  /\ N(down, Packets) \in Nat /\ N(events, Carriers) \in Nat
           /\ N(sendq, Packets) \in Nat /\ N(up, Answers) \in Nat
           /\ N(down, {IdRequest}) \in Nat /\ N(events, Requests) \in Nat /\ N(up, Ids) \in Nat
           /\ clicks \in Nat /\ Out \in Nat /\ Asked \in Nat
  <1>1. N(down, Packets) \in Nat /\ N(down, {IdRequest}) \in Nat
    BY CountIs DEF Typed, TypeOK
  <1>2. N(events, Carriers) \in Nat /\ N(events, Requests) \in Nat
    BY CountIs DEF Typed
  <1>3. N(sendq, Packets) \in Nat
    BY CountIs DEF Typed, TypeOK
  <1>4. N(up, Answers) \in Nat /\ N(up, Ids) \in Nat
    BY CountIs DEF Typed
  <1>5. clicks \in Nat
    BY DEF Typed
  <1> QED BY <1>1, <1>2, <1>3, <1>4, <1>5 DEF Out, Asked

\* What the two totals are made of, and that one packet at most is out
LEMMA CountsNow ==
    ASSUME LinkInv
    PROVE  /\ N(down, Packets) \in Nat /\ N(events, Carriers) \in Nat
           /\ N(sendq, Packets) \in Nat /\ N(up, Answers) \in Nat
           /\ N(down, {IdRequest}) \in Nat /\ N(events, Requests) \in Nat /\ N(up, Ids) \in Nat
           /\ clicks \in Nat /\ Out \in Nat /\ Asked \in Nat /\ Out <= 1
           /\ Out = N(down, Packets) + N(events, Carriers) + N(sendq, Packets) + N(up, Answers)
           /\ Asked = N(down, {IdRequest}) + N(events, Requests) + N(up, Ids) + clicks
  <1>1. Typed /\ Out <= 1
    BY DEF LinkInv, Waits
  <1> QED BY <1>1, CountsNat DEF Out, Asked

\* A sequence that holds none of S
LEMMA CountNone ==
    ASSUME NEW X, NEW s \in Seq(X), NEW S, N(s, S) = 0
    PROVE  s \in Seq(X \ S)
  <1>1. \A i \in DOMAIN s : s[i] \notin S
    <2> SUFFICES ASSUME NEW i \in DOMAIN s, s[i] \in S PROVE FALSE
      OBVIOUS
    <2>1. N(s, S) >= 1
      BY CountAtLeast
    <2> QED BY <2>1
  <1> QED BY <1>1

\* When no packet is out, none of any kind is on the way.
LEMMA NothingOut ==
    ASSUME Typed, N(down, Packets) = 0, N(events, Carriers) = 0, N(sendq, Packets) = 0, N(up, Answers) = 0
    PROVE  OnTheWay({})
  <1>1. down \in Seq({IdRequest})
    <2>1. down \in Seq(Frames \ Packets)
      BY CountNone DEF Typed, TypeOK
    <2> QED BY <2>1 DEF Frames
  <1>2. events \in Seq(Posted \ Carriers)
    BY CountNone DEF Typed
  <1>3. sendq \in Seq({Beacon})
    <2>1. sendq \in Seq((Packets \union {Beacon}) \ Packets)
      BY CountNone DEF Typed, TypeOK
    <2> QED BY <2>1
  <1>4. up \in Seq(Messages \ Answers)
    BY CountNone DEF Typed
  <1> QED BY <1>1, <1>2, <1>3, <1>4 DEF OnTheWay

\* What is on the way from a smaller set is on the way from a larger one.
LEMMA WayGrows == ASSUME NEW S, NEW T, S \subseteq T, OnTheWay(S) PROVE OnTheWay(T)
  <1>1. down \in Seq({IdRequest} \union T)
    BY DEF OnTheWay
  <1>2. events \in Seq({e \in Posted : e \in Carriers => e.frame \in T})
    BY DEF OnTheWay
  <1>3. sendq \in Seq({Beacon} \union T)
    BY DEF OnTheWay
  <1>4. up \in Seq({a \in Messages : a \in Answers => a.of \in T})
    BY DEF OnTheWay
  <1> QED BY <1>1, <1>2, <1>3, <1>4 DEF OnTheWay

\* What no step of the node or the line touches: the PC's part of the invariant
\* follows from the counts.
LEMMA PcKept ==
    ASSUME LinkInv, UNCHANGED <<queue, waiting, known>>, lost' \in BOOLEAN,
           Out' \in Nat, Out' <= Out, Out' < Out \/ lost => lost',
           Asked' \in Nat, Asked' <= Asked
    PROVE  Waits' /\ OneRequest' /\ Owed' = Owed
  <1>1. Out \in Nat /\ Asked \in Nat
    BY CountsNat DEF LinkInv
  <1>2. Waits' /\ OneRequest'
    BY <1>1 DEF LinkInv, Waits, OneRequest
  <1> QED BY <1>2 DEF Owed

\* Nothing is queued or sent: the order holds unless the head becomes unsent.
LEMMA OrderKept ==
    ASSUME LinkInv, UNCHANGED <<order, fresh, sent, queue>>, Unsent' => Unsent
    PROVE  Ordered(order, fresh, sent, queue, Unsent)'
  BY DEF LinkInv, Ordered, Within, Rises

\* Events, buffers and the requests to come stay.
LEMMA BuffersKept ==
    ASSUME LinkInv, UNCHANGED <<events, buffer, current>>,
           N(down, {IdRequest})' + clicks' = N(down, {IdRequest}) + clicks
    PROVE  BuffersIntact' /\ Stale'
  BY DEF LinkInv, BuffersIntact, Stale

\* The first event is taken, and at most handed on to another process.
LEMMA EventsGo ==
    ASSUME LinkInv, events # <<>>, UNCHANGED <<buffer, current, down, clicks>>,
           \A i \in DOMAIN events' : events'[i].ev # "continue" =>
              \E h \in DOMAIN events :
                 /\ events[h].ev # "continue"
                 /\ events'[i].buf = events[h].buf /\ events'[i].frame = events[h].frame
                 /\ events[h].frame \notin Packets => h = i + 1 /\ i \in Nat,
           \A h \in DOMAIN events : h > 1 => h - 1 \in DOMAIN events' /\ events'[h - 1] = events[h]
    PROVE  BuffersIntact' /\ Stale'
  <1>1. BuffersIntact'
    BY DEF LinkInv, BuffersIntact
  <1>2. ASSUME NEW i \in DOMAIN events', events'[i].ev # "continue", events'[i].buf = current,
               events'[i].frame \notin Packets
        PROVE  \E j \in DOMAIN events' : i < j /\ events'[j].ev # "continue"
    <2>1. PICK h \in DOMAIN events :
             /\ events[h].ev # "continue"
             /\ events'[i].buf = events[h].buf /\ events'[i].frame = events[h].frame
             /\ events[h].frame \notin Packets => h = i + 1 /\ i \in Nat
      BY <1>2
    <2>2. PICK j \in DOMAIN events : h < j /\ events[j].ev # "continue"
      BY <1>2, <2>1 DEF LinkInv, Stale
    <2>3. j \in Nat /\ h \in Nat /\ i \in Nat /\ h = i + 1 /\ i >= 0
      BY <1>2, <2>1, <2>2, SMTT(30) DEF LinkInv, Typed
    <2>4. i < j - 1 /\ j > 1
      BY <2>2, <2>3
    <2>5. j - 1 \in DOMAIN events' /\ events'[j - 1] = events[j]
      BY <2>4
    <2> QED BY <2>2, <2>4, <2>5
  <1>3. ASSUME NEW i \in DOMAIN events', events'[i].ev # "continue", events'[i].buf = current,
               events'[i].frame \in Packets
        PROVE  N(down, {IdRequest}) + clicks = 0
    BY <1>3 DEF LinkInv, Stale
  <1> QED BY <1>1, <1>2, <1>3 DEF Stale

\* The first event is taken and leaves nothing behind.
LEMMA EventTaken ==
    ASSUME LinkInv, events # <<>>, events' = Tail(events), UNCHANGED <<buffer, current, down, clicks>>
    PROVE  BuffersIntact' /\ Stale'
  <1>1. /\ \A i \in DOMAIN events' : i + 1 \in DOMAIN events /\ events'[i] = events[i + 1] /\ i \in Nat
        /\ \A i \in DOMAIN events : i > 1 => i - 1 \in DOMAIN events' /\ events'[i - 1] = events[i]
    <2>1. events \in Seq(Posted)
      BY DEF LinkInv, Typed
    <2> QED BY <2>1, SMTT(30)
  <1> QED BY <1>1, EventsGo

\* Packets without a next hop leave the front of the queue.
LEMMA RoutedSuffix ==
    ASSUME NEW q \in Seq(Packets)
    PROVE  /\ Routed(q) \in Seq(Packets)
           /\ \E d \in Nat : /\ Len(Routed(q)) + d <= Len(q)
                             /\ \A i \in DOMAIN Routed(q) : Routed(q)[i] = q[i + d]
  <1> DEFINE I == {i \in 1..Len(q) : q[i] \notin Unrouted}
             m == SelectInSeq(q, LAMBDA p : p \notin Unrouted)
  <1>1. CASE I = {}
    <2>1. m = 0
      BY <1>1 DEF SelectInSeq
    <2>2. Routed(q) = <<>>
      BY <2>1 DEF Routed
    <2> QED BY <2>2
  <1>2. CASE I # {}
    <2>1. m = Min(I)
      BY <1>2 DEF SelectInSeq
    <2>2. Min(I) \in I
      <3>1. I \in SUBSET Nat
        OBVIOUS
      <3> HIDE DEF I
      <3> QED BY <1>2, <3>1, LeastIn
    <2>3. m \in 1..Len(q)
      BY <2>1, <2>2
    <2>4. Routed(q) = IF m = 0 THEN <<>> ELSE SubSeq(q, m, Len(q))
      BY DEF Routed
    <2> HIDE DEF m
    <2>5. Routed(q) = SubSeq(q, m, Len(q))
      BY <2>3, <2>4
    <2>6. PICK d \in Nat : d + 1 = m
      <3>1. m - 1 \in Nat /\ (m - 1) + 1 = m
        BY <2>3
      <3> QED BY <3>1
    <2>7. Routed(q) = SubSeq(q, d + 1, Len(q)) /\ d + 1 \in 1..Len(q)
      BY <2>3, <2>5, <2>6
    <2>8. /\ Routed(q) \in Seq(Packets) /\ Len(Routed(q)) = Len(q) - d
          /\ \A i \in DOMAIN Routed(q) : Routed(q)[i] = q[i + d]
      BY <2>7, SMTT(30)
    <2>9. Len(Routed(q)) + d <= Len(q)
      BY <2>8
    <2> QED BY <2>8, <2>9
  <1> QED BY <1>1, <1>2

-----------------------------------------------------------------------------
(* The steps of the node and of the line *)

\* What is counted after a step
LEMMA CountsAfter ==
    /\ Out' = N(down', Packets) + N(events', Carriers) + N(sendq', Packets) + N(up', Answers)
    /\ Asked' = N(down', {IdRequest}) + N(events', Requests) + N(up', Ids) + clicks'
    /\ N(down, {IdRequest})' = N(down', {IdRequest})
  BY DEF Out, Asked, N, Carriers, Requests, Answers, Ids, Posted, Messages, Packets, Frames

\* A sequence over a smaller set is one over a larger set.
LEMMA SeqGrows == ASSUME NEW S, NEW T, S \subseteq T, NEW s \in Seq(S) PROVE s \in Seq(T)
  OBVIOUS

\* What stands first is typed, and about the packet that is owed.
LEMMA HeadsTyped ==
    ASSUME LinkInv
    PROVE  /\ Owed \in SUBSET Packets
           /\ down # <<>> => Head(down) \in {IdRequest} \union Owed /\ Head(down) \in Frames
           /\ events # <<>> => /\ Head(events) \in Posted
                               /\ Head(events) \in Carriers => Head(events).frame \in Owed
                               /\ Head(events).ev # "continue" => buffer[Head(events).buf] = Head(events).frame
           /\ sendq # <<>> => Head(sendq) \in {Beacon} \union Owed
           /\ up # <<>> => /\ Head(up) \in Messages
                           /\ Head(up) \in Answers => Head(up).of \in Owed
  <1>1. Owed \in SUBSET Packets
    <2>1. queue \in Seq(Packets)
      BY DEF LinkInv, Typed, TypeOK
    <2> QED BY <2>1 DEF Owed
  <1>2. down # <<>> => Head(down) \in {IdRequest} \union Owed
    BY DEF LinkInv, OnTheWay
  <1>3. events # <<>> => /\ Head(events) \in Posted
                         /\ Head(events) \in Carriers => Head(events).frame \in Owed
    BY DEF LinkInv, OnTheWay
  <1>4. events # <<>> /\ Head(events).ev # "continue" => buffer[Head(events).buf] = Head(events).frame
    BY DEF LinkInv, BuffersIntact, Typed
  <1>5. sendq # <<>> => Head(sendq) \in {Beacon} \union Owed
    BY DEF LinkInv, OnTheWay
  <1>6. up # <<>> => /\ Head(up) \in Messages
                     /\ Head(up) \in Answers => Head(up).of \in Owed
    BY DEF LinkInv, OnTheWay
  <1>7. down # <<>> => Head(down) \in Frames
    <2>1. down \in Seq(Frames)
      BY DEF LinkInv, Typed, TypeOK
    <2> QED BY <2>1
  <1> QED BY <1>1, <1>2, <1>3, <1>4, <1>5, <1>6, <1>7

\* A frame goes to a buffer nobody reads any more: with it, at most one event is
\* still to be read.
LEMMA StepFrameIn == ASSUME LinkInv, FrameIn PROVE LinkInv'
  <1> DEFINE f == Head(down)
             e == Event("new", current, f)
  <1>1. /\ down # <<>> /\ down' = Tail(down) /\ down \in Seq(Frames) /\ down' \in Seq(Frames)
        /\ f \in Frames /\ f \in {IdRequest} \union Owed
        /\ events' = Append(events, e) /\ events \in Seq(Posted) /\ e \in Posted
        /\ e \in Carriers <=> f \in Packets
        /\ e \in Requests <=> f \in {IdRequest}
    <2>1. current \in 1..2 /\ f \in Frames /\ f \in {IdRequest} \union Owed
      BY HeadsTyped DEF FrameIn, LinkInv, Typed, TypeOK
    <2>2. e \in Posted
      BY <2>1 DEF Posted, Event
    <2>3. (e \in Carriers <=> f \in Packets) /\ (e \in Requests <=> f \in {IdRequest})
      BY <2>2 DEF Carriers, Requests, Event
    <2>4. down \in Seq(Frames) /\ Tail(down) \in Seq(Frames)
      BY DEF FrameIn, LinkInv, Typed, TypeOK
    <2> QED BY <2>1, <2>2, <2>3, <2>4 DEF FrameIn, LinkInv, Typed
  <1> HIDE DEF e, f
  <1>2. /\ N(down, Packets) = IF f \in Packets THEN N(down', Packets) + 1 ELSE N(down', Packets)
        /\ N(down, {IdRequest}) = IF f \in {IdRequest} THEN N(down', {IdRequest}) + 1 ELSE N(down', {IdRequest})
    BY <1>1, CountTail DEF f
  <1>3. /\ N(events', Carriers) = IF f \in Packets THEN N(events, Carriers) + 1 ELSE N(events, Carriers)
        /\ N(events', Requests) = IF f \in {IdRequest} THEN N(events, Requests) + 1 ELSE N(events, Requests)
    BY <1>1, CountAppend
  <1>4. N(down', Packets) \in Nat /\ N(down', {IdRequest}) \in Nat
    BY <1>1, CountIs
  <1>5. Out' = Out /\ Asked' = Asked
    <2>1. UNCHANGED <<sendq, up, clicks>>
      BY DEF FrameIn, bounds
    <2> QED BY <1>2, <1>3, <1>4, <2>1, CountsAfter, CountsNat DEF LinkInv, Out, Asked
  <1>6. Typed'
    <2>1. buffer' \in [1..2 -> Frames] /\ current' \in 1..2
      <3>1. buffer \in [1..2 -> Frames] /\ current \in 1..2
        BY DEF LinkInv, Typed, TypeOK
      <3>2. buffer' = [buffer EXCEPT ![current] = f] /\ current' = 3 - current
        BY DEF FrameIn, f
      <3> QED BY <1>1, <3>1, <3>2
    <2>2. events' \in Seq(Posted) /\ events' \in Seq([ev : {"new", "raw", "custom", "continue"}, buf : 1..2, frame : Frames])
      <3>1. Posted \subseteq [ev : {"new", "raw", "custom", "continue"}, buf : 1..2, frame : Frames]
        BY DEF Posted
      <3>2. events' \in Seq(Posted)
        BY <1>1
      <3> QED BY <3>1, <3>2, SeqGrows
    <2> QED BY <1>1, <2>1, <2>2 DEF LinkInv, Typed, TypeOK, FrameIn, pc, bounds, history
  <1>7. Waits' /\ OneRequest' /\ Owed' = Owed
    <2>1. UNCHANGED <<queue, waiting, known, lost>> /\ lost \in BOOLEAN
      BY DEF FrameIn, pc, history, LinkInv, Typed, TypeOK
    <2> QED BY <1>5, <2>1, PcKept, CountsNat DEF LinkInv
  <1>8. OnTheWay(Owed)'
    <2>1. down' \in Seq({IdRequest} \union Owed)
      BY <1>1 DEF LinkInv, OnTheWay
    <2>2. events' \in Seq({p \in Posted : p \in Carriers => p.frame \in Owed})
      <3>1. e \in Carriers => e.frame \in Owed
        BY <1>1 DEF e, Event, LinkInv, Packets, Frames, LinkAssumption
      <3> QED BY <1>1, <3>1 DEF LinkInv, OnTheWay
    <2>3. UNCHANGED <<sendq, up>>
      BY DEF FrameIn
    <2> QED BY <1>7, <2>1, <2>2, <2>3 DEF LinkInv, OnTheWay
  <1>0. /\ N(down, Packets) \in Nat /\ N(events, Carriers) \in Nat
        /\ N(sendq, Packets) \in Nat /\ N(up, Answers) \in Nat
        /\ N(down, {IdRequest}) \in Nat /\ N(events, Requests) \in Nat /\ N(up, Ids) \in Nat
        /\ clicks \in Nat /\ Out \in Nat /\ Asked \in Nat /\ (f \in Packets \/ f \in {IdRequest})
    BY <1>1, CountsNat DEF LinkInv, Frames
  <1>9. Out <= 1 /\ Out + Asked <= 2 /\ (Out = 1 => Asked <= 1)
    <2>1. Out <= 1 /\ (Out = 1 => known)
      BY DEF LinkInv, Waits
    <2>2. known => Asked <= 1
      BY DEF LinkInv, OneRequest
    <2>3. Asked <= 2
      BY <1>0 DEF LinkInv, OneRequest
    <2> QED BY <1>0, <2>1, <2>2, <2>3
  <1>10. ASSUME NEW i \in DOMAIN events, events[i].ev # "continue" PROVE events[i].buf # current
    <2> SUFFICES ASSUME events[i].buf = current PROVE FALSE
      OBVIOUS
    <2>1. CASE events[i].frame \in Packets
      <3>1. events[i] \in Carriers
        BY <1>1, <1>10, <2>1 DEF Carriers
      <3>2. N(events, Carriers) >= 1
        BY <1>1, <3>1, CountAtLeast
      <3>3. N(down, {IdRequest}) + clicks = 0
        BY <1>10, <2>1 DEF LinkInv, Stale
      <3>4. f \in Packets
        BY <1>0, <1>2, <1>4, <3>3
      <3> QED BY <1>0, <1>2, <1>4, <1>9, <3>2, <3>4 DEF Out
    <2>2. CASE events[i].frame \notin Packets
      <3>1. PICK j \in DOMAIN events : i < j /\ events[j].ev # "continue"
        BY <1>10, <2>2 DEF LinkInv, Stale
      <3>2. events[i] \in Requests /\ events[j] \in Requests \union Carriers
        BY <1>1, <1>10, <2>2, <3>1 DEF Requests, Carriers, Posted, Frames
      <3>3. N(events, Requests) >= 1
        BY <1>1, <3>2, CountAtLeast
      <3>4. N(events, Requests) >= 2 \/ N(events, Carriers) >= 1
        BY <1>1, <3>1, <3>2, CountAtLeast
      <3> QED BY <1>0, <1>2, <1>4, <1>9, <3>3, <3>4 DEF Out, Asked
    <2> QED BY <2>1, <2>2
  <1>11. /\ \A i \in DOMAIN events' : i \in DOMAIN events \/ i = Len(events) + 1
         /\ \A i \in DOMAIN events : events'[i] = events[i] /\ i < Len(events) + 1 /\ events[i].buf \in 1..2
         /\ Len(events) + 1 \in DOMAIN events' /\ events'[Len(events) + 1] = e
    BY <1>1 DEF Posted
  <1>12. current \in 1..2 /\ current' = 3 - current /\ buffer \in [1..2 -> Frames]
         /\ buffer' = [buffer EXCEPT ![current] = f]
    BY DEF FrameIn, f, LinkInv, Typed, TypeOK
  <1>13. e.ev = "new" /\ e.buf = current /\ e.frame = f
    BY DEF e, Event
  <1>14. BuffersIntact'
    <2> SUFFICES ASSUME NEW i \in DOMAIN events', events'[i].ev # "continue"
                 PROVE  buffer'[events'[i].buf] = events'[i].frame
      BY DEF BuffersIntact
    <2>1. CASE i \in DOMAIN events
      <3>1. events[i].buf # current /\ events'[i] = events[i] /\ events[i].buf \in 1..2
        BY <1>10, <1>11, <2>1
      <3>2. buffer[events[i].buf] = events[i].frame
        BY <2>1, <3>1 DEF LinkInv, BuffersIntact
      <3> QED BY <1>12, <3>1, <3>2
    <2>2. CASE i = Len(events) + 1
      BY <1>11, <1>12, <1>13, <2>2
    <2> QED BY <1>11, <2>1, <2>2
  <1>15. Stale'
    <2> SUFFICES ASSUME NEW i \in DOMAIN events', events'[i].ev # "continue", events'[i].buf = current'
                 PROVE  IF events'[i].frame \in Packets THEN N(down', {IdRequest}) + clicks' = 0
                        ELSE \E j \in DOMAIN events' : i < j /\ events'[j].ev # "continue"
      BY CountsAfter DEF Stale, Packets
    <2>1. i \in DOMAIN events /\ events'[i] = events[i]
      BY <1>11, <1>12, <1>13
    <2>2. CASE events[i].frame \in Packets
      <3>1. events[i] \in Carriers
        BY <1>1, <2>1, <2>2 DEF Carriers
      <3>2. N(events, Carriers) >= 1
        BY <1>1, <2>1, <3>1, CountAtLeast
      <3>3. f \in {IdRequest} /\ Out = 1
        BY <1>0, <1>2, <1>4, <1>9, <3>2 DEF Out
      <3>4. N(down', {IdRequest}) + clicks = 0
        BY <1>0, <1>2, <1>4, <1>9, <3>3 DEF Asked
      <3> QED BY <2>1, <2>2, <3>4 DEF FrameIn, bounds
    <2>3. CASE events[i].frame \notin Packets
      BY <1>11, <1>13, <2>1, <2>3
    <2> QED BY <2>2, <2>3
  <1>16. Ordered(order, fresh, sent, queue, Unsent)'
    <2>1. UNCHANGED <<order, fresh, sent, queue, up>>
      BY DEF FrameIn, pc, bounds, history
    <2> QED BY <1>5, <2>1, OrderKept DEF Unsent
  <1> QED BY <1>6, <1>7, <1>8, <1>14, <1>15, <1>16 DEF LinkInv

\* The first event is one less of what it is.
LEMMA FirstEvent ==
    ASSUME LinkInv, events # <<>>
    PROVE  /\ Tail(events) \in Seq(Posted)
           /\ Tail(events) \in Seq({e \in Posted : e \in Carriers => e.frame \in Owed})
           /\ N(Tail(events), Carriers) \in Nat /\ N(Tail(events), Requests) \in Nat
           /\ N(events, Carriers) = IF Head(events) \in Carriers THEN N(Tail(events), Carriers) + 1
                                    ELSE N(Tail(events), Carriers)
           /\ N(events, Requests) = IF Head(events) \in Requests THEN N(Tail(events), Requests) + 1
                                    ELSE N(Tail(events), Requests)
  <1>1. events \in Seq(Posted)
    BY DEF LinkInv, Typed
  <1>2. Tail(events) \in Seq(Posted)
    BY <1>1
  <1>3. Tail(events) \in Seq({e \in Posted : e \in Carriers => e.frame \in Owed})
    BY DEF LinkInv, OnTheWay
  <1>4. N(Tail(events), Carriers) \in Nat /\ N(Tail(events), Requests) \in Nat
    BY <1>2, CountIs
  <1> QED BY <1>1, <1>2, <1>3, <1>4, CountTail

\* What is posted has the type of an event.
LEMMA PostedTyped ==
    ASSUME NEW s \in Seq(Posted)
    PROVE  s \in Seq([ev : {"new", "raw", "custom", "continue"}, buf : 1..2, frame : Frames])
  <1>1. Posted \subseteq [ev : {"new", "raw", "custom", "continue"}, buf : 1..2, frame : Frames]
    BY DEF Posted
  <1> QED BY <1>1, SeqGrows

\* What Answer makes, and what it counts as
LEMMA MessagesTyped ==
    ASSUME NEW k \in {"ACK", "NACK", "ID", "RADIO"}, NEW p \in Frames \union {Beacon}
    PROVE  /\ Answer(k, p) \in Messages
           /\ Answer(k, p) \in Answers <=> k \in {"ACK", "NACK"}
           /\ Answer(k, p) \in Ids <=> k = "ID"
           /\ Answer(k, p).kind = k /\ Answer(k, p).of = p
  BY DEF Answer, Messages, Answers, Ids

\* The process goes on: nothing read from the buffers is lost.
LEMMA StepHandleContinue == ASSUME LinkInv, HandleContinue PROVE LinkInv'
  <1>1. /\ events # <<>> /\ events' = Tail(events) /\ Head(events).ev = "continue" /\ handling' = FALSE
        /\ UNCHANGED <<pc, down, up, buffer, current, sendq, retries, bounds, history>>
    BY DEF HandleContinue
  <1>2. Head(events) \notin Carriers /\ Head(events) \notin Requests
    BY <1>1, HeadsTyped DEF Carriers, Requests, Posted
  <1>3. Out' = Out /\ Asked' = Asked
    BY <1>1, <1>2, CountsAfter, FirstEvent DEF Out, Asked, bounds
  <1>4. Typed'
    BY <1>1, FirstEvent, PostedTyped DEF LinkInv, Typed, TypeOK, pc, bounds, history
  <1>5. Waits' /\ OneRequest' /\ Owed' = Owed
    <2>1. UNCHANGED <<queue, waiting, known, lost>> /\ lost \in BOOLEAN
      BY <1>1 DEF pc, history, LinkInv, Typed, TypeOK
    <2> QED BY <1>3, <2>1, PcKept, CountsNat DEF LinkInv
  <1>6. OnTheWay(Owed)'
    BY <1>1, <1>5, FirstEvent DEF LinkInv, OnTheWay
  <1>7. BuffersIntact' /\ Stale'
    BY <1>1, EventTaken DEF bounds
  <1>8. Ordered(order, fresh, sent, queue, Unsent)'
    BY <1>1, <1>3, OrderKept DEF Unsent, pc, bounds, history
  <1> QED BY <1>4, <1>5, <1>6, <1>7, <1>8 DEF LinkInv

\* A packet of the node's own is answered at once, a packet for the radio is
\* queued or lost.
LEMMA StepHandleCustom == ASSUME LinkInv, HandleCustom PROVE LinkInv'
  <1> DEFINE a == Answer("ACK", buffer[Head(events).buf])
  <1>1. /\ events # <<>> /\ events' = Tail(events) /\ Head(events).ev = "custom" /\ up' = Append(up, a)
        /\ UNCHANGED <<pc, down, buffer, current, handling, sendq, retries, bounds, history>>
    BY DEF HandleCustom
  <1>2. Head(events) \in Carriers /\ Head(events) \notin Requests /\ Head(events).frame \in Owed
        /\ buffer[Head(events).buf] = Head(events).frame /\ Head(events).frame \in Frames
    BY <1>1, HeadsTyped DEF Carriers, Requests, Posted, Frames
  <1>3. a \in Messages /\ a \in Answers /\ a \notin Ids /\ a.of \in Owed /\ a.kind = "ACK"
    BY <1>2, MessagesTyped
  <1> HIDE DEF a
  <1>4. up \in Seq(Messages)
    BY DEF LinkInv, Typed
  <1>5. N(up', Answers) = N(up, Answers) + 1 /\ N(up', Ids) = N(up, Ids)
    BY <1>1, <1>3, <1>4, CountAppend
  <1>6. Out' = Out /\ Asked' = Asked
    <2>1. UNCHANGED <<down, sendq, clicks>>
      BY <1>1 DEF bounds
    <2>2. /\ N(Tail(events), Carriers) + 1 = N(events, Carriers) /\ N(Tail(events), Requests) = N(events, Requests)
          /\ N(Tail(events), Carriers) \in Nat
      BY <1>1, <1>2, FirstEvent
    <2>3. /\ Out' = N(down, Packets) + N(Tail(events), Carriers) + N(sendq, Packets) + (N(up, Answers) + 1)
          /\ Asked' = N(down, {IdRequest}) + N(Tail(events), Requests) + N(up, Ids) + clicks
      BY <1>1, <1>5, <2>1, CountsAfter
    <2> QED BY <2>2, <2>3, CountsNow
  <1>7. Typed'
    <2>1. up' \in Seq(Messages)
      BY <1>1, <1>3, <1>4
    <2> QED BY <1>1, <2>1, FirstEvent, PostedTyped DEF LinkInv, Typed, TypeOK, Messages, pc, bounds, history
  <1>8. Waits' /\ OneRequest' /\ Owed' = Owed
    <2>1. UNCHANGED <<queue, waiting, known, lost>> /\ lost \in BOOLEAN
      BY <1>1 DEF pc, history, LinkInv, Typed, TypeOK
    <2> QED BY <1>6, <2>1, PcKept, CountsNat DEF LinkInv
  <1>9. OnTheWay(Owed)'
    <2>1. up' \in Seq({b \in Messages : b \in Answers => b.of \in Owed})
      BY <1>1, <1>3 DEF LinkInv, OnTheWay
    <2> QED BY <1>1, <1>8, <2>1, FirstEvent DEF LinkInv, OnTheWay
  <1>10. BuffersIntact' /\ Stale'
    BY <1>1, EventTaken DEF bounds
  <1>11. Ordered(order, fresh, sent, queue, Unsent)'
    <2>1. Len(up) + 1 \in DOMAIN up' /\ up'[Len(up) + 1].kind = "ACK"
      BY <1>1, <1>3, <1>4
    <2> QED BY <1>1, <2>1, OrderKept DEF Unsent, pc, bounds, history
  <1> QED BY <1>7, <1>8, <1>9, <1>10, <1>11 DEF LinkInv

\* A packet for the radio joins the queue of the node, or is dropped.
LEMMA StepHandleRaw == ASSUME LinkInv, HandleRaw PROVE LinkInv'
  <1> DEFINE p == buffer[Head(events).buf]
  <1>1. /\ events # <<>> /\ events' = Tail(events) /\ Head(events).ev = "raw"
        /\ IF Len(sendq) < Room THEN sendq' = Append(sendq, p) /\ lost' = lost
           ELSE lost' = TRUE /\ sendq' = sendq
        /\ UNCHANGED <<pc, down, up, buffer, current, handling, retries, bounds, sent, order>>
    BY DEF HandleRaw
  <1>2. Head(events) \in Carriers /\ Head(events) \notin Requests /\ p \in Owed /\ p \in Packets
    BY <1>1, HeadsTyped DEF Carriers, Requests, Posted, Frames
  <1> HIDE DEF p
  <1>3. sendq \in Seq(Packets \union {Beacon}) /\ Len(sendq) <= Room /\ lost \in BOOLEAN
    BY DEF LinkInv, Typed, TypeOK
  <1>4. N(Append(sendq, p), Packets) = N(sendq, Packets) + 1
    BY <1>2, <1>3, CountAppend
  <1>5. Out' \in Nat /\ Out' <= Out /\ (Out' < Out \/ lost => lost') /\ Asked' = Asked /\ (Out' = 1 => Out = 1)
    <2>1. N(Tail(events), Carriers) + 1 = N(events, Carriers) /\ N(Tail(events), Requests) = N(events, Requests)
      BY <1>1, <1>2, FirstEvent
    <2>2. Asked' = Asked
      BY <1>1, <2>1, CountsAfter DEF Asked, bounds
    <2>3. N(Tail(events), Carriers) \in Nat /\ UNCHANGED <<down, up, clicks>>
      BY <1>1, FirstEvent DEF bounds
    <2>4. CASE Len(sendq) < Room
      <3>1. Out' = Out
        <4>1. N(sendq', Packets) = N(sendq, Packets) + 1
          BY <1>1, <1>4, <2>4
        <4>2. Out' = N(down, Packets) + N(Tail(events), Carriers) + (N(sendq, Packets) + 1) + N(up, Answers)
          BY <1>1, <2>3, <4>1, CountsAfter
        <4> QED BY <2>1, <2>3, <4>2, CountsNow
      <3>2. lost' = lost
        BY <1>1, <2>4
      <3> QED BY <2>2, <3>1, <3>2, CountsNow
    <2>5. CASE ~(Len(sendq) < Room)
      <3>1. Out' + 1 = Out /\ Out' \in Nat /\ lost'
        <4>1. sendq' = sendq /\ lost'
          BY <1>1, <2>5
        <4>2. Out' = N(down, Packets) + N(Tail(events), Carriers) + N(sendq, Packets) + N(up, Answers)
          BY <1>1, <2>3, <4>1, CountsAfter
        <4> QED BY <2>1, <2>3, <4>1, <4>2, CountsNow
      <3> QED BY <2>2, <2>3, <3>1, CountsNow
    <2> QED BY <2>4, <2>5
  <1>6. sendq' \in Seq(Packets \union {Beacon}) /\ Len(sendq') <= Room /\ lost' \in BOOLEAN
    <2>1. Room \in Nat
      BY LinkAssumption
    <2>2. CASE Len(sendq) < Room
      <3>1. p \in Packets \union {Beacon} /\ sendq' = Append(sendq, p) /\ lost' = lost
        BY <1>1, <1>2, <2>2
      <3>2. Len(sendq') = Len(sendq) + 1 /\ sendq' \in Seq(Packets \union {Beacon})
        BY <1>3, <3>1
      <3> QED BY <1>3, <2>1, <2>2, <3>1, <3>2
    <2>3. CASE ~(Len(sendq) < Room)
      BY <1>1, <1>3, <2>3
    <2> QED BY <2>2, <2>3
  <1>7. Typed'
    BY <1>1, <1>6, FirstEvent, PostedTyped DEF LinkInv, Typed, TypeOK, pc, bounds
  <1>8. Waits' /\ OneRequest' /\ Owed' = Owed
    BY <1>1, <1>5, <1>6, PcKept, CountsNat DEF LinkInv, pc
  <1>9. OnTheWay(Owed)'
    <2>1. sendq \in Seq({Beacon} \union Owed)
      BY DEF LinkInv, OnTheWay
    <2>2. sendq' \in Seq({Beacon} \union Owed)
      <3>1. CASE Len(sendq) < Room
        <4>1. p \in {Beacon} \union Owed /\ sendq' = Append(sendq, p)
          BY <1>1, <1>2, <3>1
        <4> QED BY <2>1, <4>1
      <3>2. CASE ~(Len(sendq) < Room)
        BY <1>1, <2>1, <3>2
      <3> QED BY <3>1, <3>2
    <2> QED BY <1>1, <1>8, <2>2, FirstEvent DEF LinkInv, OnTheWay
  <1>10. BuffersIntact' /\ Stale'
    BY <1>1, EventTaken DEF bounds
  <1>11. Ordered(order, fresh, sent, queue, Unsent)'
    BY <1>1, <1>5, OrderKept DEF Unsent, pc, bounds
  <1> QED BY <1>7, <1>8, <1>9, <1>10, <1>11 DEF LinkInv

\* A new frame is dropped while the process waits.
LEMMA StepDropped == ASSUME LinkInv, HandleNew, handling PROVE LinkInv'
  <1>1. /\ events # <<>> /\ events' = Tail(events) /\ Head(events).ev = "new"
        /\ lost' = (lost \/ Head(events).frame # IdRequest)
        /\ UNCHANGED <<pc, down, up, buffer, current, handling, sendq, retries, bounds, sent, order>>
    BY DEF HandleNew
  <1>2. Head(events) \in Carriers \/ Head(events) \in Requests
    BY <1>1, HeadsTyped DEF Carriers, Requests, Posted, Frames
  <1>3. lost \in BOOLEAN /\ lost' \in BOOLEAN /\ (lost => lost') /\ (Head(events) \in Carriers => lost')
    BY <1>1 DEF LinkInv, Typed, TypeOK, Carriers, Frames, Packets, LinkAssumption
  <1>4. Out' \in Nat /\ Out' <= Out /\ (Out' < Out => Head(events) \in Carriers)
        /\ Asked' \in Nat /\ Asked' <= Asked
    <2>1. UNCHANGED <<down, sendq, up, clicks>>
      BY <1>1 DEF bounds
    <2>2. /\ Out' = N(down, Packets) + N(Tail(events), Carriers) + N(sendq, Packets) + N(up, Answers)
          /\ Asked' = N(down, {IdRequest}) + N(Tail(events), Requests) + N(up, Ids) + clicks
      BY <1>1, <2>1, CountsAfter
    <2>3. N(events, Requests) = N(Tail(events), Requests) \/ N(events, Requests) = N(Tail(events), Requests) + 1
      BY <1>1, FirstEvent
    <2>4. N(events, Carriers) = IF Head(events) \in Carriers THEN N(Tail(events), Carriers) + 1
                                ELSE N(Tail(events), Carriers)
      BY <1>1, FirstEvent
    <2>5. N(Tail(events), Requests) \in Nat /\ N(Tail(events), Carriers) \in Nat
      BY <1>1, FirstEvent
    <2> QED BY <2>2, <2>3, <2>4, <2>5, CountsNow
  <1>5. Typed'
    BY <1>1, <1>3, FirstEvent, PostedTyped DEF LinkInv, Typed, TypeOK, pc, bounds
  <1>6. Waits' /\ OneRequest' /\ Owed' = Owed
    BY <1>1, <1>3, <1>4, PcKept DEF pc
  <1>7. OnTheWay(Owed)'
    BY <1>1, <1>6, FirstEvent DEF LinkInv, OnTheWay
  <1>8. BuffersIntact' /\ Stale'
    BY <1>1, EventTaken DEF bounds
  <1>9. Ordered(order, fresh, sent, queue, Unsent)'
    <2>1. Out' = 1 => Out = 1
      BY <1>4, CountsNow
    <2> QED BY <1>1, <2>1, OrderKept DEF Unsent, pc, bounds
  <1> QED BY <1>5, <1>6, <1>7, <1>8, <1>9 DEF LinkInv

\* A request is answered when it is decoded.
LEMMA StepRequest ==
    ASSUME LinkInv, HandleNew, ~handling, Head(events).frame = IdRequest
    PROVE  LinkInv'
  <1> DEFINE a == Answer("ID", IdRequest)
  <1>1. /\ events # <<>> /\ Head(events).ev = "new"
        /\ events' = Tail(events) /\ up' = Append(up, a) /\ handling' = handling /\ lost' = lost
        /\ UNCHANGED <<pc, down, buffer, current, sendq, retries, bounds, sent, order>>
    <2>1. events # <<>> /\ Head(events).ev = "new"
      BY DEF HandleNew
    <2>2. buffer[Head(events).buf] = IdRequest
      BY <2>1, HeadsTyped
    <2> QED BY <2>1, <2>2 DEF HandleNew, Decode
  <1>2. Head(events) \in Requests /\ Head(events) \notin Carriers
    BY <1>1, HeadsTyped DEF Carriers, Requests, Packets, LinkAssumption
  <1>3. a \in Messages /\ a \notin Answers /\ a \in Ids /\ a.kind = "ID"
    BY MessagesTyped DEF Frames
  <1> HIDE DEF a
  <1>4. up \in Seq(Messages)
    BY DEF LinkInv, Typed
  <1>5. N(up', Answers) = N(up, Answers) /\ N(up', Ids) = N(up, Ids) + 1
    BY <1>1, <1>3, <1>4, CountAppend
  <1>6. Out' = Out /\ Asked' = Asked
    <2>1. UNCHANGED <<down, sendq, clicks>>
      BY <1>1 DEF bounds
    <2>2. /\ N(Tail(events), Requests) + 1 = N(events, Requests) /\ N(Tail(events), Carriers) = N(events, Carriers)
          /\ N(Tail(events), Requests) \in Nat
      BY <1>1, <1>2, FirstEvent
    <2>3. /\ Out' = N(down, Packets) + N(Tail(events), Carriers) + N(sendq, Packets) + N(up, Answers)
          /\ Asked' = N(down, {IdRequest}) + N(Tail(events), Requests) + (N(up, Ids) + 1) + clicks
      BY <1>1, <1>5, <2>1, CountsAfter
    <2> QED BY <2>2, <2>3, CountsNow
  <1>7. Typed'
    <2>1. up' \in Seq(Messages)
      BY <1>1, <1>3, <1>4
    <2> QED BY <1>1, <2>1, FirstEvent, PostedTyped DEF LinkInv, Typed, TypeOK, Messages, pc, bounds
  <1>8. Waits' /\ OneRequest' /\ Owed' = Owed
    <2>1. UNCHANGED <<queue, waiting, known, lost>> /\ lost \in BOOLEAN
      BY <1>1 DEF pc, LinkInv, Typed, TypeOK
    <2> QED BY <1>6, <2>1, PcKept, CountsNow
  <1>9. OnTheWay(Owed)'
    <2>1. up' \in Seq({b \in Messages : b \in Answers => b.of \in Owed})
      BY <1>1, <1>3 DEF LinkInv, OnTheWay
    <2> QED BY <1>1, <1>8, <2>1, FirstEvent DEF LinkInv, OnTheWay
  <1>10. BuffersIntact' /\ Stale'
    BY <1>1, EventTaken DEF bounds
  <1>11. Ordered(order, fresh, sent, queue, Unsent)'
    <2>1. Unsent' => Unsent
      <3>1. \A i \in DOMAIN up : i \in DOMAIN up' /\ up'[i] = up[i]
        BY <1>1, <1>4
      <3> QED BY <1>6, <3>1 DEF Unsent
    <2> QED BY <1>1, <2>1, OrderKept DEF pc, bounds
  <1> QED BY <1>7, <1>8, <1>9, <1>10, <1>11 DEF LinkInv

\* A packet is handed on, in the buffer it is in.
LEMMA StepDecoded ==
    ASSUME LinkInv, HandleNew, ~handling, Head(events).frame # IdRequest
    PROVE  LinkInv'
  <1> DEFINE h == Head(events)
             r == Event(IF h.frame \in Radio THEN "raw" ELSE "custom", h.buf, h.frame)
             c == Event("continue", h.buf, h.frame)
             t == Tail(events)
  <1>1. /\ events # <<>> /\ h.ev = "new" /\ h.frame # IdRequest
        /\ events' = t \o <<r, c>> /\ handling' = TRUE /\ up' = up /\ lost' = lost
        /\ UNCHANGED <<pc, down, buffer, current, sendq, retries, bounds, sent, order>>
    <2>1. events # <<>> /\ Head(events).ev = "new"
      BY DEF HandleNew
    <2>2. buffer[Head(events).buf] = Head(events).frame
      BY <2>1, HeadsTyped
    <2> QED BY <2>1, <2>2 DEF HandleNew, Decode
  <1>2. h \in Carriers /\ h \notin Requests /\ h.frame \in Owed /\ h.buf \in 1..2 /\ h.frame \in Packets
    BY <1>1, HeadsTyped DEF Carriers, Requests, Posted, Frames
  <1>3. /\ r \in Posted /\ r \in Carriers /\ r \notin Requests /\ r.frame = h.frame /\ r.buf = h.buf
        /\ c \in Posted /\ c \notin Carriers /\ c \notin Requests /\ c.ev = "continue"
    BY <1>1, <1>2 DEF Event, Posted, Carriers, Requests, Frames
  <1>4. /\ t \in Seq(Posted) /\ events \in Seq(Posted)
        /\ N(events, Carriers) = N(t, Carriers) + 1 /\ N(events, Requests) = N(t, Requests)
    BY <1>1, <1>2, FirstEvent DEF LinkInv, Typed
  <1> HIDE DEF r, c
  <1>5. events' = Append(Append(t, r), c) /\ Append(t, r) \in Seq(Posted) /\ events' \in Seq(Posted)
    <2> HIDE DEF t
    <2> QED BY <1>1, <1>3, <1>4
  <1>6. N(events', Carriers) = N(events, Carriers) /\ N(events', Requests) = N(events, Requests)
    <2> HIDE DEF t
    <2>1. N(Append(t, r), Carriers) = N(t, Carriers) + 1 /\ N(Append(t, r), Requests) = N(t, Requests)
      BY <1>3, <1>4, CountAppend
    <2> DEFINE u == Append(t, r)
    <2>2. u \in Seq(Posted) /\ events' = Append(u, c)
      BY <1>5
    <2>3. N(u, Carriers) = N(t, Carriers) + 1 /\ N(u, Requests) = N(t, Requests)
      BY <2>1
    <2> HIDE DEF u
    <2>4. N(events', Carriers) = N(u, Carriers) /\ N(events', Requests) = N(u, Requests)
      BY <1>3, <2>2, CountAppend
    <2> QED BY <1>4, <2>3, <2>4
  <1>7. Out' = Out /\ Asked' = Asked
    <2>1. UNCHANGED <<down, sendq, up, clicks>>
      BY <1>1 DEF bounds
    <2> QED BY <1>6, <2>1, CountsAfter, CountsNow
  <1>8. Typed'
    BY <1>1, <1>5, PostedTyped DEF LinkInv, Typed, TypeOK, pc, bounds
  <1>9. Waits' /\ OneRequest' /\ Owed' = Owed
    <2>1. UNCHANGED <<queue, waiting, known, lost>> /\ lost \in BOOLEAN
      BY <1>1 DEF pc, LinkInv, Typed, TypeOK
    <2> QED BY <1>7, <2>1, PcKept, CountsNow
  <1>10. OnTheWay(Owed)'
    <2> DEFINE E == {e \in Posted : e \in Carriers => e.frame \in Owed}
    <2>1. t \in Seq(E) /\ r \in E /\ c \in E
      BY <1>1, <1>2, <1>3, FirstEvent
    <2> HIDE DEF E, t
    <2>2. events' \in Seq(E)
      BY <1>5, <2>1
    <2> QED BY <1>1, <1>9, <2>2 DEF LinkInv, OnTheWay, E
  <1>11. BuffersIntact' /\ Stale'
    <2>1. /\ \A i \in DOMAIN events : i > 1 => i - 1 \in DOMAIN t /\ t[i - 1] = events[i]
          /\ \A i \in DOMAIN t : i + 1 \in DOMAIN events /\ t[i] = events[i + 1] /\ i \in Nat
          /\ 1 \in DOMAIN events /\ h = events[1]
      <3>1. events \in Seq(Posted) /\ events # <<>>
        BY <1>1, <1>4
      <3> QED BY <3>1
    <2> HIDE DEF t, h
    <2>2. /\ \A i \in DOMAIN t : i \in DOMAIN events' /\ events'[i] = t[i]
          /\ \A i \in DOMAIN events' : i \in DOMAIN t \/ events'[i] \in {r, c}
      <3>1. t \in Seq(Posted) /\ r \in Posted /\ c \in Posted /\ events' = Append(Append(t, r), c)
        BY <1>3, <1>4, <1>5
      <3>2. DOMAIN events' = 1..(Len(t) + 2) /\ DOMAIN t = 1..Len(t) /\ Len(t) \in Nat
        BY <3>1
      <3>3. \A i \in DOMAIN t : events'[i] = t[i]
        BY <3>1
      <3>4. events'[Len(t) + 1] = r /\ events'[Len(t) + 2] = c
        BY <3>1
      <3> QED BY <3>2, <3>3, <3>4
    <2>3. ASSUME NEW i \in DOMAIN events', events'[i].ev # "continue"
          PROVE  \E k \in DOMAIN events :
                    /\ events[k].ev # "continue"
                    /\ events'[i].buf = events[k].buf /\ events'[i].frame = events[k].frame
                    /\ events[k].frame \notin Packets => k = i + 1 /\ i \in Nat
      <3>1. CASE i \in DOMAIN t
        BY <2>1, <2>2, <2>3, <3>1
      <3>2. CASE events'[i] \in {r, c}
        BY <1>1, <1>2, <1>3, <2>1, <2>3, <3>2
      <3> QED BY <2>2, <3>1, <3>2
    <2>4. \A k \in DOMAIN events : k > 1 => k - 1 \in DOMAIN events' /\ events'[k - 1] = events[k]
      BY <2>1, <2>2
    <2> QED BY <1>1, <2>3, <2>4, EventsGo DEF bounds
  <1>12. Ordered(order, fresh, sent, queue, Unsent)'
    BY <1>1, <1>7, OrderKept DEF Unsent, pc, bounds
  <1> QED BY <1>8, <1>9, <1>10, <1>11, <1>12 DEF LinkInv

\* A beacon in the node's queue is nothing of the PC's.
LEMMA StepSendBeacon == ASSUME LinkInv, SendBeacon PROVE LinkInv'
  <1>1. /\ (sendq' = Append(sendq, Beacon) /\ Len(sendq) < Room) \/ sendq' = sendq
        /\ UNCHANGED <<pc, down, up, buffer, current, events, handling, retries, fresh, clicks, history>>
    BY DEF SendBeacon
  <1>2. sendq \in Seq(Packets \union {Beacon}) /\ Len(sendq) <= Room /\ sendq \in Seq({Beacon} \union Owed)
    BY DEF LinkInv, Typed, TypeOK, OnTheWay
  <1>3. /\ sendq' \in Seq(Packets \union {Beacon}) /\ Len(sendq') <= Room
        /\ sendq' \in Seq({Beacon} \union Owed) /\ N(sendq', Packets) = N(sendq, Packets)
    <2>1. CASE sendq' = Append(sendq, Beacon) /\ Len(sendq) < Room
      <3>1. Beacon \notin Packets /\ Room \in Nat
        BY DEF Packets, LinkAssumption
      <3>2. N(sendq', Packets) = N(sendq, Packets)
        BY <1>2, <2>1, <3>1, CountAppend
      <3>3. Len(sendq') = Len(sendq) + 1
        BY <1>2, <2>1
      <3> QED BY <1>2, <2>1, <3>1, <3>2, <3>3
    <2>2. CASE sendq' = sendq
      BY <1>2, <2>2
    <2> QED BY <1>1, <2>1, <2>2
  <1>4. Out' = Out /\ Asked' = Asked
    BY <1>1, <1>3, CountsAfter, CountsNow
  <1>5. Typed'
    BY <1>1, <1>3 DEF LinkInv, Typed, TypeOK, pc, history
  <1>6. Waits' /\ OneRequest' /\ Owed' = Owed
    <2>1. UNCHANGED <<queue, waiting, known, lost>> /\ lost \in BOOLEAN
      BY <1>1 DEF pc, history, LinkInv, Typed, TypeOK
    <2> QED BY <1>4, <2>1, PcKept, CountsNow
  <1>7. OnTheWay(Owed)'
    BY <1>1, <1>3, <1>6 DEF LinkInv, OnTheWay
  <1>8. BuffersIntact' /\ Stale'
    BY <1>1, CountsAfter, BuffersKept
  <1>9. Ordered(order, fresh, sent, queue, Unsent)'
    BY <1>1, <1>4, OrderKept DEF Unsent, pc, history
  <1> QED BY <1>5, <1>6, <1>7, <1>8, <1>9 DEF LinkInv

\* What is not answered has not been acknowledged.
LEMMA NoAnswers ==
    ASSUME NEW u \in Seq(Messages), N(u, Answers) = 0
    PROVE  \A i \in DOMAIN u : u[i].kind # "ACK"
  <1>1. u \in Seq(Messages \ Answers)
    BY CountNone
  <1>2. \A i \in DOMAIN u : u[i] \in Messages \ Answers
    BY <1>1
  <1> QED BY <1>2 DEF Answers

\* The first of the node's queue goes on the air and leaves it.
LEMMA FirstSent ==
    ASSUME LinkInv, sendq # <<>>
    PROVE  /\ Tail(sendq) \in Seq(Packets \union {Beacon}) /\ Len(Tail(sendq)) <= Room
           /\ Tail(sendq) \in Seq({Beacon} \union Owed)
           /\ N(Tail(sendq), Packets) \in Nat
           /\ N(sendq, Packets) = IF Head(sendq) \in Packets THEN N(Tail(sendq), Packets) + 1
                                  ELSE N(Tail(sendq), Packets)
           /\ Head(sendq) = Beacon \/ Head(sendq) \in Packets \intersect Owed
           /\ Beacon \notin Packets
  <1>1. sendq \in Seq(Packets \union {Beacon}) /\ Len(sendq) <= Room /\ sendq \in Seq({Beacon} \union Owed)
    BY DEF LinkInv, Typed, TypeOK, OnTheWay
  <1>2. Tail(sendq) \in Seq(Packets \union {Beacon}) /\ Tail(sendq) \in Seq({Beacon} \union Owed)
    BY <1>1
  <1>3. Len(Tail(sendq)) <= Room
    BY <1>1, LinkAssumption
  <1>4. N(Tail(sendq), Packets) \in Nat
    BY <1>2, CountIs
  <1>5. Beacon \notin Packets
    BY DEF Packets, LinkAssumption
  <1>6. Head(sendq) = Beacon \/ Head(sendq) \in Packets \intersect Owed
    BY HeadsTyped
  <1> QED BY <1>1, <1>2, <1>3, <1>4, <1>5, <1>6, CountTail

\* The PC's packet is transmitted or given up, and answered.
Answered(k) ==
    /\ sendq # <<>> /\ Head(sendq) # Beacon /\ sendq' = Tail(sendq)
    /\ up' = Append(up, Answer(k, Head(sendq)))
    /\ UNCHANGED <<down, events, clicks, queue, waiting, known, lost, buffer, current>>

\* The packet is out as before, now as an answer about the head of the queue.
LEMMA AnswerSent ==
    ASSUME LinkInv, NEW k \in {"ACK", "NACK"}, Answered(k)
    PROVE  /\ Out' = Out /\ Asked' = Asked
           /\ sendq' \in Seq(Packets \union {Beacon}) /\ Len(sendq') <= Room /\ up' \in Seq(Messages)
           /\ Waits' /\ OneRequest' /\ Owed' = Owed
           /\ OnTheWay(Owed)' /\ BuffersIntact' /\ Stale'
           /\ Unsent /\ Head(sendq) = Head(queue) /\ queue # <<>>
           /\ k = "ACK" => ~Unsent'
  <1> DEFINE a == Answer(k, Head(sendq))
  <1>1. /\ Head(sendq) \in Packets \intersect Owed /\ sendq # <<>> /\ sendq' = Tail(sendq)
        /\ UNCHANGED <<down, events, clicks, queue, waiting, known, lost, buffer, current>>
    BY FirstSent DEF Answered
  <1>2. a \in Messages /\ a \in Answers /\ a \notin Ids /\ a.of \in Owed /\ a.kind = k
    BY <1>1, MessagesTyped DEF Frames
  <1> HIDE DEF a
  <1>3. up \in Seq(Messages) /\ up' = Append(up, a)
    BY DEF LinkInv, Typed, Answered, a
  <1>4. N(up', Answers) = N(up, Answers) + 1 /\ N(up', Ids) = N(up, Ids)
    BY <1>2, <1>3, CountAppend
  <1>5. N(sendq, Packets) = N(sendq', Packets) + 1 /\ N(sendq', Packets) \in Nat
    BY <1>1, FirstSent
  <1>6. /\ Out' = N(down, Packets) + N(events, Carriers) + N(sendq', Packets) + (N(up, Answers) + 1)
        /\ Asked' = N(down, {IdRequest}) + N(events, Requests) + N(up, Ids) + clicks
    BY <1>1, <1>4, CountsAfter
  <1>0. /\ N(down, Packets) \in Nat /\ N(events, Carriers) \in Nat
        /\ N(sendq, Packets) \in Nat /\ N(up, Answers) \in Nat
        /\ N(down, {IdRequest}) \in Nat /\ N(events, Requests) \in Nat /\ N(up, Ids) \in Nat
        /\ clicks \in Nat /\ Out \in Nat /\ Asked \in Nat /\ Out <= 1
        /\ Out = N(down, Packets) + N(events, Carriers) + N(sendq, Packets) + N(up, Answers)
        /\ Asked = N(down, {IdRequest}) + N(events, Requests) + N(up, Ids) + clicks
    BY CountsNow
  <1>7. Out' = Out /\ Asked' = Asked /\ Out = 1 /\ N(up, Answers) = 0
    <2>1. Out' = Out /\ Asked' = Asked
      BY <1>0, <1>5, <1>6
    <2>2. N(sendq, Packets) >= 1
      BY <1>5
    <2>3. Out = 1 /\ N(up, Answers) = 0
      <3>1. /\ N(down, Packets) \in Nat /\ N(events, Carriers) \in Nat
            /\ N(sendq, Packets) \in Nat /\ N(up, Answers) \in Nat
            /\ N(down, Packets) + N(events, Carriers) + N(sendq, Packets) + N(up, Answers) <= 1
            /\ Out = N(down, Packets) + N(events, Carriers) + N(sendq, Packets) + N(up, Answers)
        BY <1>0
      <3> QED BY <2>2, <3>1, OneOfFour
    <2> QED BY <2>1, <2>3
  <1>8. Waits' /\ OneRequest' /\ Owed' = Owed
    <2>1. UNCHANGED <<queue, waiting, known, lost>> /\ lost \in BOOLEAN
      BY <1>1 DEF LinkInv, Typed, TypeOK
    <2> QED BY <1>0, <1>7, <2>1, PcKept
  <1>9. up' \in Seq(Messages)
    BY <1>2, <1>3
  <1>10. OnTheWay(Owed)'
    <2>1. up' \in Seq({b \in Messages : b \in Answers => b.of \in Owed})
      BY <1>2, <1>3 DEF LinkInv, OnTheWay
    <2>2. sendq' \in Seq({Beacon} \union Owed)
      BY <1>1, FirstSent
    <2> QED BY <1>1, <1>8, <2>1, <2>2 DEF LinkInv, OnTheWay
  <1>11. BuffersIntact' /\ Stale'
    BY <1>1, CountsAfter, BuffersKept
  <1>12. Unsent
    BY <1>3, <1>7, NoAnswers DEF Unsent
  <1>13. Head(sendq) = Head(queue) /\ queue # <<>>
    BY <1>1 DEF Owed
  <1>14. k = "ACK" => ~Unsent'
    <2>1. Len(up) + 1 \in DOMAIN up' /\ up'[Len(up) + 1] = a
      BY <1>2, <1>3
    <2> QED BY <1>2, <2>1 DEF Unsent
  <1> QED BY <1>1, <1>7, <1>8, <1>9, <1>10, <1>11, <1>12, <1>13, <1>14, FirstSent

\* A beacon leaves the node's queue.
LEMMA BeaconGone ==
    ASSUME LinkInv, sendq # <<>>, Head(sendq) = Beacon, sendq' = Tail(sendq),
           down' = down, up' = up, events' = events, clicks' = clicks, queue' = queue,
           waiting' = waiting, known' = known, lost' = lost, buffer' = buffer, current' = current,
           order' = order, fresh' = fresh, sent' = sent
    PROVE  /\ sendq' \in Seq(Packets \union {Beacon}) /\ Len(sendq') <= Room
           /\ Waits' /\ OneRequest' /\ Owed' = Owed
           /\ OnTheWay(Owed)' /\ BuffersIntact' /\ Stale'
           /\ Ordered(order, fresh, sent, queue, Unsent)'
  <1>1. N(sendq', Packets) = N(sendq, Packets)
    BY FirstSent
  <1>2. Out' = Out /\ Asked' = Asked
    BY <1>1, CountsAfter, CountsNow
  <1>3. Waits' /\ OneRequest' /\ Owed' = Owed
    <2>1. UNCHANGED <<queue, waiting, known, lost>> /\ lost \in BOOLEAN
      BY DEF LinkInv, Typed, TypeOK
    <2>2. Out \in Nat /\ Asked \in Nat
      BY CountsNow
    <2> QED BY <1>2, <2>1, <2>2, PcKept
  <1>4. OnTheWay(Owed)'
    <2>1. sendq' \in Seq({Beacon} \union Owed)
      BY FirstSent
    <2> QED BY <1>3, <2>1 DEF LinkInv, OnTheWay
  <1>5. BuffersIntact' /\ Stale'
    BY CountsAfter, BuffersKept
  <1>6. Ordered(order, fresh, sent, queue, Unsent)'
    BY <1>2, OrderKept DEF Unsent
  <1> QED BY <1>3, <1>4, <1>5, <1>6, FirstSent

\* What is transmitted was the head of the queue, and not transmitted before.
LEMMA StepTransmitted == ASSUME LinkInv, Transmitted PROVE LinkInv'
  <1>1. /\ sendq # <<>> /\ sendq' = Tail(sendq) /\ retries' = 0
        /\ UNCHANGED <<pc, down, buffer, current, events, handling, bounds, order, lost>>
        /\ UNCHANGED <<queue, waiting, known, fresh, clicks>>
    BY DEF Transmitted, pc, bounds
  <1>2. CASE Head(sendq) = Beacon
    <2>1. up' = up /\ sent' = sent
      BY <1>2 DEF Transmitted
    <2>2. /\ sendq' \in Seq(Packets \union {Beacon}) /\ Len(sendq') <= Room
          /\ Waits' /\ OneRequest' /\ OnTheWay(Owed)' /\ BuffersIntact' /\ Stale'
          /\ Ordered(order, fresh, sent, queue, Unsent)'
      BY <1>1, <1>2, <2>1, BeaconGone
    <2>3. Typed'
      BY <1>1, <2>1, <2>2, NothingRetried DEF LinkInv, Typed, TypeOK, pc, bounds
    <2> QED BY <2>2, <2>3 DEF LinkInv
  <1>3. CASE Head(sendq) # Beacon
    <2>1. up' = Append(up, Answer("ACK", Head(sendq))) /\ sent' = Append(sent, Head(sendq))
      BY <1>3 DEF Transmitted
    <2>2. /\ sendq' \in Seq(Packets \union {Beacon}) /\ Len(sendq') <= Room /\ up' \in Seq(Messages)
          /\ Waits' /\ OneRequest' /\ OnTheWay(Owed)' /\ BuffersIntact' /\ Stale'
          /\ Unsent /\ Head(sendq) = Head(queue) /\ queue # <<>> /\ ~Unsent'
      BY <1>1, <1>3, <2>1, AnswerSent DEF Answered
    <2>3. /\ order \in Seq(Packets) /\ sent \in Seq(Packets) /\ queue \in Seq(Packets)
          /\ Head(queue) \in Packets /\ Ordered(order, fresh, sent, queue, TRUE)
      <3>1. queue \in Seq(Packets)
        BY DEF LinkInv, Typed, TypeOK
      <3> QED BY <2>2, <3>1 DEF LinkInv, Typed, Ordered
    <2>4. sent' \in Seq(Packets)
      BY <2>1, <2>2, <2>3
    <2>5. Ordered(order, fresh, sent', queue, FALSE)
      BY <2>1, <2>2, <2>3, OrderedSend
    <2>6. Ordered(order, fresh, sent, queue, Unsent)'
      BY <1>1, <2>2, <2>5 DEF Ordered, Within, Rises
    <2>7. Typed'
      BY <1>1, <2>2, <2>4, NothingRetried DEF LinkInv, Typed, TypeOK, Messages, pc, bounds
    <2> QED BY <2>2, <2>6, <2>7 DEF LinkInv
  <1> QED BY <1>2, <1>3

\* Only the PC's packet may be given up.
LEMMA StepFailed == ASSUME LinkInv, ~BeaconsMayFail, Failed PROVE LinkInv'
  <1>1. /\ sendq # <<>> /\ Head(sendq) # Beacon
        /\ UNCHANGED <<pc, down, buffer, current, events, handling, bounds, history>>
        /\ UNCHANGED <<queue, waiting, known, fresh, clicks, order, sent, lost>>
    BY DEF Failed, pc, bounds, history
  <1>2. CASE retries + 1 = MaxRetransmit
    <2>1. sendq' = Tail(sendq) /\ retries' = 0 /\ up' = Append(up, Answer("NACK", Head(sendq)))
      BY <1>2 DEF Failed
    <2>2. /\ sendq' \in Seq(Packets \union {Beacon}) /\ Len(sendq') <= Room /\ up' \in Seq(Messages)
          /\ Waits' /\ OneRequest' /\ OnTheWay(Owed)' /\ BuffersIntact' /\ Stale' /\ Unsent
      BY <1>1, <2>1, AnswerSent DEF Answered
    <2>3. Ordered(order, fresh, sent, queue, Unsent)'
      BY <1>1, <2>2, OrderKept
    <2>4. Typed'
      BY <1>1, <2>1, <2>2, NothingRetried DEF LinkInv, Typed, TypeOK, Messages, pc, bounds, history
    <2> QED BY <2>2, <2>3, <2>4 DEF LinkInv
  <1>3. CASE retries + 1 # MaxRetransmit
    <2>1. retries' = retries + 1 /\ sendq' = sendq /\ up' = up
      BY <1>3 DEF Failed
    <2>2. retries' \in 0..(MaxRetransmit - 1)
      <3>1. retries \in 0..(MaxRetransmit - 1)
        BY DEF LinkInv, Typed, TypeOK
      <3> QED BY <1>3, <2>1, <3>1, NothingRetried
    <2>3. Out' = Out /\ Asked' = Asked
      BY <1>1, <2>1, CountsAfter, CountsNow
    <2>4. Waits' /\ OneRequest' /\ Owed' = Owed
      <3>1. UNCHANGED <<queue, waiting, known, lost>> /\ lost \in BOOLEAN
        BY <1>1 DEF LinkInv, Typed, TypeOK
      <3> QED BY <2>3, <3>1, PcKept, CountsNow
    <2>5. OnTheWay(Owed)'
      BY <1>1, <2>1, <2>4 DEF LinkInv, OnTheWay
    <2>6. BuffersIntact' /\ Stale'
      BY <1>1, CountsAfter, BuffersKept
    <2>7. Ordered(order, fresh, sent, queue, Unsent)'
      BY <1>1, <2>1, <2>3, OrderKept DEF Unsent
    <2>8. Typed'
      BY <1>1, <2>1, <2>2 DEF LinkInv, Typed, TypeOK, pc, bounds, history
    <2> QED BY <2>4, <2>5, <2>6, <2>7, <2>8 DEF LinkInv
  <1> QED BY <1>2, <1>3

\* The first frame to the PC is taken or lost.
LEMMA FirstFrame ==
    ASSUME LinkInv, up # <<>>
    PROVE  /\ Tail(up) \in Seq(Messages)
           /\ Tail(up) \in Seq({a \in Messages : a \in Answers => a.of \in Owed})
           /\ N(Tail(up), Answers) \in Nat /\ N(Tail(up), Ids) \in Nat
           /\ N(up, Answers) = IF Head(up).kind \in {"ACK", "NACK"} THEN N(Tail(up), Answers) + 1
                               ELSE N(Tail(up), Answers)
           /\ N(up, Ids) = IF Head(up).kind = "ID" THEN N(Tail(up), Ids) + 1 ELSE N(Tail(up), Ids)
           /\ \A i \in DOMAIN up : i = 1 \/ \E j \in DOMAIN Tail(up) : up[i] = Tail(up)[j]
           /\ 1 \in DOMAIN up /\ up[1] = Head(up) /\ Head(up) \in Messages
  <1>1. up \in Seq(Messages) /\ up \in Seq({a \in Messages : a \in Answers => a.of \in Owed})
    BY DEF LinkInv, Typed, OnTheWay
  <1>2. Tail(up) \in Seq(Messages)
    BY <1>1
  <1>3. Tail(up) \in Seq({a \in Messages : a \in Answers => a.of \in Owed})
    BY <1>1
  <1>4. N(Tail(up), Answers) \in Nat /\ N(Tail(up), Ids) \in Nat
    BY <1>2, CountIs
  <1>5. Head(up) \in Messages
    BY <1>1
  <1>6. (Head(up) \in Answers <=> Head(up).kind \in {"ACK", "NACK"}) /\ (Head(up) \in Ids <=> Head(up).kind = "ID")
    BY <1>5 DEF Answers, Ids
  <1>7. N(up, Answers) = IF Head(up) \in Answers THEN N(Tail(up), Answers) + 1 ELSE N(Tail(up), Answers)
    BY <1>1, CountTail
  <1>8. N(up, Ids) = IF Head(up) \in Ids THEN N(Tail(up), Ids) + 1 ELSE N(Tail(up), Ids)
    BY <1>1, CountTail
  <1>9. /\ \A i \in DOMAIN up : i = 1 \/ (i - 1 \in DOMAIN Tail(up) /\ up[i] = Tail(up)[i - 1])
        /\ 1 \in DOMAIN up /\ up[1] = Head(up)
    BY <1>1
  <1> QED BY <1>2, <1>3, <1>4, <1>5, <1>6, <1>7, <1>8, <1>9

\* Whatever is not an acknowledgment changes nothing of what was acknowledged.
LEMMA AckStays ==
    ASSUME LinkInv, up # <<>>, up' = Tail(up), Head(up).kind # "ACK", \A i \in DOMAIN up' : up'[i].kind # "ACK"
    PROVE  \A i \in DOMAIN up : up[i].kind # "ACK"
  BY FirstFrame

\* A lost answer leaves nothing out, and that is recorded.
LEMMA StepLoseAnswer == ASSUME LinkInv, LoseAnswer PROVE LinkInv'
  <1>1. /\ up # <<>> /\ up' = Tail(up) /\ lost' = (lost \/ Head(up).kind \in {"ACK", "NACK"})
        /\ UNCHANGED <<pc, down, node, bounds, sent, order>>
        /\ UNCHANGED <<queue, waiting, known, down, events, buffer, current, sendq, clicks, fresh>>
    BY DEF LoseAnswer, pc, node, bounds
  <1>2. lost \in BOOLEAN /\ lost' \in BOOLEAN /\ (lost => lost')
    BY <1>1 DEF LinkInv, Typed, TypeOK
  <1>3. /\ Out' = N(down, Packets) + N(events, Carriers) + N(sendq, Packets) + N(Tail(up), Answers)
        /\ Asked' = N(down, {IdRequest}) + N(events, Requests) + N(Tail(up), Ids) + clicks
    BY <1>1, CountsAfter
  <1>4. /\ Out' \in Nat /\ Out' <= Out /\ (Out' < Out => Head(up).kind \in {"ACK", "NACK"})
        /\ Asked' \in Nat /\ Asked' <= Asked
        /\ Head(up).kind \in {"ACK", "NACK"} => Out' # 1
    <2>1. N(Tail(up), Answers) \in Nat /\ N(Tail(up), Ids) \in Nat
      BY <1>1, FirstFrame
    <2>2. CASE Head(up).kind \in {"ACK", "NACK"}
      <3>1. N(up, Answers) = N(Tail(up), Answers) + 1 /\ N(up, Ids) = N(Tail(up), Ids)
        BY <1>1, <2>2, FirstFrame
      <3> QED BY <1>3, <2>1, <2>2, <3>1, CountsNow
    <2>3. CASE Head(up).kind \notin {"ACK", "NACK"}
      <3>1. N(up, Answers) = N(Tail(up), Answers)
        BY <1>1, <2>3, FirstFrame
      <3>2. N(up, Ids) = N(Tail(up), Ids) \/ N(up, Ids) = N(Tail(up), Ids) + 1
        BY <1>1, FirstFrame
      <3> QED BY <1>3, <2>1, <2>3, <3>1, <3>2, CountsNow
    <2> QED BY <2>2, <2>3
  <1>5. Typed'
    BY <1>1, <1>2, FirstFrame DEF LinkInv, Typed, TypeOK, Messages, pc, node, bounds
  <1>6. Waits' /\ OneRequest' /\ Owed' = Owed
    BY <1>1, <1>2, <1>4, PcKept
  <1>7. OnTheWay(Owed)'
    BY <1>1, <1>6, FirstFrame DEF LinkInv, OnTheWay
  <1>8. BuffersIntact' /\ Stale'
    BY <1>1, CountsAfter, BuffersKept
  <1>9. Ordered(order, fresh, sent, queue, Unsent)'
    <2>1. Unsent' => Out = 1 /\ Head(up).kind # "ACK"
      BY <1>4, CountsNow DEF Unsent
    <2>2. Unsent' => Unsent
      BY <1>1, <2>1, AckStays DEF Unsent
    <2> QED BY <1>1, <2>2, OrderKept
  <1> QED BY <1>5, <1>6, <1>7, <1>8, <1>9 DEF LinkInv

\* What the node hears is no answer.
LEMMA StepHear == ASSUME LinkInv, NEW p \in Packets, Hear(p) PROVE LinkInv'
  <1> DEFINE a == Answer("RADIO", p)
  <1>1. /\ up' = Append(up, a)
        /\ UNCHANGED <<pc, down, node, bounds, history>>
        /\ UNCHANGED <<queue, waiting, known, events, buffer, current, sendq, clicks, fresh, order, sent, lost>>
    BY DEF Hear, pc, node, bounds, history
  <1>2. a \in Messages /\ a \notin Answers /\ a \notin Ids /\ a.kind = "RADIO"
    BY MessagesTyped DEF Frames
  <1> HIDE DEF a
  <1>3. up \in Seq(Messages) /\ up' \in Seq(Messages)
    BY <1>1, <1>2 DEF LinkInv, Typed
  <1>4. N(up', Answers) = N(up, Answers) /\ N(up', Ids) = N(up, Ids)
    BY <1>1, <1>2, <1>3, CountAppend
  <1>5. Out' = Out /\ Asked' = Asked
    BY <1>1, <1>4, CountsAfter, CountsNow
  <1>6. Typed'
    BY <1>1, <1>3 DEF LinkInv, Typed, TypeOK, Messages, pc, node, bounds, history
  <1>7. Waits' /\ OneRequest' /\ Owed' = Owed
    <2>1. UNCHANGED <<queue, waiting, known, lost>> /\ lost \in BOOLEAN
      BY <1>1 DEF LinkInv, Typed, TypeOK
    <2> QED BY <1>5, <2>1, PcKept, CountsNow
  <1>8. OnTheWay(Owed)'
    <2>1. up' \in Seq({b \in Messages : b \in Answers => b.of \in Owed})
      BY <1>1, <1>2 DEF LinkInv, OnTheWay
    <2> QED BY <1>1, <1>7, <2>1 DEF LinkInv, OnTheWay
  <1>9. BuffersIntact' /\ Stale'
    BY <1>1, CountsAfter, BuffersKept
  <1>10. Ordered(order, fresh, sent, queue, Unsent)'
    <2>1. Unsent' => Unsent
      <3>1. \A i \in DOMAIN up : i \in DOMAIN up' /\ up'[i] = up[i]
        BY <1>1, <1>3
      <3> QED BY <1>5, <3>1 DEF Unsent
    <2> QED BY <1>1, <2>1, OrderKept
  <1> QED BY <1>6, <1>7, <1>8, <1>9, <1>10 DEF LinkInv

\* One click at most, and the timer asks only when nothing it asked is left.
LEMMA StepRequestId == ASSUME LinkInv, RequestId PROVE LinkInv'
  <1>1. /\ down' = Append(down, IdRequest)
        /\ UNCHANGED <<pc, up, node, fresh, beacons, history>>
        /\ UNCHANGED <<queue, waiting, known, events, buffer, current, sendq, order, sent, lost>>
    BY DEF RequestId, pc, node, history
  <1>2. down \in Seq(Frames) /\ IdRequest \in Frames /\ IdRequest \notin Packets
    BY DEF LinkInv, Typed, TypeOK, Frames, Packets, LinkAssumption
  <1>3. N(down', Packets) = N(down, Packets) /\ N(down', {IdRequest}) = N(down, {IdRequest}) + 1
    BY <1>1, <1>2, CountAppend
  <1>4. Out' = Out
    BY <1>1, <1>3, CountsAfter, CountsNow
  <1>5. Asked' = N(down, {IdRequest}) + 1 + N(events, Requests) + N(up, Ids) + clicks'
    BY <1>1, <1>3, CountsAfter
  <1>6. \/ clicks' \in 0..1 /\ clicks' + 1 = clicks
        \/ /\ ~known /\ clicks' = clicks /\ N(down, {IdRequest}) = 0 /\ N(events, Requests) = 0 /\ N(up, Ids) = 0
    <2>1. CASE clicks > 0 /\ clicks' = clicks - 1
      BY <2>1 DEF LinkInv, Typed
    <2>2. CASE /\ ~known /\ clicks' = clicks
               /\ IdRequest \notin ToSet(down) \union {e.frame : e \in ToSet(events)}
               /\ \A i \in DOMAIN up : up[i].kind # "ID"
      <3>1. {i \in DOMAIN down : down[i] \in {IdRequest}} = {}
        BY <2>2 DEF ToSet
      <3>2. {i \in DOMAIN events : events[i] \in Requests} = {}
        BY <2>2 DEF ToSet, Requests
      <3>3. {i \in DOMAIN up : up[i] \in Ids} = {}
        BY <2>2 DEF Ids
      <3> QED BY <2>2, <3>1, <3>2, <3>3, FS_EmptySet DEF N
    <2> QED BY <2>1, <2>2 DEF RequestId
  <1>7. OneRequest'
    <2>1. CASE clicks' + 1 = clicks
      <3>1. Asked' = Asked
        <4>1. clicks' \in Nat
          BY <1>6, CountsNow
        <4> QED BY <1>5, <2>1, <4>1, CountsNow
      <3> QED BY <1>1, <3>1 DEF LinkInv, OneRequest
    <2>2. CASE /\ ~known /\ clicks' = clicks /\ N(down, {IdRequest}) = 0 /\ N(events, Requests) = 0
               /\ N(up, Ids) = 0
      <3>1. clicks \in 0..1
        BY DEF LinkInv, Typed
      <3>2. Asked' <= 2
        BY <1>5, <2>2, <3>1
      <3> QED BY <1>1, <2>2, <3>2 DEF OneRequest
    <2> QED BY <1>6, <2>1, <2>2
  <1>8. clicks' \in 0..1 /\ down' \in Seq(Frames)
    BY <1>1, <1>2, <1>6 DEF LinkInv, Typed
  <1>9. Typed'
    BY <1>1, <1>8 DEF LinkInv, Typed, TypeOK, pc, node, history
  <1>10. Waits' /\ Owed' = Owed
    BY <1>1, <1>4 DEF LinkInv, Waits, Owed
  <1>11. OnTheWay(Owed)'
    <2>1. down' \in Seq({IdRequest} \union Owed)
      BY <1>1 DEF LinkInv, OnTheWay
    <2> QED BY <1>1, <1>10, <2>1 DEF LinkInv, OnTheWay
  <1>12. BuffersIntact'
    BY <1>1 DEF LinkInv, BuffersIntact
  <1>13. Stale'
    <2>1. CASE clicks' + 1 = clicks
      <3>1. N(down', {IdRequest}) + clicks' = N(down, {IdRequest}) + clicks
        BY <1>3, <1>8, <2>1, CountsNow, SMTT(30)
      <3> QED BY <1>1, <3>1, CountsAfter, BuffersKept
    <2>2. CASE ~known
      <3>1. N(events, Carriers) = 0
        <4>1. Out = 0
          BY <2>2 DEF LinkInv, Waits
        <4> QED BY <4>1, CountsNow
      <3>2. events \in Seq(Posted \ Carriers)
        BY <3>1, CountNone DEF LinkInv, Typed
      <3>3. \A i \in DOMAIN events : events[i].ev # "continue" => events[i].frame \notin Packets
        BY <3>2 DEF Carriers
      <3> QED BY <1>1, <3>3 DEF LinkInv, Stale
    <2> QED BY <1>6, <2>1, <2>2
  <1>14. Ordered(order, fresh, sent, queue, Unsent)'
    BY <1>1, <1>4, OrderKept DEF Unsent
  <1> QED BY <1>7, <1>9, <1>10, <1>11, <1>12, <1>13, <1>14 DEF LinkInv

\* The answer to a request leaves one request less.
LEMMA StepReceiveId == ASSUME LinkInv, ReceiveId PROVE LinkInv'
  <1>1. /\ up # <<>> /\ Head(up).kind = "ID" /\ up' = Tail(up) /\ known' = TRUE
        /\ UNCHANGED <<queue, waiting, noacks, failures, stray, down, node, bounds, history>>
        /\ UNCHANGED <<events, buffer, current, sendq, clicks, fresh, order, sent, lost>>
    BY DEF ReceiveId, node, bounds, history
  <1>2. /\ N(up, Answers) = N(up', Answers) /\ N(up, Ids) = N(up', Ids) + 1
        /\ N(up', Ids) \in Nat /\ up' \in Seq(Messages)
    BY <1>1, FirstFrame
  <1>3. Out' = Out /\ Asked' + 1 = Asked
    <2>1. /\ Out' = N(down, Packets) + N(events, Carriers) + N(sendq, Packets) + N(up', Answers)
          /\ Asked' = N(down, {IdRequest}) + N(events, Requests) + N(up', Ids) + clicks
      BY <1>1, CountsAfter
    <2>2. N(up', Ids) \in Nat /\ N(up, Answers) = N(up', Answers) /\ N(up, Ids) = N(up', Ids) + 1
      BY <1>2
    <2>3. Out' = Out
      BY <2>1, <2>2, CountsNow
    <2>4. Asked' + 1 = Asked
      BY <2>1, <2>2, CountsNow
    <2> QED BY <2>3, <2>4
  <1>4. Typed'
    BY <1>1, <1>2 DEF LinkInv, Typed, TypeOK, Messages, node, bounds, history
  <1>5. Waits' /\ Owed' = Owed
    BY <1>1, <1>3 DEF LinkInv, Waits, Owed
  <1>6. OneRequest'
    <2>1. Asked <= 2 /\ Asked \in Nat
      BY CountsNow DEF LinkInv, OneRequest
    <2>2. Asked' \in Nat
      <3>1. N(down, {IdRequest}) + N(events, Requests) + N(up', Ids) + clicks \in Nat
        BY <1>2, CountsNow, SumOfFour
      <3> QED BY <1>1, <3>1, CountsAfter
    <2>3. Asked' <= 1
      BY <1>3, <2>1, <2>2, OneLess
    <2> QED BY <1>1, <2>3 DEF OneRequest
  <1>7. OnTheWay(Owed)'
    BY <1>1, <1>5, FirstFrame DEF LinkInv, OnTheWay
  <1>8. BuffersIntact' /\ Stale'
    BY <1>1, CountsAfter, BuffersKept
  <1>9. Ordered(order, fresh, sent, queue, Unsent)'
    <2>1. Unsent' => Unsent
      BY <1>1, <1>3, AckStays DEF Unsent
    <2> QED BY <1>1, <2>1, OrderKept
  <1> QED BY <1>4, <1>5, <1>6, <1>7, <1>8, <1>9 DEF LinkInv

-----------------------------------------------------------------------------
(* The steps of the PC *)

\* The first packet of q that has a next hop is sent, when no packet is out.
SendsFrom(q) ==
    /\ SendDown(q, FALSE)
    /\ known' = known /\ events' = events /\ buffer' = buffer /\ current' = current
    /\ sendq' = sendq /\ clicks' = clicks /\ lost' = lost

\* Then one packet is out, the head of the queue, and the queue is the end of q.
LEMMA SendsNext ==
    ASSUME LinkInv, known, NEW q \in Seq(Packets), Len(q) <= SendCapacity, SendsFrom(q),
           up' \in Seq(Messages), N(up', Answers) = 0, N(up', Ids) <= N(up, Ids),
           N(down, Packets) = 0, N(events, Carriers) = 0, N(sendq, Packets) = 0
    PROVE  /\ queue' \in Seq(Packets) /\ Len(queue') <= SendCapacity
           /\ waiting' \in BOOLEAN /\ down' \in Seq(Frames)
           /\ Waits' /\ OneRequest' /\ OnTheWay(Owed)' /\ BuffersIntact' /\ Stale'
           /\ \E d \in Nat : /\ Len(queue') + d <= Len(q)
                             /\ \A i \in DOMAIN queue' : queue'[i] = q[i + d]
  <1> DEFINE r == Routed(q)
  <1>1. /\ queue' = r /\ waiting' = (r # <<>>)
        /\ down' = IF r = <<>> THEN down ELSE Append(down, Head(r))
        /\ known' = known /\ events' = events /\ buffer' = buffer /\ current' = current
        /\ sendq' = sendq /\ clicks' = clicks /\ lost' = lost
    BY DEF SendsFrom, SendDown
  <1>2. /\ r \in Seq(Packets)
        /\ \E d \in Nat : /\ Len(r) + d <= Len(q)
                          /\ \A i \in DOMAIN r : r[i] = q[i + d]
    BY RoutedSuffix
  <1> HIDE DEF r
  <1>3. Len(r) <= SendCapacity
    <2>1. PICK d \in Nat : Len(r) + d <= Len(q)
      BY <1>2
    <2>2. Len(r) \in Nat /\ Len(q) \in Nat /\ SendCapacity \in Nat
      BY <1>2, LinkAssumption
    <2> QED BY <2>1, <2>2
  <1>4. down \in Seq(Frames) /\ IdRequest \notin Packets /\ Packets \subseteq Frames
    BY DEF LinkInv, Typed, TypeOK, Frames, Packets, LinkAssumption
  <1>5. r # <<>> => Head(r) \in Packets
    BY <1>2
  <1>6. /\ down' \in Seq(Frames) /\ N(down', {IdRequest}) = N(down, {IdRequest})
        /\ N(down', Packets) = IF r = <<>> THEN 0 ELSE 1
    <2>1. CASE r = <<>>
      BY <1>1, <1>4, <2>1
    <2>2. CASE r # <<>>
      <3>1. down' = Append(down, Head(r)) /\ Head(r) \in Packets /\ Head(r) \in Frames /\ Head(r) \notin {IdRequest}
        BY <1>1, <1>4, <1>5, <2>2
      <3>2. N(down', {IdRequest}) = N(down, {IdRequest}) /\ N(down', Packets) = N(down, Packets) + 1
        BY <1>4, <3>1, CountAppend
      <3>3. down' \in Seq(Frames)
        BY <1>4, <3>1
      <3> QED BY <2>2, <3>2, <3>3
    <2> QED BY <2>1, <2>2
  <1>7. Out' = IF r = <<>> THEN 0 ELSE 1
    <2>1. Out' = N(down', Packets) + 0 + 0 + 0
      BY <1>1, CountsAfter
    <2> QED BY <1>6, <2>1
  <1>8. Waits'
    <2>1. CASE r = <<>>
      <3>1. Out' <= 1 /\ Out' = 0
        BY <1>7, <2>1
      <3> QED BY <1>1, <2>1, <3>1, Zenon DEF Waits
    <2>2. CASE r # <<>>
      <3>1. Out' <= 1 /\ Out' = 1
        BY <1>7, <2>2
      <3> QED BY <1>1, <2>2, <3>1, Zenon DEF Waits
    <2> QED BY <2>1, <2>2
  <1>9. OneRequest'
    <2>1. Asked' = N(down, {IdRequest}) + N(events, Requests) + N(up', Ids) + clicks
      BY <1>1, <1>6, CountsAfter
    <2>2. N(up', Ids) \in Nat
      BY CountIs
    <2>3. Asked' <= Asked /\ Asked \in Nat /\ Asked' \in Nat
      <3>1. /\ N(down, {IdRequest}) \in Nat /\ N(events, Requests) \in Nat /\ N(up, Ids) \in Nat
            /\ clicks \in Nat /\ Asked \in Nat
            /\ Asked = N(down, {IdRequest}) + N(events, Requests) + N(up, Ids) + clicks
        BY CountsNow
      <3>2. N(up', Ids) <= N(up, Ids)
        OBVIOUS
      <3> QED BY <2>1, <2>2, <3>1, <3>2, SumsCompared
    <2> QED BY <1>1, <2>3 DEF LinkInv, OneRequest
  <1>10. OnTheWay(Owed)'
    <2>1. N(up, Answers) \in Nat /\ Owed' = IF r = <<>> THEN {} ELSE {Head(r)}
      BY <1>1, CountsNow DEF Owed
    <2>2. down \in Seq({IdRequest})
      <3>1. down \in Seq(Frames \ Packets)
        BY <1>4, CountNone
      <3> QED BY <3>1 DEF Frames
    <2>3. down' \in Seq({IdRequest} \union Owed')
      BY <1>1, <2>1, <2>2
    <2>4. events' \in Seq({e \in Posted : e \in Carriers => e.frame \in Owed'})
      <3>1. events \in Seq(Posted \ Carriers)
        BY CountNone DEF LinkInv, Typed
      <3> QED BY <1>1, <3>1
    <2>5. sendq' \in Seq({Beacon} \union Owed')
      <3>1. sendq \in Seq((Packets \union {Beacon}) \ Packets)
        BY CountNone DEF LinkInv, Typed, TypeOK
      <3> QED BY <1>1, <3>1
    <2>6. up' \in Seq({a \in Messages : a \in Answers => a.of \in Owed'})
      <3>1. up' \in Seq(Messages \ Answers)
        BY CountNone
      <3> QED BY <3>1
    <2> QED BY <2>3, <2>4, <2>5, <2>6 DEF OnTheWay, Carriers, Answers, Posted, Messages, Packets, Frames
  <1>11. BuffersIntact' /\ Stale'
    BY <1>1, <1>6, CountsAfter, BuffersKept
  <1> QED BY <1>1, <1>2, <1>3, <1>6, <1>8, <1>9, <1>10, <1>11

\* Answers are taken off the line when one is there: nothing else is out.
LEMMA AnswerTaken ==
    ASSUME LinkInv, up # <<>>, Head(up).kind \in {"ACK", "NACK"}
    PROVE  /\ Tail(up) \in Seq(Messages) /\ N(Tail(up), Answers) = 0 /\ N(Tail(up), Ids) <= N(up, Ids)
           /\ N(down, Packets) = 0 /\ N(events, Carriers) = 0 /\ N(sendq, Packets) = 0
           /\ Out = 1 /\ known /\ queue # <<>> /\ queue \in Seq(Packets) /\ Len(queue) <= SendCapacity
  <1>1. N(up, Answers) = N(Tail(up), Answers) + 1 /\ N(Tail(up), Answers) \in Nat /\ Tail(up) \in Seq(Messages)
    BY FirstFrame
  <1>2. N(Tail(up), Ids) \in Nat /\ (N(up, Ids) = N(Tail(up), Ids) \/ N(up, Ids) = N(Tail(up), Ids) + 1)
    BY FirstFrame
  <1>3. N(up, Answers) >= 1
    BY <1>1
  <1>4. /\ N(down, Packets) = 0 /\ N(events, Carriers) = 0 /\ N(sendq, Packets) = 0
        /\ N(up, Answers) = 1 /\ Out = 1
    <2>1. /\ N(down, Packets) \in Nat /\ N(events, Carriers) \in Nat
          /\ N(sendq, Packets) \in Nat /\ N(up, Answers) \in Nat
          /\ N(down, Packets) + N(events, Carriers) + N(sendq, Packets) + N(up, Answers) <= 1
          /\ Out = N(down, Packets) + N(events, Carriers) + N(sendq, Packets) + N(up, Answers)
      BY CountsNow
    <2> HIDE DEF N
    <2> QED BY <1>3, <2>1, LastOfFour
  <1>5. known /\ queue # <<>>
    BY <1>4 DEF LinkInv, Waits
  <1>6. queue \in Seq(Packets) /\ Len(queue) <= SendCapacity
    BY DEF LinkInv, Typed, TypeOK
  <1> QED BY <1>1, <1>2, <1>4, <1>5, <1>6

\* The rest of the queue is sent in its order.
LEMMA RestOrdered ==
    ASSUME LinkInv, NEW q \in Seq(Packets), Ordered(order, fresh, sent, q, TRUE), queue' \in Seq(Packets),
           \E d \in Nat : /\ Len(queue') + d <= Len(q)
                          /\ \A i \in DOMAIN queue' : queue'[i] = q[i + d],
           order' = order, fresh' = fresh, sent' = sent
    PROVE  Ordered(order, fresh, sent, queue, Unsent)'
  <1>1. PICK d \in Nat : /\ Len(queue') + d <= Len(q)
                         /\ \A i \in DOMAIN queue' : queue'[i] = q[i + d]
    OBVIOUS
  <1>2. order \in Seq(Packets) /\ sent \in Seq(Packets)
    BY DEF LinkInv, Typed
  <1>3. Ordered(order, fresh, sent, queue', TRUE \/ d > 0)
    BY <1>1, <1>2, OrderedSuffix
  <1> QED BY <1>3 DEF Ordered, Within, Rises

\* Without its head, the queue holds what was not transmitted.
LEMMA TailOrdered ==
    ASSUME LinkInv, queue # <<>>
    PROVE  /\ Tail(queue) \in Seq(Packets) /\ Len(Tail(queue)) <= SendCapacity
           /\ Ordered(order, fresh, sent, Tail(queue), TRUE)
  <1>1. queue \in Seq(Packets) /\ Len(queue) <= SendCapacity
    BY DEF LinkInv, Typed, TypeOK
  <1>2. /\ Tail(queue) \in Seq(Packets) /\ Len(Tail(queue)) + 1 <= Len(queue)
        /\ \A i \in DOMAIN Tail(queue) : Tail(queue)[i] = queue[i + 1]
    BY <1>1
  <1>3. Len(Tail(queue)) <= SendCapacity
    BY <1>1, LinkAssumption
  <1>4. PICK b \in BOOLEAN : Ordered(order, fresh, sent, queue, b)
    <2>1. Unsent \in BOOLEAN
      BY DEF Unsent
    <2>2. Ordered(order, fresh, sent, queue, Unsent)
      BY DEF LinkInv
    <2> QED BY <2>1, <2>2
  <1>5. order \in Seq(Packets) /\ sent \in Seq(Packets)
    BY DEF LinkInv, Typed
  <1>6. Ordered(order, fresh, sent, Tail(queue), TRUE)
    <2> DEFINE r == Tail(queue)
    <2>1. PICK d \in Nat : d = 1
      OBVIOUS
    <2>2. /\ r \in Seq(Packets) /\ Len(r) + d <= Len(queue)
          /\ \A i \in DOMAIN r : r[i] = queue[i + d]
      BY <1>2, <2>1
    <2> HIDE DEF r
    <2>3. Ordered(order, fresh, sent, r, b \/ d > 0)
      BY <1>1, <1>4, <1>5, <2>2, OrderedSuffix
    <2>4. d > 0
      BY <2>1
    <2>5. Ordered(order, fresh, sent, r, TRUE)
      BY <2>3, <2>4 DEF Ordered
    <2> QED BY <2>5 DEF r
  <1> QED BY <1>2, <1>3, <1>6

\* The head was transmitted: the queue goes on behind it.
LEMMA StepReceiveAck == ASSUME LinkInv, ReceiveAck PROVE LinkInv'
  <1>1. /\ up # <<>> /\ Head(up).kind = "ACK" /\ up' = Tail(up) /\ failures' = 0
        /\ stray' = (stray \/ queue = <<>>) /\ SendDown(Dequeued, FALSE)
        /\ UNCHANGED <<noacks, known, node, bounds, history>>
    BY DEF ReceiveAck
  <1>2. Out = 1 /\ known /\ queue # <<>> /\ Tail(queue) \in Seq(Packets) /\ Len(Tail(queue)) <= SendCapacity
    BY <1>1, AnswerTaken, TailOrdered
  <1>3. SendsFrom(Tail(queue))
    BY <1>1, <1>2 DEF SendsFrom, Dequeued, node, bounds, history
  <1>4. /\ queue' \in Seq(Packets) /\ Len(queue') <= SendCapacity
        /\ waiting' \in BOOLEAN /\ down' \in Seq(Frames)
        /\ Waits' /\ OneRequest' /\ OnTheWay(Owed)' /\ BuffersIntact' /\ Stale'
        /\ \E d \in Nat : /\ Len(queue') + d <= Len(Tail(queue))
                          /\ \A i \in DOMAIN queue' : queue'[i] = Tail(queue)[i + d]
    BY <1>1, <1>2, <1>3, AnswerTaken, SendsNext
  <1>5. Ordered(order, fresh, sent, queue, Unsent)'
    <2>1. order' = order /\ fresh' = fresh /\ sent' = sent
      BY <1>1 DEF bounds, history
    <2> QED BY <1>2, <1>4, <2>1, TailOrdered, RestOrdered
  <1>6. up' \in Seq(Messages) /\ stray' \in BOOLEAN
    BY <1>1, FirstFrame DEF LinkInv, Typed, TypeOK
  <1>7. Typed'
    BY <1>1, <1>4, <1>6 DEF LinkInv, Typed, TypeOK, Messages, node, bounds, history
  <1> QED BY <1>4, <1>5, <1>7 DEF LinkInv

\* The head was not transmitted: it is sent again, or dropped.
LEMMA StepReceiveNack == ASSUME LinkInv, ReceiveNack PROVE LinkInv'
  <1> DEFINE q == IF noacks + 1 = MaxNack THEN Tail(queue) ELSE queue
  <1>1. /\ up # <<>> /\ Head(up).kind = "NACK" /\ up' = Tail(up)
        /\ UNCHANGED <<known, node, bounds, history>>
    BY DEF ReceiveNack
  <1>2. /\ N(Tail(up), Answers) = 0 /\ Out = 1 /\ known /\ queue # <<>>
        /\ queue \in Seq(Packets) /\ Len(queue) <= SendCapacity
    BY <1>1, AnswerTaken
  <1>3. /\ SendDown(q, FALSE) /\ noacks' \in 0..(MaxNack - 1)
        /\ stray' \in {stray, stray \/ queue = <<>>}
    <2>1. noacks \in 0..(MaxNack - 1) /\ MaxNack \in Nat \ {0}
      BY LinkAssumption DEF LinkInv, Typed, TypeOK
    <2>2. CASE noacks + 1 = MaxNack
      <3>1. noacks' = 0 /\ stray' = (stray \/ queue = <<>>) /\ SendDown(Dequeued, FALSE)
        BY <2>2 DEF ReceiveNack
      <3>2. Dequeued = q
        BY <1>2, <2>2 DEF Dequeued
      <3>3. 0 \in 0..(MaxNack - 1)
        BY <2>1
      <3> QED BY <3>1, <3>2, <3>3
    <2>3. CASE noacks + 1 # MaxNack
      <3>1. noacks' = noacks + 1 /\ stray' = stray /\ SendDown(queue, FALSE)
        BY <2>3 DEF ReceiveNack
      <3>2. noacks' \in 0..(MaxNack - 1)
        BY <2>1, <2>3, <3>1
      <3> QED BY <2>3, <3>1, <3>2
    <2> QED BY <2>2, <2>3
  <1>4. SendsFrom(q)
    BY <1>1, <1>3 DEF SendsFrom, node, bounds, history
  <1>5. Unsent
    <2>1. Tail(up) \in Seq(Messages)
      BY <1>1, FirstFrame
    <2>2. \A i \in DOMAIN Tail(up) : Tail(up)[i].kind # "ACK"
      BY <1>2, <2>1, NoAnswers
    <2>3. \A i \in DOMAIN up : up[i].kind # "ACK"
      BY <1>1, <2>2, FirstFrame
    <2> QED BY <1>2, <2>3 DEF Unsent
  <1>6. q \in Seq(Packets) /\ Len(q) <= SendCapacity /\ Ordered(order, fresh, sent, q, TRUE)
    <2>1. Ordered(order, fresh, sent, queue, TRUE)
      BY <1>5 DEF LinkInv, Ordered
    <2> QED BY <1>2, <2>1, TailOrdered
  <1> HIDE DEF q
  <1>7. /\ queue' \in Seq(Packets) /\ Len(queue') <= SendCapacity
        /\ waiting' \in BOOLEAN /\ down' \in Seq(Frames)
        /\ Waits' /\ OneRequest' /\ OnTheWay(Owed)' /\ BuffersIntact' /\ Stale'
        /\ \E d \in Nat : /\ Len(queue') + d <= Len(q)
                          /\ \A i \in DOMAIN queue' : queue'[i] = q[i + d]
    BY <1>1, <1>2, <1>4, <1>6, AnswerTaken, SendsNext
  <1>8. Ordered(order, fresh, sent, queue, Unsent)'
    <2>1. order' = order /\ fresh' = fresh /\ sent' = sent
      BY <1>1 DEF bounds, history
    <2> QED BY <1>6, <1>7, <2>1, RestOrdered
  <1>9. up' \in Seq(Messages) /\ stray' \in BOOLEAN
    BY <1>1, <1>3, FirstFrame DEF LinkInv, Typed, TypeOK
  <1>10. Typed'
    BY <1>1, <1>3, <1>7, <1>9 DEF LinkInv, Typed, TypeOK, Messages, node, bounds, history
  <1> QED BY <1>7, <1>8, <1>10 DEF LinkInv

\* What the PC does with a packet, whether its timer or a packet asked for it
Enqueues(p) ==
    /\ known /\ p \in fresh /\ Enqueue(p)
    /\ noacks' = noacks /\ known' = known /\ failures' = failures /\ stray' = stray
    /\ node' = node /\ beacons' = beacons /\ clicks' = clicks /\ sent' = sent /\ lost' = lost

\* The line to the PC carries the same answers as before.
SameAnswers ==
    /\ up' \in Seq(Messages) /\ up' \in Seq({a \in Messages : a \in Answers => a.of \in Owed})
    /\ N(up', Answers) = N(up, Answers) /\ N(up', Ids) = N(up, Ids)
    /\ (\A i \in DOMAIN up' : up'[i].kind # "ACK") => (\A i \in DOMAIN up : up[i].kind # "ACK")

\* A packet joins the end of the queue, is sent at once if nothing is out, or is
\* dropped.
LEMMA StepEnqueue == ASSUME LinkInv, NEW p, Enqueues(p), SameAnswers PROVE LinkInv'
  <1>1. /\ known /\ p \in fresh /\ fresh' = fresh \ {p} /\ node' = node
        /\ noacks' = noacks /\ known' = known /\ failures' = failures /\ stray' = stray
        /\ buffer' = buffer /\ current' = current /\ events' = events /\ handling' = handling
        /\ sendq' = sendq /\ retries' = retries
        /\ beacons' = beacons /\ clicks' = clicks /\ sent' = sent /\ lost' = lost
    BY DEF Enqueues, Enqueue, node
  <1>2. /\ order \in Seq(Packets) /\ sent \in Seq(Packets) /\ fresh \in SUBSET Packets
        /\ queue \in Seq(Packets) /\ Len(queue) <= SendCapacity /\ p \in Packets /\ lost \in BOOLEAN
    BY <1>1 DEF LinkInv, Typed, TypeOK
  <1>3. PICK b \in BOOLEAN : b = Unsent /\ Ordered(order, fresh, sent, queue, b)
    <2>1. Unsent \in BOOLEAN
      BY DEF Unsent
    <2>2. Ordered(order, fresh, sent, queue, Unsent)
      BY DEF LinkInv
    <2> QED BY <2>1, <2>2
  <1>4. /\ up' \in Seq(Messages) /\ up' \in Seq({a \in Messages : a \in Answers => a.of \in Owed})
        /\ N(up', Answers) = N(up, Answers) /\ N(up', Ids) = N(up, Ids)
        /\ (\A i \in DOMAIN up' : up'[i].kind # "ACK") => (\A i \in DOMAIN up : up[i].kind # "ACK")
    BY DEF SameAnswers
  <1>5. SendCapacity \in Nat
    BY LinkAssumption
  <1>6. CASE Len(queue) >= SendCapacity
    <2>1. queue' = queue /\ waiting' = waiting /\ down' = down /\ order' = order
      BY <1>1, <1>2, <1>5, <1>6 DEF Enqueues, Enqueue
    <2>2. Out' = Out /\ Asked' = Asked
      BY <1>1, <1>4, <2>1, CountsAfter, CountsNow
    <2>3. Waits' /\ OneRequest' /\ Owed' = Owed
      <3>1. UNCHANGED <<queue, waiting, known, lost>> /\ lost \in BOOLEAN
        BY <1>1, <1>2, <2>1
      <3>2. Out \in Nat /\ Asked \in Nat
        BY CountsNow
      <3> QED BY <2>2, <3>1, <3>2, PcKept
    <2>4. OnTheWay(Owed)'
      BY <1>1, <1>4, <2>1, <2>3 DEF LinkInv, OnTheWay
    <2>5. BuffersIntact' /\ Stale'
      BY <1>1, <2>1, CountsAfter, BuffersKept
    <2>6. Unsent' => b
      BY <1>3, <1>4, <2>2 DEF Unsent
    <2>7. Ordered(order, fresh, sent, queue, Unsent)'
      BY <1>1, <1>3, <2>1, <2>6 DEF Ordered, Within, Rises
    <2>8. Typed'
      BY <1>1, <1>2, <1>4, <2>1 DEF LinkInv, Typed, TypeOK, Messages
    <2> QED BY <2>3, <2>4, <2>5, <2>7, <2>8 DEF LinkInv
  <1>7. CASE Len(queue) < SendCapacity
    <2> DEFINE q == Append(queue, p)
    <2>1. SendDown(q, waiting) /\ order' = Append(order, p)
      BY <1>1, <1>7 DEF Enqueues, Enqueue
    <2>2. q \in Seq(Packets) /\ Len(q) <= SendCapacity
      BY <1>2, <1>5, <1>7
    <2>3. Ordered(order', fresh', sent, q, b)
      BY <1>1, <1>2, <1>3, <2>1, OrderedEnqueue, SMTT(30)
    <2>4. order' \in Seq(Packets) /\ fresh' \in SUBSET Packets
      BY <1>1, <1>2, <2>1
    <2>5. CASE waiting
      <3>1. queue' = q /\ waiting' = waiting /\ down' = down
        BY <2>1, <2>5 DEF SendDown
      <3>2. queue # <<>> /\ queue' # <<>> /\ Owed' = Owed
        <4>1. queue # <<>>
          BY <2>5 DEF LinkInv, Waits
        <4>2. q # <<>> /\ Head(q) = Head(queue)
          <5>1. queue \in Seq(Packets) /\ p \in Packets
            BY <1>2
          <5> QED BY <4>1, <5>1
        <4> HIDE DEF q
        <4> QED BY <3>1, <4>1, <4>2 DEF Owed
      <3>3. Out' = Out /\ Asked' = Asked
        BY <1>1, <1>4, <3>1, CountsAfter, CountsNow
      <3>4. Waits' /\ OneRequest'
        BY <1>1, <2>5, <3>1, <3>2, <3>3 DEF LinkInv, Waits, OneRequest
      <3>5. OnTheWay(Owed)'
        BY <1>1, <1>4, <3>1, <3>2 DEF LinkInv, OnTheWay
      <3>6. BuffersIntact' /\ Stale'
        BY <1>1, <3>1, CountsAfter, BuffersKept
      <3>7. Unsent' => b
        BY <1>3, <1>4, <3>3 DEF Unsent
      <3>8. Ordered(order, fresh, sent, queue, Unsent)'
        <4> HIDE DEF q
        <4> QED BY <1>1, <2>3, <3>1, <3>7 DEF Ordered, Within, Rises
      <3>9. Typed'
        <4> HIDE DEF q
        <4> QED BY <1>1, <1>2, <1>4, <2>2, <2>4, <3>1 DEF LinkInv, Typed, TypeOK, Messages
      <3> QED BY <3>4, <3>5, <3>6, <3>8, <3>9 DEF LinkInv
    <2>6. CASE ~waiting
      <3>1. SendDown(q, FALSE)
        BY <2>1, <2>6 DEF SendDown
      <3>2. SendsFrom(q)
        <4> HIDE DEF q
        <4> QED BY <1>1, <3>1 DEF SendsFrom
      <3>3. Out = 0 /\ queue = <<>>
        BY <2>6 DEF LinkInv, Waits
      <3>4. N(down, Packets) = 0 /\ N(events, Carriers) = 0 /\ N(sendq, Packets) = 0 /\ N(up, Answers) = 0
        <4>1. /\ N(down, Packets) \in Nat /\ N(events, Carriers) \in Nat
              /\ N(sendq, Packets) \in Nat /\ N(up, Answers) \in Nat
              /\ N(down, Packets) + N(events, Carriers) + N(sendq, Packets) + N(up, Answers) = 0
          BY <3>3, CountsNow
        <4> QED BY <4>1, NoneOfFour
      <3>5. N(up', Ids) <= N(up, Ids)
        BY <1>4, CountsNow
      <3>6. /\ queue' \in Seq(Packets) /\ Len(queue') <= SendCapacity
            /\ waiting' \in BOOLEAN /\ down' \in Seq(Frames)
            /\ Waits' /\ OneRequest' /\ OnTheWay(Owed)' /\ BuffersIntact' /\ Stale'
            /\ \E d \in Nat : /\ Len(queue') + d <= Len(q)
                              /\ \A i \in DOMAIN queue' : queue'[i] = q[i + d]
        <4> HIDE DEF q
        <4> QED BY <1>1, <1>4, <2>2, <3>2, <3>4, <3>5, SendsNext
      <3>7. Ordered(order, fresh, sent, <<>>, TRUE)
        BY <1>3, <3>3 DEF Ordered, Within, Rises
      <3>8. Ordered(order', fresh', sent, q, TRUE)
        BY <1>1, <1>2, <2>1, <3>3, <3>7, OrderedEnqueue
      <3>9. Ordered(order, fresh, sent, queue, Unsent)'
        <4> HIDE DEF q
        <4>1. PICK d \in Nat : /\ Len(queue') + d <= Len(q)
                               /\ \A i \in DOMAIN queue' : queue'[i] = q[i + d]
          BY <3>6
        <4>2. Ordered(order', fresh', sent, queue', TRUE \/ d > 0)
          BY <1>2, <2>2, <2>4, <3>6, <3>8, <4>1, OrderedSuffix
        <4> QED BY <1>1, <4>2 DEF Ordered, Within, Rises
      <3>10. Typed'
        BY <1>1, <1>2, <1>4, <2>4, <3>6 DEF LinkInv, Typed, TypeOK, Messages
      <3> QED BY <3>6, <3>9, <3>10 DEF LinkInv
    <2> QED BY <2>5, <2>6
  <1> QED BY <1>2, <1>5, <1>6, <1>7

\* The timer of the controller takes nothing off the line.
LEMMA StepQueue == ASSUME LinkInv, NEW p \in Packets, Queue(p) PROVE LinkInv'
  <1>1. Enqueues(p) /\ up' = up
    BY DEF Queue, Enqueues, node
  <1>2. SameAnswers
    BY <1>1 DEF SameAnswers, LinkInv, Typed, OnTheWay
  <1> QED BY <1>1, <1>2, StepEnqueue

\* A packet from the radio is no answer.
LEMMA StepReceiveRadio == ASSUME LinkInv, ReceiveRadio PROVE LinkInv'
  <1>1. /\ up # <<>> /\ Head(up).kind = "RADIO" /\ up' = Tail(up)
        /\ UNCHANGED <<noacks, known, failures, stray, node, beacons, clicks, sent, lost>>
    BY DEF ReceiveRadio
  <1>2. SameAnswers
    <2>1. N(up', Answers) = N(up, Answers) /\ N(up', Ids) = N(up, Ids)
      BY <1>1, FirstFrame
    <2>2. up' \in Seq(Messages) /\ up' \in Seq({a \in Messages : a \in Answers => a.of \in Owed})
      BY <1>1, FirstFrame
    <2>3. (\A i \in DOMAIN up' : up'[i].kind # "ACK") => (\A i \in DOMAIN up : up[i].kind # "ACK")
      BY <1>1, AckStays
    <2> QED BY <2>1, <2>2, <2>3 DEF SameAnswers
  <1>3. CASE known /\ Head(up).of \in fresh
    <2>1. Enqueues(Head(up).of)
      BY <1>1, <1>3 DEF ReceiveRadio, Enqueues
    <2> QED BY <1>2, <2>1, StepEnqueue
  <1>4. CASE ~(known /\ Head(up).of \in fresh)
    <2>1. /\ queue' = queue /\ waiting' = waiting /\ down' = down /\ fresh' = fresh /\ order' = order
          /\ known' = known /\ sent' = sent /\ lost' = lost /\ clicks' = clicks
          /\ buffer' = buffer /\ current' = current /\ events' = events /\ handling' = handling
          /\ sendq' = sendq /\ retries' = retries
      BY <1>1, <1>4 DEF ReceiveRadio, node
    <2>2. /\ up' \in Seq(Messages) /\ up' \in Seq({a \in Messages : a \in Answers => a.of \in Owed})
          /\ N(up', Answers) = N(up, Answers) /\ N(up', Ids) = N(up, Ids)
          /\ (\A i \in DOMAIN up' : up'[i].kind # "ACK") => (\A i \in DOMAIN up : up[i].kind # "ACK")
      BY <1>2 DEF SameAnswers
    <2>3. Out' = Out /\ Asked' = Asked
      BY <2>1, <2>2, CountsAfter, CountsNow
    <2>4. Waits' /\ OneRequest' /\ Owed' = Owed
      <3>1. lost \in BOOLEAN
        BY DEF LinkInv, Typed, TypeOK
      <3> QED BY <2>1, <2>3, <3>1, PcKept, CountsNow
    <2>5. OnTheWay(Owed)'
      BY <2>1, <2>2, <2>4 DEF LinkInv, OnTheWay
    <2>6. BuffersIntact' /\ Stale'
      BY <2>1, CountsAfter, BuffersKept
    <2>7. Ordered(order, fresh, sent, queue, Unsent)'
      BY <2>1, <2>2, <2>3, OrderKept DEF Unsent
    <2>8. Typed'
      BY <1>1, <2>1, <2>2 DEF LinkInv, Typed, TypeOK, Messages
    <2> QED BY <2>4, <2>5, <2>6, <2>7, <2>8 DEF LinkInv
  <1> QED BY <1>3, <1>4

-----------------------------------------------------------------------------
(* The theorem *)

\* At the start nothing is out.
LEMMA LinkInitially == ASSUME Undisturbed, Init PROVE LinkInv
  <1>1. /\ queue = <<>> /\ waiting = FALSE /\ known = FALSE /\ down = <<>> /\ up = <<>>
        /\ events = <<>> /\ sendq = <<>> /\ sent = <<>> /\ order = <<>> /\ fresh = Packets
        /\ clicks \in 0..1 /\ noacks = 0 /\ retries = 0 /\ handling = FALSE /\ lost = FALSE /\ stray = FALSE
        /\ buffer = <<IdRequest, IdRequest>> /\ current = 1
    BY LinkAssumption DEF Init, Undisturbed
  <1>2. /\ \A S : N(down, S) = 0 /\ N(events, S) = 0 /\ N(sendq, S) = 0 /\ N(up, S) = 0
    BY <1>1, CountEmpty
  <1>3. Out = 0 /\ Asked = clicks
    BY <1>1, <1>2 DEF Out, Asked
  <1>4. Typed
    <2>1. buffer \in [1..2 -> Frames]
      BY <1>1 DEF Frames
    <2>2. 0 \in 0..(MaxNack - 1) /\ 0 \in 0..(MaxRetransmit - 1) /\ SendCapacity \in Nat /\ Room \in Nat
      <3>1. MaxNack \in Nat \ {0} /\ MaxRetransmit \in Nat \ {0} /\ SendCapacity \in Nat /\ Room \in Nat
        BY LinkAssumption
      <3> QED BY <3>1
    <2>3. Len(queue) <= SendCapacity /\ Len(sendq) <= Room
      BY <1>1, <2>2
    <2>4. TypeOK
      <3>1. {waiting, known, handling, lost, stray} \subseteq BOOLEAN
        BY <1>1
      <3>2. noacks \in 0..(MaxNack - 1) /\ retries \in 0..(MaxRetransmit - 1) /\ current \in 1..2
        BY <1>1, <2>2
      <3>3. /\ queue \in Seq(Packets) /\ down \in Seq(Frames) /\ sendq \in Seq(Packets \union {Beacon})
            /\ up \in Seq([kind : {"ACK", "NACK", "ID", "RADIO"}, of : Frames \union {Beacon}])
            /\ events \in Seq([ev : {"new", "raw", "custom", "continue"}, buf : 1..2, frame : Frames])
        BY <1>1
      <3> QED BY <2>1, <2>3, <3>1, <3>2, <3>3 DEF TypeOK
    <2>5. fresh \in SUBSET Packets /\ sent \in Seq(Packets) /\ order \in Seq(Packets)
          /\ events \in Seq(Posted) /\ up \in Seq(Messages) /\ clicks \in 0..1
      BY <1>1
    <2> QED BY <2>4, <2>5 DEF Typed
  <1>5. Waits /\ OneRequest
    BY <1>1, <1>3 DEF Waits, OneRequest
  <1>6. OnTheWay(Owed)
    BY <1>1 DEF OnTheWay
  <1>7. BuffersIntact /\ Stale
    BY <1>1 DEF BuffersIntact, Stale
  <1>8. Ordered(order, fresh, sent, queue, Unsent)
    BY <1>1 DEF Ordered, Within, Rises
  <1> QED BY <1>4, <1>5, <1>6, <1>7, <1>8 DEF LinkInv

\* Every step keeps the invariant.
LEMMA LinkStep == ASSUME Undisturbed, LinkInv, [Next]_vars PROVE LinkInv'
  <1>1. ~BeaconsMayFail
    BY DEF Undisturbed
  <1>2. CASE Next
    <2>1. CASE \E p \in Packets : Queue(p) \/ Hear(p)
      BY <2>1, StepQueue, StepHear
    <2>2. CASE RequestId
      BY <2>2, StepRequestId
    <2>3. CASE ReceiveAck
      BY <2>3, StepReceiveAck
    <2>4. CASE ReceiveNack
      BY <2>4, StepReceiveNack
    <2>5. CASE ReceiveId
      BY <2>5, StepReceiveId
    <2>6. CASE ReceiveRadio
      BY <2>6, StepReceiveRadio
    <2>7. CASE FrameIn
      BY <2>7, StepFrameIn
    <2>8. CASE HandleNew
      BY <2>8, StepDropped, StepRequest, StepDecoded
    <2>9. CASE HandleContinue
      BY <2>9, StepHandleContinue
    <2>10. CASE HandleRaw
      BY <2>10, StepHandleRaw
    <2>11. CASE HandleCustom
      BY <2>11, StepHandleCustom
    <2>12. CASE SendBeacon
      BY <2>12, StepSendBeacon
    <2>13. CASE Transmitted
      BY <2>13, StepTransmitted
    <2>14. CASE Failed
      BY <1>1, <2>14, StepFailed
    <2>15. CASE LoseAnswer
      BY <2>15, StepLoseAnswer
    <2> QED BY <1>2, <2>1, <2>2, <2>3, <2>4, <2>5, <2>6, <2>7, <2>8, <2>9, <2>10, <2>11, <2>12,
               <2>13, <2>14, <2>15 DEF Next
  <1>3. CASE UNCHANGED vars
    <2>1. /\ queue' = queue /\ waiting' = waiting /\ down' = down /\ up' = up /\ fresh' = fresh
          /\ order' = order /\ known' = known /\ sent' = sent /\ lost' = lost /\ clicks' = clicks
          /\ buffer' = buffer /\ current' = current /\ events' = events /\ handling' = handling
          /\ sendq' = sendq /\ retries' = retries /\ noacks' = noacks /\ stray' = stray
      BY <1>3 DEF vars, pc, node, bounds, history
    <2>2. Out' = Out /\ Asked' = Asked
      BY <2>1, CountsAfter, CountsNow
    <2>3. Waits' /\ OneRequest' /\ Owed' = Owed
      <3>1. lost \in BOOLEAN
        BY DEF LinkInv, Typed, TypeOK
      <3> QED BY <2>1, <2>2, <3>1, PcKept, CountsNow
    <2>4. OnTheWay(Owed)'
      BY <2>1, <2>3 DEF LinkInv, OnTheWay
    <2>5. BuffersIntact' /\ Stale'
      BY <2>1, CountsAfter, BuffersKept
    <2>6. Ordered(order, fresh, sent, queue, Unsent)'
      BY <2>1, <2>2, OrderKept DEF Unsent
    <2>7. Typed'
      BY <2>1 DEF LinkInv, Typed, TypeOK
    <2> QED BY <2>3, <2>4, <2>5, <2>6, <2>7 DEF LinkInv
  <1> QED BY <1>2, <1>3

\* The counts of the property are those of the invariant.
LEMMA OutIsOutstanding == ASSUME LinkInv PROVE Outstanding = Out
  <1>1. Count(down, LAMBDA f : f \in Packets) = N(down, Packets)
    BY DEF Count, Quantify, N
  <1>2. Count(events, LAMBDA e : e.ev # "continue" /\ e.frame \in Packets) = N(events, Carriers)
    <2>1. \A i \in DOMAIN events : events[i] \in Posted
      BY DEF LinkInv, Typed
    <2>2. {i \in DOMAIN events : events[i].ev # "continue" /\ events[i].frame \in Packets}
             = {i \in DOMAIN events : events[i] \in Carriers}
      BY <2>1 DEF Carriers
    <2> QED BY <2>2 DEF Count, Quantify, N
  <1>3. Count(sendq, LAMBDA p : p # Beacon) = N(sendq, Packets)
    <2>1. sendq \in Seq(Packets \union {Beacon}) /\ Beacon \notin Packets
      BY DEF LinkInv, Typed, TypeOK, Packets, LinkAssumption
    <2>2. {i \in DOMAIN sendq : sendq[i] # Beacon} = {i \in DOMAIN sendq : sendq[i] \in Packets}
      BY <2>1
    <2> QED BY <2>2 DEF Count, Quantify, N
  <1>4. Count(up, LAMBDA a : a.kind \in {"ACK", "NACK"}) = N(up, Answers)
    <2>1. \A i \in DOMAIN up : up[i] \in Messages
      BY DEF LinkInv, Typed
    <2>2. {i \in DOMAIN up : up[i].kind \in {"ACK", "NACK"}} = {i \in DOMAIN up : up[i] \in Answers}
      BY <2>1 DEF Answers
    <2> QED BY <2>2 DEF Count, Quantify, N
  <1> QED BY <1>1, <1>2, <1>3, <1>4 DEF Outstanding, Out

\* The invariant is stronger than the property.
LEMMA InvIsOrder == ASSUME LinkInv PROVE LinkInOrder
  <1>1. TypeOK /\ BuffersIntact
    BY DEF LinkInv, Typed
  <1>2. OneOutstanding
    BY OutIsOutstanding DEF LinkInv, Waits, OneOutstanding
  <1>3. AnswersTheHead
    <2> SUFFICES ASSUME NEW i \in DOMAIN up, up[i].kind \in {"ACK", "NACK"}
                 PROVE  queue # <<>> /\ up[i].of = Head(queue)
      BY DEF AnswersTheHead
    <2>1. up[i] \in {a \in Messages : a \in Answers => a.of \in Owed}
      BY DEF LinkInv, OnTheWay
    <2>2. up[i].of \in Owed
      BY <2>1 DEF Answers
    <2> QED BY <2>2 DEF Owed
  <1>4. SentInOrder
    <2>1. order \in Seq(Packets) /\ Within(order, sent) /\ Rises(order, sent)
          /\ \A i, j \in DOMAIN order : order[i] = order[j] => i = j
      BY DEF LinkInv, Typed, Ordered
    <2> SUFFICES ASSUME NEW i \in DOMAIN sent, NEW j \in DOMAIN sent, i < j
                 PROVE  SelectInSeq(order, LAMBDA q : q = sent[i]) < SelectInSeq(order, LAMBDA q : q = sent[j])
      BY DEF SentInOrder
    <2>2. PICK k \in DOMAIN order : order[k] = sent[i]
      BY <2>1 DEF Within
    <2>3. PICK l \in DOMAIN order : order[l] = sent[j]
      BY <2>1 DEF Within
    <2>4. k < l
      BY <2>1, <2>2, <2>3 DEF Rises
    <2>5. SelectInSeq(order, LAMBDA q : q = sent[i]) = k
      <3>1. {h \in 1..Len(order) : order[h] = sent[i]} = {k}
        BY <2>1, <2>2, OnePlace
      <3> QED BY <3>1, MinOfOne DEF SelectInSeq
    <2>6. SelectInSeq(order, LAMBDA q : q = sent[j]) = l
      <3>1. {h \in 1..Len(order) : order[h] = sent[j]} = {l}
        BY <2>1, <2>3, OnePlace
      <3> QED BY <3>1, MinOfOne DEF SelectInSeq
    <2> QED BY <2>4, <2>5, <2>6
  <1> QED BY <1>1, <1>2, <1>3, <1>4 DEF LinkInOrder

\* As long as the node gives up no beacon of its own and the user clicks once:
\* one packet is between PC and node at a time, what sdn_send_done takes off the
\* queue is the packet that was answered, the node decodes what was sent, and
\* packets go out in the order in which they were queued, each at most once.
THEOREM LinkStaysInOrder == ASSUME Undisturbed PROVE Spec => []LinkInOrder
  <1>1. Init => LinkInv
    BY LinkInitially
  <1>2. LinkInv /\ [Next]_vars => LinkInv'
    BY LinkStep
  <1>3. LinkInv => LinkInOrder
    BY InvIsOrder
  <1> QED BY <1>1, <1>2, <1>3, PTL DEF Spec
=============================================================================
