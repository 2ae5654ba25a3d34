-------------------------- MODULE FlowTableProofs --------------------------
(***************************************************************************)
(* A flow table keeps its keys unique, leaks no block and keeps the flow   *)
(* to the controller, for every size, every set of keys and hops, and      *)
(* although the purge by next hop leaves freed blocks in the list.         *)
(*                                                                         *)
(* While no next hop fails, it implements the bounded map of its header    *)
(* (FlowMap).  A purge is what breaks "used = linked", and with it the     *)
(* implementation.                                                         *)
(***************************************************************************)
EXTENDS FlowTable, WellFoundedInduction, FiniteSetTheorems, TLAPS

Unambiguous(t) == \A b, c \in t.linked : t.blk[b].key = t.blk[c].key => b = c

\* A linked block with a spared key is never one the pool may hand out.
SparedHeld(t) == \A b \in t.linked : t.blk[b].key \in Spared => b \in t.used

\* What every call keeps true of a table.
Sound(t) ==
    /\ t \in Table(Keys, Hops)
    /\ Unambiguous(t)
    /\ t.used \subseteq t.linked
    /\ SparedHeld(t)

-----------------------------------------------------------------------------
(* The operations *)

\* memb_alloc hands out a block that is not in use whenever there is one.
LEMMA MembAllocUnused ==
    ASSUME NEW t, Unused(t) # {}
    PROVE  MembAlloc(t) \in Unused(t)
  <1> DEFINE R == {ss \in Nat \X Nat : ss[1] < ss[2]}
  <1>1. IsWellFoundedOn(R, Nat)
    BY NatLessThanWellFounded DEF OpToRel
  <1> HIDE DEF R
  <1>2. Unused(t) \subseteq Nat
    BY TableSizeAssumption DEF Unused, Blocks
  <1>3. PICK b \in Unused(t) : \A c \in Unused(t) : ~(<<c, b>> \in R)
    BY <1>1, <1>2, WFMin, Zenon
  <1>4. \A c \in Unused(t) : c < b => <<c, b>> \in R
    BY <1>2 DEF R
  <1>5. \A c \in Unused(t) : ~(c < b)
    BY <1>3, <1>4, Zenon
  <1>6. \A c \in Unused(t) : b <= c
    BY <1>2, <1>5
  <1> QED BY <1>6 DEF MembAlloc

\* The block an insertion writes: the key's own, or one that is not in use.
LEMMA BlockForChoice ==
    ASSUME NEW t \in Table(Keys, Hops), NEW k, CanInsert(t, k)
    PROVE  /\ BlockFor(t, k) \in Blocks
           /\ Has(t, k) => BlockFor(t, k) \in Found(t, k)
           /\ ~Has(t, k) => BlockFor(t, k) \notin t.used
  <1>1. CASE Has(t, k)
    <2>1. BlockFor(t, k) \in Found(t, k)
      BY <1>1 DEF Has, BlockFor
    <2> QED BY <1>1, <2>1 DEF Found, Table
  <1>2. CASE ~Has(t, k)
    <2>1. BlockFor(t, k) \in Unused(t)
      BY <1>2, MembAllocUnused DEF BlockFor, CanInsert
    <2> QED BY <1>2, <2>1 DEF Unused
  <1> QED BY <1>1, <1>2

\* An insertion makes its key's block the only one with that key; the block it
\* takes from the pool, linked or not, holds no spared key.
LEMMA InsertSound ==
    ASSUME NEW t, Sound(t), NEW k \in Keys, NEW h \in Hops, NEW a \in Actions
    PROVE  /\ Sound(TableInsert(t, k, h, a))
           /\ \A j \in Spared : Has(t, j) => Has(TableInsert(t, k, h, a), j)
  <1>1. CASE ~CanInsert(t, k)
    BY <1>1 DEF TableInsert
  <1>2. CASE CanInsert(t, k)
    <2> DEFINE b == BlockFor(t, k)
               e == [key |-> k, hop |-> h, act |-> a]
               u == TableInsert(t, k, h, a)
    <2>1. /\ b \in Blocks
          /\ Has(t, k) => b \in Found(t, k)
          /\ ~Has(t, k) => b \notin t.used
      BY <1>2, BlockForChoice DEF Sound
    <2>2. /\ u.used = IF Has(t, k) THEN t.used ELSE t.used \union {b}
          /\ u.linked = t.linked \union {b}
          /\ u.blk = [t.blk EXCEPT ![b] = e]
          /\ u = [used |-> u.used, linked |-> u.linked, blk |-> u.blk]
      BY <1>2 DEF TableInsert
    <2>3. e \in Entry(Keys, Hops) /\ e.key = k
      BY DEF Entry
    <2> HIDE DEF b, e, u
    <2>4. t.blk \in [Blocks -> Entry(Keys, Hops)] /\ t.used \subseteq Blocks
          /\ t.linked \subseteq Blocks
      BY DEF Sound, Table
    <2>5. u \in Table(Keys, Hops)
      BY <2>1, <2>2, <2>3, <2>4 DEF Table
    <2>6. u.blk[b] = e /\ \A c \in Blocks \ {b} : u.blk[c] = t.blk[c]
      BY <2>1, <2>2, <2>4
    <2>7. \A c \in t.linked : t.blk[c].key = k => c = b
      <3>1. CASE Has(t, k)
        BY <2>1, <3>1 DEF Sound, Unambiguous, Found
      <3>2. CASE ~Has(t, k)
        BY <3>2 DEF Has, Found
      <3> QED BY <3>1, <3>2
    <2>8. Unambiguous(u)
      <3> SUFFICES ASSUME NEW c \in u.linked, NEW d \in u.linked,
                          u.blk[c].key = u.blk[d].key
                   PROVE  c = d
        BY DEF Unambiguous
      <3>1. \A x \in u.linked \ {b} : x \in t.linked /\ u.blk[x] = t.blk[x]
        BY <2>2, <2>4, <2>6
      <3>2. CASE c # b /\ d # b
        BY <3>1, <3>2 DEF Sound, Unambiguous
      <3>3. CASE c = b /\ d # b
        BY <2>3, <2>6, <2>7, <3>1, <3>3
      <3>4. CASE c # b /\ d = b
        BY <2>3, <2>6, <2>7, <3>1, <3>4
      <3> QED BY <3>2, <3>3, <3>4
    <2>9. u.used \subseteq u.linked
      BY <2>2 DEF Sound
    <2>10. SparedHeld(u)
      <3> SUFFICES ASSUME NEW c \in u.linked, u.blk[c].key \in Spared
                   PROVE  c \in u.used
        BY DEF SparedHeld
      <3>1. CASE c = b /\ Has(t, k)
        BY <2>1, <2>2, <2>3, <2>6, <3>1 DEF Sound, SparedHeld, Found
      <3>2. CASE c = b /\ ~Has(t, k)
        BY <2>2, <3>2
      <3>3. CASE c # b
        BY <2>2, <2>4, <2>6, <3>3 DEF Sound, SparedHeld
      <3> QED BY <3>1, <3>2, <3>3
    <2>11. ASSUME NEW j \in Spared, Has(t, j) PROVE Has(u, j)
      <3>1. PICK c \in t.linked : t.blk[c].key = j
        BY <2>11 DEF Has, Found
      <3>2. CASE c = b
        <4>1. b \in t.used
          BY <3>1, <3>2 DEF Sound, SparedHeld
        <4>2. k = j
          BY <2>1, <3>1, <3>2, <4>1 DEF Found
        <4> QED BY <2>2, <2>3, <2>6, <4>2 DEF Has, Found
      <3>3. CASE c # b
        BY <2>2, <2>4, <2>6, <3>1, <3>3 DEF Has, Found
      <3> QED BY <3>2, <3>3
    <2> QED BY <2>5, <2>8, <2>9, <2>10, <2>11 DEF Sound, u
  <1> QED BY <1>1, <1>2

\* A purge frees blocks and unlinks none; it frees none with a spared key.
LEMMA PurgeSound ==
    ASSUME NEW t, Sound(t), NEW h
    PROVE  /\ Sound(TablePurge(t, h, Spared))
           /\ \A j : Has(t, j) => Has(TablePurge(t, h, Spared), j)
  <1> DEFINE u == TablePurge(t, h, Spared)
  <1>1. /\ u.used = t.used \ Through(t, h, Spared) /\ u.linked = t.linked /\ u.blk = t.blk
        /\ u \in Table(Keys, Hops)
    BY DEF TablePurge, Sound, Table
  <1> HIDE DEF u
  <1>2. \A b \in t.linked : t.blk[b].key \in Spared => b \notin Through(t, h, Spared)
    BY DEF Through
  <1>3. Sound(u)
    BY <1>1, <1>2 DEF Sound, Unambiguous, SparedHeld
  <1>4. \A j : Has(t, j) => Has(u, j)
    BY <1>1 DEF Has, Found
  <1> QED BY <1>3, <1>4 DEF u

\* Taking blocks out of the pool's count and the list alike keeps a table sound.
LEMMA UnlinkSound ==
    ASSUME NEW t, Sound(t), NEW S, NEW u,
           u = [t EXCEPT !.used = @ \ S, !.linked = @ \ S]
    PROVE  Sound(u)
  <1>1. /\ u.used = t.used \ S /\ u.linked = t.linked \ S /\ u.blk = t.blk
        /\ u \in Table(Keys, Hops)
    BY DEF Sound, Table
  <1> QED BY <1>1 DEF Sound, Unambiguous, SparedHeld

\* Removal by key unlinks and frees the one block of the key.
LEMMA RemoveSound ==
    ASSUME NEW t, Sound(t), NEW k
    PROVE  Sound(TableRemove(t, k))
  <1>1. CASE ~Has(t, k)
    BY <1>1 DEF TableRemove
  <1>2. CASE Has(t, k)
    <2> DEFINE b == CHOOSE c \in Found(t, k) : TRUE
    <2>1. TableRemove(t, k) = [t EXCEPT !.used = @ \ {b}, !.linked = @ \ {b}]
      BY <1>2 DEF TableRemove
    <2> HIDE DEF b
    <2> QED BY <2>1, UnlinkSound
  <1> QED BY <1>1, <1>2

\* Clearing leaves nothing behind, since what is in use is linked.
LEMMA ClearSound ==
    ASSUME NEW t, Sound(t)
    PROVE  Sound(TableClear(t))
  <1>1. TableClear(t) = [t EXCEPT !.used = @ \ t.linked, !.linked = @ \ t.linked]
    BY DEF TableClear, Sound, Table
  <1> QED BY <1>1, UnlinkSound

-----------------------------------------------------------------------------
(* The specification *)

\* The init functions build a sound table.
LEMMA InitSound == Init => Sound(table)
  <1>1. AnyEntry \in Entry(Keys, Hops)
    BY FlowTableAssumption DEF AnyEntry, Entry, Actions
  <1>2. Sound(EmptyTable(AnyEntry))
    BY <1>1 DEF EmptyTable, Sound, Table, Unambiguous, SparedHeld
  <1>3. CASE InitialKeys = {}
    BY <1>2, <1>3 DEF Init, InitialTable
  <1>4. CASE InitialKeys # {}
    <2>1. (CHOOSE k \in InitialKeys : TRUE) \in Keys /\ "RECEIVE" \in Actions
      BY <1>4, FlowTableAssumption DEF Actions
    <2>2. Sound(TableInsert(EmptyTable(AnyEntry), CHOOSE k \in InitialKeys : TRUE, Own, "RECEIVE"))
      BY <1>2, <2>1, InsertSound, FlowTableAssumption
    <2> QED BY <1>4, <2>2 DEF Init, InitialTable
  <1> QED BY <1>3, <1>4

\* Every call keeps the table sound, and of the calls only removal by key and
\* clearing may lose a spared key.
LEMMA NextSound ==
    ASSUME Sound(table), [Next]_table
    PROVE  /\ Sound(table')
           /\ \A k \in Spared : Has(table, k) => Has(table', k) \/ Remove(k) \/ Clear
  <1>1. ASSUME NEW k \in Keys, NEW h \in Hops, NEW a \in Actions, Insert(k, h, a)
        PROVE  /\ Sound(table')
               /\ \A j \in Spared : Has(table, j) => Has(table', j)
    <2>1. StoredAction(Own, h, a, Rewritten) \in Actions
      BY DEF StoredAction, Actions
    <2> QED BY <1>1, <2>1, InsertSound DEF Insert
  <1>2. ASSUME NEW h \in FailingHops, RemoveNextHop(h)
        PROVE  Sound(table') /\ \A j \in Spared : Has(table, j) => Has(table', j)
    BY <1>2, PurgeSound DEF RemoveNextHop
  <1>3. ASSUME NEW k \in Keys, Remove(k)
        PROVE  /\ Sound(table')
               /\ \A j \in Spared : Has(table, j) => Has(table', j) \/ Remove(j)
    <2>1. Sound(table')
      BY <1>3, RemoveSound DEF Remove
    <2>2. ASSUME NEW j \in Spared, Has(table, j), ~Remove(j) PROVE Has(table', j)
      <3>1. j # k
        BY <1>3, <2>2
      <3>2. PICK b \in table.linked : table.blk[b].key = j
        BY <2>2 DEF Has, Found
      <3>3. CASE ~Has(table, k)
        BY <1>3, <2>2, <3>3 DEF Remove, TableRemove
      <3>4. CASE Has(table, k)
        <4> DEFINE c == CHOOSE d \in Found(table, k) : TRUE
        <4>1. c \in Found(table, k)
          BY <3>4 DEF Has
        <4>2. table' = [table EXCEPT !.used = @ \ {c}, !.linked = @ \ {c}]
          BY <1>3, <3>4 DEF Remove, TableRemove
        <4> HIDE DEF c
        <4>3. table'.linked = table.linked \ {c} /\ table'.blk = table.blk
          BY <4>2 DEF Sound, Table
        <4>4. b # c
          BY <3>1, <3>2, <4>1 DEF Found
        <4> QED BY <3>2, <4>3, <4>4 DEF Has, Found
      <3> QED BY <3>3, <3>4
    <2> QED BY <2>1, <2>2
  <1>4. CASE Clear
    BY <1>4, ClearSound DEF Clear
  <1>5. CASE UNCHANGED table
    BY <1>5
  <1> QED BY <1>1, <1>2, <1>3, <1>4, <1>5 DEF Next

LEMMA SoundHolds == Spec => []Sound(table)
  <1>1. Sound(table) /\ [Next]_table => Sound(table)'
    BY NextSound
  <1> QED BY <1>1, InitSound, PTL DEF Spec

-----------------------------------------------------------------------------

\* Insert, remove, purge and clear keep the table within its blocks, keys and
\* hops (sdn-common/data-flow-table.c, control-flow-table.c).
THEOREM TableTypeCorrect == Spec => []TypeOK
  <1>1. Sound(table) => TypeOK
    BY DEF Sound, TypeOK
  <1> QED BY <1>1, SoundHolds, PTL

\* A lookup finds one block at most, also after a purge has left freed blocks in
\* the list and insertions have reused them.
THEOREM KeysAreUnique == Spec => []UniqueKeys
  <1>1. Sound(table) => UniqueKeys
    BY DEF Sound, Unambiguous, UniqueKeys
  <1> QED BY <1>1, SoundHolds, PTL

\* Every block the pool counts as used is in the list.
THEOREM NothingLeaks == Spec => []NoLeak
  <1>1. Sound(table) => NoLeak
    BY DEF Sound, NoLeak
  <1> QED BY <1>1, SoundHolds, PTL

\* The flow to the controller leaves the table by sdn_dataflow_remove or
\* sdn_dataflow_clear only: its block is never free while it is linked.
THEOREM SparedFlowsStay == Spec => SparedKept
  <1>1. Sound(table) /\ [Next]_table =>
          [\A k \in Spared : Has(table, k) => Has(table', k) \/ Remove(k) \/ Clear]_table
    BY NextSound
  <1> QED BY <1>1, SoundHolds, PTL DEF Spec, SparedKept

-----------------------------------------------------------------------------
(* The implementation of FlowMap *)

\* The blocks taken from the pool are exactly those in the list.
Whole(t) == Sound(t) /\ t.used = t.linked

\* Contents, of any table.
MapOf(t) == [k \in {j \in Keys : Has(t, j)} |-> RouteOf(Get(t, k))]

Route == [hop : Hops, act : Actions]

WithRoute(m, k, r) == [i \in DOMAIN m \union {k} |-> IF i = k THEN r ELSE m[i]]

-----------------------------------------------------------------------------
(* Lookups *)

\* The lookup of a key in a sound table finds its one block.
LEMMA GetOf ==
    ASSUME NEW t, Unambiguous(t), NEW k, NEW b \in Found(t, k)
    PROVE  Get(t, k) = t.blk[b]
  <1> DEFINE c == CHOOSE d \in Found(t, k) : TRUE
  <1>1. c \in Found(t, k)
    OBVIOUS
  <1>2. c = b
    BY <1>1 DEF Found, Unambiguous
  <1> QED BY <1>2 DEF Get

\* The map of a sound table has routes for values, and its keys are those of
\* the linked blocks.
LEMMA MapShape ==
    ASSUME NEW t, Sound(t)
    PROVE  /\ DOMAIN MapOf(t) = {t.blk[b].key : b \in t.linked}
           /\ MapOf(t) \in [DOMAIN MapOf(t) -> Route]
  <1>1. t.linked \subseteq Blocks /\ t.blk \in [Blocks -> Entry(Keys, Hops)]
    BY DEF Sound, Table
  <1>2. \A j \in Keys : Has(t, j) <=> \E b \in t.linked : t.blk[b].key = j
    BY DEF Has, Found
  <1>3. \A b \in t.linked : t.blk[b].key \in Keys
    BY <1>1 DEF Entry
  <1>4. DOMAIN MapOf(t) = {t.blk[b].key : b \in t.linked}
    BY <1>2, <1>3 DEF MapOf
  <1>5. ASSUME NEW k \in DOMAIN MapOf(t) PROVE RouteOf(Get(t, k)) \in Route
    <2>1. PICK b \in Found(t, k) : TRUE
      BY <1>5 DEF MapOf, Has
    <2>2. Get(t, k) = t.blk[b] /\ b \in Blocks
      BY <2>1, <1>1, GetOf DEF Sound, Found
    <2>3. t.blk[b] \in Entry(Keys, Hops)
      BY <2>2, <1>1
    <2> QED BY <2>2, <2>3 DEF RouteOf, Route, Entry
  <1> QED BY <1>4, <1>5 DEF MapOf

\* A whole table with a block to spare holds fewer keys than it has blocks.
LEMMA RoomLeft ==
    ASSUME NEW t, Whole(t), Unused(t) # {}
    PROVE  Cardinality(DOMAIN MapOf(t)) < TableSize
  <1> DEFINE ks == DOMAIN MapOf(t)
             f == [b \in t.linked |-> t.blk[b].key]
  <1>1. IsFiniteSet(Blocks) /\ Cardinality(Blocks) = TableSize
    BY FS_Interval, TableSizeAssumption DEF Blocks
  <1>2. t.linked \in SUBSET Blocks /\ t.linked # Blocks
    BY DEF Whole, Sound, Table, Unused
  <1>3. /\ IsFiniteSet(t.linked)
        /\ Cardinality(t.linked) <= TableSize /\ Cardinality(t.linked) # TableSize
    BY <1>1, <1>2, FS_Subset
  <1>4. ks = {t.blk[b].key : b \in t.linked}
    BY MapShape DEF Whole
  <1>5. f \in Surjection(t.linked, ks)
    BY <1>4 DEF Surjection
  <1> HIDE DEF f, ks
  <1>6. IsFiniteSet(ks) /\ Cardinality(ks) <= Cardinality(t.linked)
    BY <1>3, <1>5, FS_Surjection
  <1>7. Cardinality(ks) \in Nat /\ Cardinality(t.linked) \in Nat
    BY <1>3, <1>6, FS_CardinalityType
  <1> QED BY <1>3, <1>6, <1>7, TableSizeAssumption DEF ks

-----------------------------------------------------------------------------
(* The operations on the map *)

\* An insertion that has a block to write puts the route at its key and leaves
\* the others; the table stays whole.
LEMMA InsertMaps ==
    ASSUME NEW t, Whole(t), NEW k \in Keys, NEW h \in Hops, NEW a \in Actions,
           CanInsert(t, k)
    PROVE  /\ Whole(TableInsert(t, k, h, a))
           /\ MapOf(TableInsert(t, k, h, a)) =
                WithRoute(MapOf(t), k, [hop |-> h, act |-> a])
  <1> DEFINE u == TableInsert(t, k, h, a)
             b == BlockFor(t, k)
             e == [key |-> k, hop |-> h, act |-> a]
  <1>1. Sound(u)
    BY InsertSound DEF Whole
  <1>2. /\ b \in Blocks
        /\ Has(t, k) => b \in Found(t, k)
        /\ ~Has(t, k) => b \notin t.used
    BY BlockForChoice DEF Whole, Sound
  <1>3. /\ u.used = IF Has(t, k) THEN t.used ELSE t.used \union {b}
        /\ u.linked = t.linked \union {b}
        /\ u.blk = [t.blk EXCEPT ![b] = e]
    BY DEF TableInsert
  <1>4. e.key = k /\ RouteOf(e) = [hop |-> h, act |-> a]
    BY DEF RouteOf
  <1> HIDE DEF u, b, e
  <1>5. t.linked \subseteq Blocks /\ t.blk \in [Blocks -> Entry(Keys, Hops)]
    BY DEF Whole, Sound, Table
  <1>6. Whole(u)
    BY <1>1, <1>2, <1>3 DEF Whole, Found
  <1>7. u.blk[b] = e /\ \A c \in Blocks \ {b} : u.blk[c] = t.blk[c]
    BY <1>2, <1>3, <1>5
  <1>8. b \in Found(u, k) /\ Get(u, k) = e
    <2>1. b \in Found(u, k)
      BY <1>3, <1>4, <1>7 DEF Found
    <2> QED BY <2>1, <1>1, <1>7, GetOf DEF Sound
  <1>9. ASSUME NEW j \in Keys \ {k}
        PROVE  Found(u, j) = Found(t, j) /\ (Has(t, j) => Get(u, j) = Get(t, j))
    <2>1. b \in t.linked => t.blk[b].key = k
      BY <1>2 DEF Whole, Found
    <2>2. b \notin Found(t, j) /\ b \notin Found(u, j)
      BY <2>1, <1>4, <1>7 DEF Found
    <2>3. \A c \in Blocks \ {b} : c \in Found(u, j) <=> c \in Found(t, j)
      BY <1>3, <1>7 DEF Found
    <2>4. Found(u, j) \subseteq Blocks /\ Found(t, j) \subseteq Blocks
      BY <1>2, <1>3, <1>5 DEF Found
    <2>5. Found(u, j) = Found(t, j)
      BY <2>2, <2>3, <2>4
    <2>6. ASSUME Has(t, j) PROVE Get(u, j) = Get(t, j)
      <3>1. PICK c \in Found(t, j) : TRUE
        BY <2>6 DEF Has
      <3>2. Get(t, j) = t.blk[c] /\ Get(u, j) = u.blk[c]
        BY <3>1, <2>5, <1>1, GetOf DEF Whole, Sound
      <3> QED BY <2>2, <2>4, <2>5, <3>1, <3>2, <1>7
    <2> QED BY <2>5, <2>6
  <1>10. MapOf(u) = WithRoute(MapOf(t), k, [hop |-> h, act |-> a])
    <2>1. {j \in Keys : Has(u, j)} = {j \in Keys : Has(t, j)} \union {k}
      BY <1>8, <1>9 DEF Has
    <2> QED BY <2>1, <1>4, <1>8, <1>9 DEF MapOf, WithRoute
  <1> QED BY <1>6, <1>10 DEF u

\* Removing a key removes it from the map and nothing else.
LEMMA RemoveMaps ==
    ASSUME NEW t, Whole(t), NEW k \in Keys
    PROVE  LET u == TableRemove(t, k) IN
           /\ Whole(u)
           /\ MapOf(u) = [i \in DOMAIN MapOf(t) \ {k} |-> MapOf(t)[i]]
  <1> DEFINE u == TableRemove(t, k)
  <1>1. Sound(u)
    BY RemoveSound DEF Whole
  <1>2. CASE ~Has(t, k)
    <2>1. u = t
      BY <1>2 DEF TableRemove
    <2>2. k \notin DOMAIN MapOf(t)
      BY <1>2 DEF MapOf
    <2>3. MapOf(t) = [i \in DOMAIN MapOf(t) |-> MapOf(t)[i]]
      BY DEF MapOf
    <2> HIDE DEF u
    <2>4. MapOf(u) = [i \in DOMAIN MapOf(t) \ {k} |-> MapOf(t)[i]]
      BY <2>1, <2>2, <2>3
    <2> QED BY <2>1, <2>4 DEF u
  <1>3. CASE Has(t, k)
    <2> DEFINE b == CHOOSE c \in Found(t, k) : TRUE
    <2>1. b \in Found(t, k)
      BY <1>3 DEF Has
    <2>2. u = [t EXCEPT !.used = @ \ {b}, !.linked = @ \ {b}]
      BY <1>3 DEF TableRemove
    <2> HIDE DEF b, u
    <2>3. u.used = t.used \ {b} /\ u.linked = t.linked \ {b} /\ u.blk = t.blk
      BY <2>2 DEF Whole, Sound, Table
    <2>4. Whole(u)
      BY <1>1, <2>3 DEF Whole, u
    <2>5. Found(u, k) = {}
      BY <2>1, <2>3 DEF Whole, Sound, Unambiguous, Found
    <2>6. \A j \in Keys \ {k} : Found(u, j) = Found(t, j)
      BY <2>1, <2>3 DEF Found
    <2>7. \A j \in Keys \ {k} : Get(u, j) = Get(t, j)
      BY <2>3, <2>6 DEF Get
    <2>8. {j \in Keys : Has(u, j)} = {j \in Keys : Has(t, j)} \ {k}
      BY <2>5, <2>6 DEF Has
    <2>9. MapOf(u) = [i \in DOMAIN MapOf(t) \ {k} |-> MapOf(t)[i]]
      BY <2>7, <2>8 DEF MapOf
    <2> QED BY <2>4, <2>9 DEF u
  <1> QED BY <1>2, <1>3

\* Clearing empties the map.
LEMMA ClearMaps ==
    ASSUME NEW t, Whole(t)
    PROVE  LET u == TableClear(t) IN
           Whole(u) /\ MapOf(u) = [i \in {} |-> MapOf(t)[i]]
  <1> DEFINE u == TableClear(t)
  <1>1. u.used = t.used \ t.linked /\ u.linked = {}
    BY DEF TableClear, Whole, Sound, Table
  <1>2. Whole(u)
    BY <1>1, ClearSound DEF Whole
  <1>3. {j \in Keys : Has(u, j)} = {}
    BY <1>1 DEF Has, Found
  <1> HIDE DEF u
  <1>4. MapOf(u) = [i \in {} |-> MapOf(t)[i]]
    BY <1>3 DEF MapOf
  <1> QED BY <1>2, <1>4 DEF u

-----------------------------------------------------------------------------
(* The implementation *)

\* The instance of FlowMap counts as this module does.
LEMMA AbstractCount == \A S : Abstract!Cardinality(S) = Cardinality(S)
  BY DEF Abstract!Cardinality, Cardinality

\* The table the init functions leave is whole and stands for an initial map.
LEMMA InitMaps == Init => Whole(table) /\ Abstract!Init
  <1> DEFINE t == EmptyTable(AnyEntry)
  <1> SUFFICES ASSUME Init PROVE Whole(table) /\ MapOf(table) \in [InitialKeys -> Route]
    BY DEF Abstract!Init, Contents, MapOf, Route
  <1>1. AnyEntry \in Entry(Keys, Hops)
    BY FlowTableAssumption DEF AnyEntry, Entry, Actions
  <1>2. t.used = {} /\ t.linked = {} /\ t \in Table(Keys, Hops)
    BY <1>1 DEF EmptyTable, Table
  <1>3. Whole(t)
    BY <1>2 DEF Whole, Sound, Unambiguous, SparedHeld
  <1> HIDE DEF t
  <1>4. DOMAIN MapOf(t) = {}
    BY <1>2 DEF MapOf, Has, Found
  <1>5. CASE InitialKeys = {}
    <2>1. table = t
      BY <1>5 DEF Init, InitialTable, t
    <2> QED BY <1>3, <1>4, <1>5, <2>1, MapShape DEF Whole
  <1>6. CASE InitialKeys # {}
    <2> DEFINE k == CHOOSE i \in InitialKeys : TRUE
    <2>1. table = TableInsert(t, k, Own, "RECEIVE")
      BY <1>6 DEF Init, InitialTable, t
    <2>2. k \in Keys /\ InitialKeys = {k} /\ "RECEIVE" \in Actions /\ Own \in Hops
      BY <1>6, FlowTableAssumption DEF Actions
    <2> HIDE DEF k
    <2>3. CanInsert(t, k)
      BY <1>2, TableSizeAssumption DEF CanInsert, Unused, Blocks
    <2>4. Whole(table) /\ DOMAIN MapOf(table) = {k}
      <3>1. /\ Whole(TableInsert(t, k, Own, "RECEIVE"))
            /\ MapOf(TableInsert(t, k, Own, "RECEIVE")) =
                 WithRoute(MapOf(t), k, [hop |-> Own, act |-> "RECEIVE"])
        BY <1>3, <2>2, <2>3, InsertMaps
      <3>2. DOMAIN WithRoute(MapOf(t), k, [hop |-> Own, act |-> "RECEIVE"]) = {k}
        BY <1>4 DEF WithRoute
      <3> QED BY <2>1, <3>1, <3>2
    <2> QED BY <2>2, <2>4, MapShape DEF Whole
  <1> QED BY <1>5, <1>6

\* Every call but a purge is a step of the map, or none when the table is full.
LEMMA NextMaps ==
    ASSUME FailingHops = {}, Whole(table), [Next]_table
    PROVE  Whole(table') /\ [Abstract!Next]_Contents
  <1> DEFINE m == MapOf(table)
             n == MapOf(table')
  <1>0. Contents = m /\ Contents' = n
    BY DEF Contents, MapOf
  <1>1. ASSUME NEW k \in Keys, NEW h \in Hops, NEW a \in Actions, Insert(k, h, a)
        PROVE  Whole(table') /\ [Abstract!Next]_Contents
    <2> DEFINE s == StoredAction(Own, h, a, Rewritten)
    <2>1. s \in Actions
      BY DEF StoredAction, Actions
    <2>2. table' = TableInsert(table, k, h, s)
      BY <1>1 DEF Insert
    <2>3. CASE ~CanInsert(table, k)
      <3>1. table' = table
        BY <2>2, <2>3 DEF TableInsert
      <3> QED BY <3>1, <1>0
    <2>4. CASE CanInsert(table, k)
      <3> HIDE DEF s
      <3>1. /\ Whole(table')
            /\ n = WithRoute(m, k, [hop |-> h, act |-> s])
        BY <2>1, <2>2, <2>4, InsertMaps
      <3>2. k \in DOMAIN m \/ Cardinality(DOMAIN m) < TableSize
        BY <2>4, RoomLeft DEF CanInsert, MapOf
      <3>3. Abstract!Put(k, [hop |-> h, act |-> s])
        BY <3>1, <3>2, <1>0, AbstractCount DEF WithRoute, Abstract!Put
      <3>4. [hop |-> h, act |-> s] \in [hop : Hops, act : Actions]
        BY <2>1
      <3>5. Abstract!Next
        BY <3>3, <3>4 DEF Abstract!Next
      <3> QED BY <3>1, <3>5
    <2> QED BY <2>3, <2>4
  <1>2. ASSUME NEW k \in Keys, Remove(k)
        PROVE  Whole(table') /\ [Abstract!Next]_Contents
    <2>1. Whole(table') /\ n = [i \in DOMAIN m \ {k} |-> m[i]]
      BY <1>2, RemoveMaps DEF Remove
    <2>2. Abstract!Drop(k)
      BY <2>1, <1>0 DEF Abstract!Drop, Abstract!KeepOnly
    <2> QED BY <2>1, <2>2 DEF Abstract!Next
  <1>3. CASE Clear
    <2>1. Whole(table') /\ n = [i \in {} |-> m[i]]
      BY <1>3, ClearMaps DEF Clear
    <2>2. Abstract!Clear
      BY <2>1, <1>0 DEF Abstract!Clear, Abstract!KeepOnly
    <2> QED BY <2>1, <2>2 DEF Abstract!Next
  <1>4. CASE UNCHANGED table
    BY <1>4, <1>0
  <1> QED BY <1>1, <1>2, <1>3, <1>4 DEF Next

\* A table none of whose next hops fails is the bounded map of its header: an
\* insertion is refused only for a new key at capacity, updates one key, and
\* removal and clearing remove what they name (data-flow-table.h 72-101).
THEOREM TableIsMap == ASSUME FailingHops = {} PROVE Spec => RefinesMap
  <1>1. Whole(table) /\ [Next]_table => Whole(table)' /\ [Abstract!Next]_Contents
    BY NextMaps
  <1> QED BY <1>1, InitMaps, PTL DEF Spec, RefinesMap, Abstract!Spec
=============================================================================
