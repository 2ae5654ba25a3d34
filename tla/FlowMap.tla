------------------------------ MODULE FlowMap ------------------------------
(***************************************************************************)
(* What a flow table promises to the rest of the node (data-flow-table.h,  *)
(* control-flow-table.h): a map from keys to routes with room for Capacity *)
(* keys.  An insertion adds or updates one entry or, for a new key in a    *)
(* full table, does nothing; a purge by next hop removes every entry       *)
(* through that hop that is not spared.                                    *)
(***************************************************************************)
EXTENDS Integers, FiniteSets

CONSTANTS Keys, Routes, Capacity, Spared, InitialKeys, Hops, HopOf(_)

VARIABLE map

Put(k, r) ==
    /\ k \in DOMAIN map \/ Cardinality(DOMAIN map) < Capacity
    /\ map' = [i \in DOMAIN map \union {k} |-> IF i = k THEN r ELSE map[i]]

KeepOnly(ks) == map' = [i \in ks |-> map[i]]

Drop(k) == KeepOnly(DOMAIN map \ {k})

Purge(h) == KeepOnly({k \in DOMAIN map : HopOf(map[k]) # h \/ k \in Spared})

Clear == KeepOnly({})

Init == map \in [InitialKeys -> Routes]

Next == \/ \E k \in Keys, r \in Routes : Put(k, r)
        \/ \E k \in Keys : Drop(k)
        \/ \E h \in Hops : Purge(h)
        \/ Clear

Spec == Init /\ [][Next]_map
=============================================================================
