---------------------------- MODULE FlowTableOps ----------------------------
(***************************************************************************)
(* The flow tables of a node (sdn-common/data-flow-table.c and             *)
(* control-flow-table.c) as functions from table to table.                 *)
(*                                                                         *)
(* A table is a Contiki LIST of blocks taken from a MEMB pool of           *)
(* TableSize blocks.  The two structures are kept apart, as in the code:   *)
(* "used" is what memb_alloc may not hand out, "linked" is what a lookup   *)
(* walks.  Purging by next hop frees blocks without unlinking them.  The   *)
(* order of the list is abstracted: only the debug print shows it once no  *)
(* two linked blocks have the same key.                                    *)
(***************************************************************************)
EXTENDS Integers, FiniteSets

CONSTANT TableSize      \* SDN_FLOW_TABLES_SIZE

ASSUME TableSizeAssumption == TableSize \in Nat \ {0}

Blocks == 1..TableSize

Actions == {"FORWARD", "RECEIVE", "DROP"}

Entry(keys, hops) == [key : keys, hop : hops, act : Actions]

Table(keys, hops) == [used : SUBSET Blocks, linked : SUBSET Blocks,
                      blk : [Blocks -> Entry(keys, hops)]]

\* list_init over a pool no block of which is taken; e is the content no
\* lookup sees.
EmptyTable(e) == [used |-> {}, linked |-> {}, blk |-> [b \in Blocks |-> e]]

-----------------------------------------------------------------------------
(* sdn_dataflow_get, sdn_controlflow_get *)

Found(t, k) == {b \in t.linked : t.blk[b].key = k}

Has(t, k) == Found(t, k) # {}

Get(t, k) == t.blk[CHOOSE b \in Found(t, k) : TRUE]

-----------------------------------------------------------------------------
(* sdn_dataflow_insert, sdn_controlflow_insert *)

Unused(t) == Blocks \ t.used

\* memb_alloc: the first block of the pool that is not in use.
MembAlloc(t) == CHOOSE b \in Unused(t) : \A c \in Unused(t) : b <= c

CanInsert(t, k) == Has(t, k) \/ Unused(t) # {}

\* "next_hop == own address, action is forced to receive": for the actions in
\* rewritten, FORWARD alone in the data table, every one in the control table.
StoredAction(own, h, a, rewritten) ==
    IF h = own /\ a \in rewritten THEN "RECEIVE" ELSE a

\* Fault: only a block the pool counts as used is recognised as the key's.
BlockForUsed(t, k) ==
    IF Found(t, k) \cap t.used # {} THEN CHOOSE b \in Found(t, k) : TRUE ELSE MembAlloc(t)

\* Fault: the block after the last one in use, as if the pool had no holes.
BlockForLast(t, k) ==
    IF Has(t, k) THEN CHOOSE b \in Found(t, k) : TRUE
    ELSE CHOOSE b \in 1..(TableSize + 1) :
             (\A c \in t.used : c < b) /\ (b = 1 \/ b - 1 \in t.used)

\* Fault: a new block as long as there is one.
BlockForFresh(t, k) ==
    IF Unused(t) # {} THEN MembAlloc(t) ELSE CHOOSE b \in Found(t, k) : TRUE

\* A key already in the list keeps its block, whatever the pool thinks of it.
BlockFor(t, k) == IF Has(t, k) THEN CHOOSE b \in Found(t, k) : TRUE ELSE MembAlloc(t)

TableInsert(t, k, h, a) ==
    IF ~CanInsert(t, k) THEN t
    ELSE LET b == BlockFor(t, k) IN
         [used   |-> IF Has(t, k) THEN t.used ELSE t.used \union {b},
          linked |-> t.linked \union {b},
          blk    |-> [t.blk EXCEPT ![b] = [key |-> k, hop |-> h, act |-> a]]]

-----------------------------------------------------------------------------
(* sdn_dataflow_remove_next_hop, sdn_controlflow_remove_next_hop: the blocks
   go back to the pool, the list still reaches them.  The data table spares
   the flow to the controller. *)

\* Fault: the flow to the controller is not spared.
ThroughAny(t, h, spared) == {b \in t.linked : t.blk[b].hop = h}

Through(t, h, spared) == {b \in t.linked : t.blk[b].hop = h /\ t.blk[b].key \notin spared}

TablePurge(t, h, spared) == [t EXCEPT !.used = @ \ Through(t, h, spared)]

(* sdn_dataflow_remove, sdn_controlflow_remove: the one block lookup finds *)

\* Faults: only one of list_remove and memb_free.
TableRemoveUnlinked(t, k) == [t EXCEPT !.linked = @ \ Found(t, k)]
TableRemoveFreed(t, k) == [t EXCEPT !.used = @ \ Found(t, k)]

TableRemove(t, k) ==
    IF ~Has(t, k) THEN t
    ELSE LET b == CHOOSE c \in Found(t, k) : TRUE IN
         [t EXCEPT !.used = @ \ {b}, !.linked = @ \ {b}]

(* sdn_dataflow_clear, sdn_controlflow_clear *)
TableClear(t) == [t EXCEPT !.used = @ \ t.linked, !.linked = {}]
=============================================================================
