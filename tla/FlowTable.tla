----------------------------- MODULE FlowTable -----------------------------
(***************************************************************************)
(* One flow table under any sequence of calls.  Spared and Rewritten make  *)
(* it the data table ({SDN_CONTROLLER_FLOW}, {"FORWARD"}) or the control   *)
(* table ({}, every action).                                               *)
(***************************************************************************)
EXTENDS FlowTableOps

CONSTANTS Keys,         \* flow ids or destination addresses
          Hops,         \* next-hop addresses, the node's own included
          Own,          \* sdn_node_addr
          Rewritten,    \* actions a next hop equal to Own turns into RECEIVE
          Spared,       \* keys a purge by next hop leaves alone
          InitialKeys,  \* keys the init function routes to Own
          FailingHops   \* next hops the MAC may report as lost

ASSUME FlowTableAssumption ==
    /\ Keys # {} /\ Own \in Hops /\ FailingHops \subseteq Hops
    /\ Spared \subseteq Keys /\ InitialKeys \subseteq Keys
    /\ \A i, j \in InitialKeys : i = j
    /\ Rewritten \subseteq Actions

VARIABLE table

AnyEntry == [key |-> CHOOSE k \in Keys : TRUE, hop |-> Own, act |-> "DROP"]

\* sdn_dataflow_init empties the list; sdn_controlflow_init then inserts the
\* node's own address with action RECEIVE.
InitialTable ==
    IF InitialKeys = {} THEN EmptyTable(AnyEntry)
    ELSE TableInsert(EmptyTable(AnyEntry), CHOOSE k \in InitialKeys : TRUE, Own, "RECEIVE")

Init == table = InitialTable

Insert(k, h, a) == table' = TableInsert(table, k, h, StoredAction(Own, h, a, Rewritten))

RemoveNextHop(h) == table' = TablePurge(table, h, Spared)

Remove(k) == table' = TableRemove(table, k)

Clear == table' = TableClear(table)

Next == \/ \E k \in Keys, h \in Hops, a \in Actions : Insert(k, h, a)
        \/ \E h \in FailingHops : RemoveNextHop(h)
        \/ \E k \in Keys : Remove(k)
        \/ Clear

Spec == Init /\ [][Next]_table

-----------------------------------------------------------------------------

\* The shape of the table.
TypeOK == table \in Table(Keys, Hops)

\* A lookup is unambiguous: the re-insertion of a key reuses its block, even a
\* block that a purge gave back to the pool (data-flow-table.c 54-85).
UniqueKeys == \A b, c \in table.linked : table.blk[b].key = table.blk[c].key => b = c

\* No block leaks: what memb_alloc may not hand out is reachable from the list,
\* so remove and clear can return all of it.
NoLeak == table.used \subseteq table.linked

\* A spared key (the flow to the controller) is lost only by an explicit remove
\* or clear: no purge frees its block, hence no later insertion takes it over.
SparedKept ==
    [][\A k \in Spared : Has(table, k) =>
          Has(table', k) \/ Remove(k) \/ Clear]_table

\* data-flow-table.h:90, control-flow-table.h:89: "Remove all entry in the the
\* data flow table based on next hop address".
\* The code does not keep it: README, section 5.
PurgeRemovesAll ==
    [][\A h \in FailingHops : RemoveNextHop(h) =>
          \A k \in Keys \ Spared : Has(table', k) => Get(table', k).hop # h]_table

\* data-flow-table.h:78: "Insert or updates an entry": a call for one key leaves
\* the routes of the other keys alone.
InsertTouchesOneKey ==
    [][\A k \in Keys : (\E h \in Hops, a \in Actions : Insert(k, h, a)) =>
          \A j \in Keys \ {k} : Has(table, j) =>
              Has(table', j) /\ Get(table', j) = Get(table, j)]_table

-----------------------------------------------------------------------------
(* The table as the map its header describes. *)

RouteOf(e) == [hop |-> e.hop, act |-> e.act]

NextHopOf(r) == r.hop

Contents == [k \in {j \in Keys : Has(table, j)} |-> RouteOf(Get(table, k))]

Abstract == INSTANCE FlowMap WITH
              Routes <- [hop : Hops, act : Actions],
              Capacity <- TableSize,
              HopOf <- NextHopOf,
              map <- Contents

\* As long as no next hop fails the table implements the map.
RefinesMap == Abstract!Spec
=============================================================================
