---------------------------- MODULE NeighborTable ----------------------------
(***************************************************************************)
(* From what a node hears of its neighbors to what it reports of them: the *)
(* neighbor table (contiki-sdn/sdn-neighbor-table.c), the two discoveries  *)
(* that fill it, collect-nd by passes over collect's list and naive-nd     *)
(* beacon by beacon, and the neighbor reports, one of them under way at a  *)
(* time.  A pass marks all entries, inserts the neighbors collect knows    *)
(* and removes what is still marked; only a considerable change of a       *)
(* metric counts as one.                                                   *)
(***************************************************************************)
EXTENDS Integers, Lists, FiniteSets

CONSTANTS Neighbors,
          Metrics,       \* the metrics collect gives its neighbors
          Collect,       \* collect-nd fills the table, not naive-nd
          TableSize,     \* SDN_NEIGHBOR_TABLE_SIZE
          UintMod,       \* 2^16: the metric is an unsigned of the int's width
          Delta,         \* SDN_NEIGHBOR_ETX_DELTA
          Factor,        \* 1.0 + SDN_NEIGHBOR_ETX_SENSIBILITY / 100.0
          MaxChanges     \* bound: changes of what collect knows

NeighborTableAssumption ==
    /\ TableSize \in Nat \ {0} /\ UintMod \in Nat \ {0} /\ Collect \in BOOLEAN
    /\ Delta \in Nat /\ Factor \in Nat \ {0} /\ MaxChanges \in Nat
    /\ Metrics \subseteq 0..(UintMod - 1)

VARIABLES table,      \* sdn_neighbor_table, its entries in the order of the list
          taken,      \* how many blocks of neighbor_table_memb are in use
          collected,  \* collect's list of neighbors
          steady,     \* sdn_state = SDN_STEADY_STATE
          due,        \* should_send_nd
          locked,     \* sdn_neighbor_locked
          \* For the properties:
          reported,   \* the content of the last report that was sent
          known,      \* the content of the last report that was acknowledged
          refused,    \* a report was refused since, whatever the reason
          passes,     \* passes since collect's list changed, up to two
          changes     \* of collect's list

vars == <<table, taken, collected, steady, due, locked, reported, known, refused, passes, changes>>

Addresses(list) == {list[i].addr : i \in DOMAIN list}
Content(list) == {[addr |-> list[i].addr, metric |-> list[i].metric] : i \in DOMAIN list}
PlaceOf(list, n) == CHOOSE i \in DOMAIN list : list[i].addr = n
EntryOf(list, n) == list[PlaceOf(list, n)]

Init ==
    /\ table = <<>> /\ taken = 0 /\ collected = <<>>
    /\ steady = FALSE /\ due = FALSE /\ locked = FALSE
    /\ reported = {} /\ known = {} /\ refused = FALSE
    /\ passes = 0 /\ changes = 0

-----------------------------------------------------------------------------
(* The table: t is a record of the list and the number of blocks in use *)

\* The metric changed by more than Delta and by more than the factor.  The
\* subtraction is one of unsigned numbers.
Considerable(held, metric) ==
    /\ metric < (held - Delta) % UintMod \/ metric > (held + Delta) % UintMod
    /\ metric > held * Factor \/ metric * Factor < held

Renewed(e, metric) ==
    IF Considerable(e.metric, metric)
    THEN [e EXCEPT !.metric = metric, !.status = "CHANGED"]
    ELSE [e EXCEPT !.status = "STATIC"]

\* sdn_neighbor_table_insert; list_add moves an entry to the end.
Insert(t, n, metric) ==
    IF n \in Addresses(t.list)
    THEN [t EXCEPT !.list = Append(Without(@, PlaceOf(@, n)), Renewed(EntryOf(@, n), metric))]
    ELSE IF t.taken < TableSize
    THEN [list |-> Append(t.list, [addr |-> n, metric |-> metric, status |-> "CHANGED"]),
          taken |-> t.taken + 1]
    ELSE t

\* sdn_neighbor_table_edit
Edited(list) == [i \in DOMAIN list |-> [list[i] EXCEPT !.status = "EDIT"]]

Marked(list) == {i \in DOMAIN list : list[i].status = "EDIT"}

\* sdn_neighbor_table_update: what is still marked goes,
Updated(t) ==
    [list |-> Among(t.list, DOMAIN t.list \ Marked(t.list)),
     taken |-> t.taken - Cardinality(Marked(t.list))]

\* Fault: only a new or changed entry makes the pass one with news.
HasNewsChanged(t) == \E i \in DOMAIN t.list : t.list[i].status = "CHANGED"

\* and the pass has news if anything went or changed.
HasNews(t) == \E i \in DOMAIN t.list : t.list[i].status \in {"EDIT", "CHANGED"}

\* sdn_neighbors_table_act, before the update
Passed(list, number) ==
    LET after[i \in 0..Len(collected)] ==
            IF i = 0 THEN [list |-> Edited(list), taken |-> number]
            ELSE Insert(after[i - 1], collected[i].addr, collected[i].metric)
    IN  after[Len(collected)]

-----------------------------------------------------------------------------
(* The reports *)

\* sdn_send_neighbor_report: not while one is under way, not without a neighbor,
\* and not if the pool of packet buffers is empty, which it may be at any time.
Report(list) ==
    /\ \/ refused' = TRUE /\ UNCHANGED <<locked, reported>>
       \/ /\ ~locked /\ list # <<>>
          /\ refused' = FALSE /\ locked' = TRUE /\ reported' = Content(list)
    /\ UNCHANGED known

\* nd_event
NdEvent(list) ==
    IF steady THEN Report(list) /\ UNCHANGED due
    ELSE due' = TRUE /\ UNCHANGED <<locked, reported, known, refused>>

\* cd_event
ControllerFound ==
    /\ ~steady
    /\ steady' = TRUE /\ due' = FALSE
    /\ IF due THEN Report(table) ELSE UNCHANGED <<locked, reported, known, refused>>
    /\ UNCHANGED <<table, taken, collected, passes, changes>>

\* The acknowledgement of the report: sdn_send_unlock_neighbor
Acknowledged ==
    /\ locked
    /\ locked' = FALSE /\ known' = reported
    /\ UNCHANGED <<table, taken, collected, steady, due, reported, refused, passes, changes>>

-----------------------------------------------------------------------------
(* The discoveries *)

\* The process neighbors_discovery, each minute
CollectPass ==
    /\ Collect
    /\ LET t == Passed(table, taken)
       IN  /\ table' = Updated(t).list /\ taken' = Updated(t).taken
           /\ IF HasNews(t) THEN NdEvent(Updated(t).list)
              ELSE UNCHANGED <<due, locked, reported, known, refused>>
    /\ passes' = IF passes = 2 THEN 2 ELSE passes + 1
    /\ UNCHANGED <<collected, steady, changes>>

\* naive_nd_input: an event even when there was no room for the neighbor
NaiveBeacon(n) ==
    /\ ~Collect /\ n \notin Addresses(table)
    /\ LET t == Insert([list |-> table, taken |-> taken], n, 1)
       IN  table' = t.list /\ taken' = t.taken /\ NdEvent(t.list)
    /\ UNCHANGED <<collected, steady, passes, changes>>

\* Collect hears of a neighbor, forgets one or measures another metric.
CollectChanges ==
    /\ Collect /\ changes < MaxChanges
    /\ \/ \E n \in Neighbors \ Addresses(collected), m \in Metrics :
             collected' = Append(collected, [addr |-> n, metric |-> m])
       \/ \E i \in DOMAIN collected : collected' = Without(collected, i)
       \/ \E i \in DOMAIN collected : \E m \in Metrics \ {collected[i].metric} :
             collected' = [collected EXCEPT ![i].metric = m]
    /\ changes' = changes + 1 /\ passes' = 0
    /\ UNCHANGED <<table, taken, steady, due, locked, reported, known, refused>>

Next ==
    \/ CollectPass
    \/ \E n \in Neighbors : NaiveBeacon(n)
    \/ CollectChanges
    \/ ControllerFound
    \/ Acknowledged

Spec == Init /\ [][Next]_vars

-----------------------------------------------------------------------------
TypeOK ==
    /\ table \in Seq([addr : Neighbors, metric : Nat, status : {"STATIC", "CHANGED"}])
    /\ collected \in Seq([addr : Neighbors, metric : Metrics])
    /\ {steady, due, locked, refused} \subseteq BOOLEAN
    /\ \A c \in {reported, known} : \A e \in c : e.addr \in Neighbors /\ e.metric \in Nat
    /\ passes \in 0..2 /\ changes \in 0..MaxChanges

\* Each neighbor has one entry and each entry one block, whatever order the
\* passes insert, move and remove them in.
TableSound ==
    /\ taken = Len(table) /\ taken <= TableSize
    /\ \A i, j \in DOMAIN table : table[i].addr = table[j].addr => i = j

\* A full table takes a new neighbor only in the pass after the one that
\* removed an old one: two passes after the last change it holds all that
\* collect knows, or is full of them.
SettledInTwo ==
    Collect /\ passes = 2 =>
        /\ Addresses(table) \subseteq Addresses(collected)
        /\ Len(table) = IF Len(collected) < TableSize THEN Len(collected) ELSE TableSize

\* The metric the controller is told stays close to what collect measures,
\* however slowly it drifts: a pass after the last change they differ by no
\* more than Delta or no more than the factor.
MetricsClose ==
    passes > 0 =>
        \A n \in Addresses(table) \intersect Addresses(collected) :
            LET held == EntryOf(table, n).metric
                metric == EntryOf(collected, n).metric
            IN  \/ metric <= held + Delta /\ held <= metric + Delta
                \/ metric <= held * Factor /\ held <= metric * Factor

\* As long as no report is refused the last one sent shows the table as it is:
\* the passes overlook no change of it.
EveryChangeTold ==
    /\ steady /\ ~refused => reported = Content(table)
    /\ ~steady /\ table # <<>> => due

\* sdn-process-packets-controller.c: "Removes edges not informed."  Once the
\* table has settled and the reports are through, the controller knows of no
\* neighbor that is gone.
\* The code does not keep it: README, section 5.
GoneForgotten ==
    Collect /\ steady /\ passes = 2 /\ ~locked =>
        {e.addr : e \in known} \subseteq Addresses(table)
=============================================================================
