# A verification project for IT-SDN

IT-SDN is a software-defined-networking stack for wireless sensor nodes. Nodes run Contiki;
they forward packets by two flow tables, and ask a controller for the entries they lack. The
controller runs on a PC and reaches the network through a controller node on a serial line.
This directory holds TLA+ models of the stack, TLC runs that check them on small instances
and TLAPS proofs of the results that hold for every size.

## 1. The system

| component | state | operations | talks to |
|---|---|---|---|
| flow tables (`sdn-common/*-flow-table.c`) | a `LIST` of blocks of a `MEMB` pool, one per table | insert, get, remove, remove by next hop, clear | insert releases kept packets; the send layer removes by next hop |
| send layer (`contiki-sdn/sdn-send.c`) | status, retry count, back-off timer, retransmission window of four packets with a timer each, neighbor-report lock | enqueue and wake up, send process, MAC report, timers, acknowledgement of a window slot | queues, packet treatment, network driver |
| queues and pool (`sdn-queue.c`, `sdn-packetbuf.c`) | two rings, a pool of 12 buffers | enqueue, dequeue, head; get, put | everybody |
| unknown routes (`sdn-unknown-route.c`) | ten kept packets | keep a packet and request its route; release the packets of a route | called by packet treatment and by the flow tables |
| receive path (`sdn-receive.c`) | receive queue, last sequence number of 16 sources | filter duplicates, queue, post an event | core process |
| packet treatment (`sdn-process-packets.c`) | the packet under treatment | look up, forward, drop, or execute one of the receive actions | all of the above |
| core (`sdn-core.c`) | state (awaiting the controller, steady), pending report | core process, discovery events, calls of the application | all of the above |
| discovery (`sdn-nd`, `sdn-cd`, `sdn-neighbor-table.c`) | neighbor table, next hop to the controller | beacons, input, events | core |
| network driver, commutator, energy manager | callback in use, counter, battery | one transmission at a time | MAC, send layer |
| controller node (`sdn-serial.c`, `controller-node.c`) | receive frame, same queues | frames in and out, acknowledgements | serial line, send layer |
| controller (`controller-server`) | send queue over the serial line, digraph, cache of the tables of the nodes, timers | neighbor reports to graph, shortest paths, setups, resending | serial line |

Contiki is cooperative: a process event, a timer callback or the MAC's callback runs to its
end. The interleavings that matter are therefore those of whole handlers, and what is hard
is what a handler leaves behind for the next one: a buffer, an event, a timer, a slot, a
lock. All the queues are bounded and every "full" or "empty" answer is an error path with
its own clean-up. `PROJECT.json` lists the hazards line by line.

What makes each component correct:

* flow tables: a key is in one block; no block leaks; the route to the controller survives
  the loss of a neighbor; a call for one key leaves the others alone;
* send layer: one and only one wakeup for a queue that is not empty, none for an empty one;
  progress; every buffer returned once; retries bounded; the window consistent with its
  timers; what is promised to be retransmitted is;
* unknown routes: a packet is kept only while its route is unknown, and reaches the send
  queue when the route comes;
* node: all of these under every order of events;
* receive path: no packet is treated twice, none is dropped that was not treated;
* discovery: a hop is a node that hears; hops lead to the controller; the table and the
  reports follow what is heard;
* commutator: the report of a frame comes once, to the stack that sent it, and says the truth;
* serial line: one packet out at a time, every answer about that packet, no stall; frames are
  recognised again after a loss;
* controller: its graph is what was reported; a route is a path of the graph, the shortest
  one; what its cache believes agrees in the end with the tables of the nodes; a multiple
  setup leaves each node its own action.

## 2. Modules

| module | role |
|---|---|
| `FlowTableOps` | both flow tables as functions from table to table; `used` (the pool) and `linked` (the list) are separate sets because the purge by next hop changes only one of them |
| `FlowTable` | one table under any sequence of calls; constants make it the data or the control table |
| `FlowMap` | what the headers promise: a bounded map; `FlowTable` implements it while no next hop fails |
| `SdnPackets` | packet types, their routing classes, and one record shape with the fields that decide anything |
| `SendOps` | the send layer as functions from memory to memory; its invariants as operators, used by `SdnSend` and `SdnNode` |
| `SdnSend` | the send layer with the layers above and the MAC as environment |
| `NodeOps` | receive path, core process, packet treatment, unknown routes, flow tables, as functions on the same memory extended |
| `SdnNode` | a whole node: one action per event Contiki delivers |
| `FlowTableProofs` | the theorems about `FlowTable`, purges included; `FlowTable` implements `FlowMap` |
| `SdnNodeProofs` | lemmas about the operators of `SendOps`, the theorems about `SdnSend`, and on the same lemmas those about `SdnNode`; the names of `SdnSend` differ from those of `SdnNode` for that |
| `Fifo`, `SdnQueue` | a bounded queue; the ring of `sdn-queue.c`, with its head, tail and count |
| `SeqnoHistory` | duplicate detection: the array of last numbers, behind links that lose and repeat packets, with counters that wrap and sources that restart |
| `ReceivePathProofs` | the array is the most recent sources and each packet is treated once; the ring implements the queue |
| `Commutator` | two stacks, one callback and one count between them and the MAC; callbacks that send again; the battery check of the driver |
| `NeighborTable` | the passes of collect-nd and the beacons of naive-nd over the table, and the neighbor reports with their lock |
| `NaiveDiscovery` | `naive_directed_cd` and naive-nd on all nodes, the controller node and the controller PC's news, over one-way links |
| `Lists` | walks over the code's linked lists, and lists with some of their members left out |
| `NeighborhoodProofs` | in the discovery, whatever is told is of links, and a hop hears its node, in every network; from the commutator, every report reaches its sender and is true; the neighbor table follows what is heard |
| `SourceRoute` | packets that carry their route, and multiple setups, along a small network |
| `SerialFrame` | the bytes of a frame, the escapes, and the reader of either end, over a line that loses bytes or carries printed text |
| `SerialLink` | the PC's send queue, the controller node's serial process, core process and send layer, and the answers between them |
| `SerialLinkProofs` | a reader is back in step with the frames after any loss, for frames of any length; one packet is out at a time and every answer is about it, for queues of any length |
| `DigraphOps`, `ReportOps`, `Adjacency`, `Topology` | the graph library as functions; what a neighbor or an energy report makes of a graph; the relation of links a reader expects; reports in any order, which implement it |
| `DijkstraOps`, `Dijkstra` | the route search with its priority list; graphs built and taken apart in any order |
| `RouteCache`, `Controller` | the controller's cache by flow and by address; requests, reports, registrations, acknowledgements and the timer over graph, search and caches |
| `GraphProofs` | what each operation of the graph library makes of a graph, and what a search finds, for any nodes and any graph |
| `ControllerProofs` | the graph stays well formed and its weights current under any reports; routes are found to what can be reached; what the caches hold as online was told |
| `RouteSetup`, `RouteSetupProofs` | one entry of the cache against the node it is for, over channels that lose, repeat and reorder; the proofs of what online means, and that what a source-routed or multiple setup installs was sent to that node |
| `MC*` | values of the constants for TLC; most put several instances side by side, see section 3 |

The modules compose as follows. `SdnNode` is `NodeOps` over `SendOps` and `FlowTableOps`.
`Controller` is `DijkstraOps` and `ReportOps` (over `DigraphOps`) with `RouteCache`; it takes the delivery of a
setup as one step, and `RouteSetup` (losses, resending) and `SourceRoute` (the way there) open
that step. `SerialLink` takes whole frames, `SerialFrame` opens them. `SdnQueue` shows that the
sequences the other modules use for queues are what the ring is. `Topology`, over `ReportOps`, implements
`Adjacency`, `SdnQueue` implements `Fifo`, `FlowTable` implements `FlowMap`.

Assumptions about constants are named in the module that declares them. `SourceRoute`, `Topology`,
`Dijkstra`, `SerialFrame`, `NeighborTable` and `NaiveDiscovery` have them as definitions, since
these are only instantiated; the `MC` module that does so assumes each for its own values.

An action is one handler run to its end, so a handler is a composition of operators in the
order of the code's calls. For example, `CoreHandler` dequeues, treats, forwards through
`Submit` (the macro `ALLOC_AND_ENQUEUE`), puts the buffer back and re-posts the event. A few
correspondences that are not obvious:

* `posted` and `corePosted` count the events posted to the two processes; `air` is the packet
  the MAC has, until it calls back; a report is ignored unless that packet is still the head.
* `slot[i].pkt` stays when `slot[i].live` goes: the code clears the length only, and later
  searches compare the bytes that remain.
* `Submit` spends a sequence number even if the queue refuses the packet, as the macros do.
* `seqNo` counts modulo `SeqMod` (256 in the code; the runs use 1 or 2, so that it wraps all
  the time).
* `SDN_SEND_FULL_WINDOW` does not occur: `sdn_send_done` sets it and overwrites it with
  `SDN_SEND_IDLE` a few lines later.
* An operator that no specification uses and that stands before a similar one (`BlockForLast`
  before `BlockFor`) is a plausible mistake in that operator; substituting it must break the
  property it is listed with in `PROJECT.json`.
* `RouteSetup` numbers the routes of an entry in the order they come up; the route itself does
  not matter for the agreement, only whether an older one takes its place or is mistaken for it. The
  route along which a setup travels is computed when it is sent
  (`sdn-process-packets-controller.c:784`), and each node on it has its own queue and back-offs, so
  packets of one entry overtake each other, and a repetition may come after a later packet (the
  duplicate filter compares with the last number only, `sdn-receive.c:133-138`). A channel is
  therefore the set of the routes under way: one of them arrives, in any order, and may arrive again.
* In `SeqnoHistory` a packet has an identity (`id`) besides its number, so that a number that
  comes round again is not taken for the packet that had it before. The controller has two
  counters under one address: the PC's and its node's.
* `NeighborTable` subtracts metrics modulo `UintMod`, as 16-bit integers do.
* In `NaiveDiscovery`, `Outcomes` has two alternatives for the walk of a beacon past an entry
  it has just removed: `list_remove` and `memb_free` leave it to the library what comes next.

The node is configured as `applications/project-conf.h` and `contiki-sdn` have it:
reliability on, unknown routes kept and asked for. The discovery protocols are environment:
they report a change of the neighbor table or a next hop to the controller, by a packet or by
themselves, and they send beacons.

## 3. Runs

A run asks one question of one part of the system. Where the question needs several instances,
the `MC` module holds them together: a variable `part` (or `scenario`) is chosen in the initial
state and never changes, the variables of one part move and those of the others stay, so that the
behaviors are those of the parts, one after another, and nothing is checked of a mixture. The
fairness of a part is restated on the steps of the whole. Counts are distinct states.

| run | question | answer |
|---|---|---|
| `table_map` | is the table the map of its header, at capacity too? | yes without failing hops (504) |
| `table_purge` | what survives purges that leave freed blocks in the list? | unique keys, no leak, the flow to the controller (1 250) |
| `send` | pool, wakeup, window and retries over all interleavings; does the queue keep moving? | hold; yes, under the fairness below (126 976) |
| `node` | do they hold for a whole node, do kept packets get their route and a place in the queue, does the route to the controller stay? | yes (388 731) |
| `receive_path` | is each packet treated once and none missed; are the most recent sources kept; are the rings FIFOs? | yes, the first with one way per source and a place for each (142 364) |
| `setups` | was an online entry installed, is it still, and is each confirmed in the end; does each node on the way treat its own part, and nobody else's? | yes, unless the entry or the table went back; yes for data setups (94 980) |
| `controller` | is the graph what the reports say; is a route found where there is one, a path, and shortest over equal links; was each cached entry told, and do the cached next hops lead to a target over known links? | yes, the first in the build for both directions (70 348) |
| `serial` | one packet out, answers for it, a queue that empties; readers back in step after losses? | yes; it empties on a line that loses nothing (379 073) |
| `neighborhood` | are reports true and each send reported; does the table follow the neighborhood and the controller learn of it; is a hop one that hears, and found around a ring? | yes, as far as section 5 leaves it (253 530) |
| `controller_crash` | does every update complete? | **no**: it needs a route that is gone |
| `table_one` | does an insert touch one key only? | **no**: it may take over a purged block another key is still found in |

The parts:

| run | parts |
|---|---|
| `node` | `flows`: data packets, kept or forwarded, against setups and purges. `transit`: setups and acknowledgements for others, source-routed and by address. `reports`: discovery, registration, beacons, reports, acknowledgements, with sequence numbers |
| `receive_path` | `link`: a place and a way for each source. `crowd`: more sources than places, two counters under one address, restarts, any way. `send queue`, `receive queue`: the two rings, which differ in what an empty one gives out |
| `setups` | `entry`: a cache entry and its node, whose next hops may fail, over channels that lose, repeat and reorder. `onward`: every route and every walk that goes on, whole or an address short. `meant`: the same with a walk that comes back, without multiple control setups |
| `controller` | `reports`: neighbor and energy reports. `routes`: a ring with a chord, built and taken apart in any order. `flows`: two reporting nodes, links that weigh 1 or 10. `targets`: a target of one flow at either end of a chain. `addresses`: the cache by address |
| `serial` | `steady`, `lossy`: whole frames, without and with lost answers, and a single buffer at the node. `node`, `pc`: bytes, as either end reads them |
| `neighborhood` | `shared`, `again`: two stacks whose callbacks only return, or send. `collect`, `metrics`, `naive`: the table under collect-nd with more neighbors than places, under metrics on both sides of the limits, and beacon by beacon. `ring`, `lossy`: the discovery of the controller around a one-way ring without loss, and with beacons and reports lost at will |

`OneUnderWay`, `SettledInTwo`, `MetricsClose`, `RoutesCurrent` and others of that kind are stated
in their modules; the `MC` modules join those that answer one question into one property
(`SendsReported`, `TableFollows`, `OneTargetCurrent`), each under the part it is meant for.

The violation runs find the shortest counterexample to what the code says of itself and are
described under "findings". `table_one` and `PurgeRemovesAll` of section 5 have one cause,
`memb_free` without `list_remove`. They bound the rest of the project: `SparedKept` and
`ControllerFlowKept` hold in spite of it because the block of the route to the controller is never
freed, and `RefinesMap` is checked with no failing next hop.

Bounds. Two blocks against three keys fill a table and make it refuse. A send queue of two and
a pool of three or four exhaust the queue with a free buffer, and the pool with a free place in
the queue: the two error paths of every submission. A window of two slots (of one, in `node`) has
the cases empty, partly used, full, and freed below `sld_count`. Two retries distinguish the first
failure from the last; one, in the scenario `reports`, makes every failure the last. Two addresses
and a third that is reached only through the second give a forwarded, a received and an unknown
destination; two flows give the controller's and another. Three scenarios of a node, each with its
own set of packets heard, keep the product small: the packet kinds of one interact through the
shared pool, queues and tables, and each includes the environment actions its packets interact
with. No run is bounded by a state constraint.

In the other modules the bounds are chosen in the same way: the smallest size with a full, an
empty and a wrapped state. Rings have three places; the history has two for three sources and
more; the counters wrap after three packets. The graphs have three or four nodes, and five for the
search. Three routes of an entry let an old setup arrive after a newer one, with another
route since; channels have no bound, since they are sets. The serial line has two packets for the radio and one for the node itself, so that one is
out, one waits, and one may find no next hop. The commutator's count has four values, so that two
frames under way bring it near its end; it does not come round while the MAC has a frame
(`MayWrap = FALSE`), which would take 255 refused sends within the milliseconds of one frame. `MaxChanges` (three or four news to the neighbor
table), `MaxSends` (three frames of each stack), `MaxOrders` (two packets at a time along source
routes), `MaxSent`, `MaxRoute` (three routes of an entry), `Beacons` and `Clicks` bound what the
environment does; `Listed` the nodes that reports of `Topology` name. The ring of the discovery is
one-way so that reports and news go opposite ways round; its lists are exactly long enough.
Loops of hops need six nodes (section 5); no run claims there are none.

Fairness. In `send`: Contiki delivers posted events and expired timers: weak fairness of
`SendRuns` and `TrickleRunsOut`. The MAC calls back after each transmission: weak fairness of its
report. A collision is not counted by `sdn_send_done` as an attempt, so a channel that answers with
collisions for ever keeps the head for ever; strong fairness of the other reports excludes just
that. Nothing is assumed of the layers above. `SlotRunsOut` needs no fairness, since it only adds
packets.

In `setups` the timer ticks, and of the setups and acknowledgements of the entry's present route,
sent again and again, some arrive (strong fairness of both receipts), without which nothing is ever
confirmed; routes under way from before may arrive, or not, at any time; what is in the air on a source
route arrives unless it is lost. In `serial`, part `steady`, each process that has an event or a
frame waiting runs, and the MAC reports (weak fairness). In `neighborhood` the MAC reports each
frame, without which no send is ever reported; the beacon timers go on and reports arrive, and in
the ring nothing is lost, since a lost entry is not repeated for ever and nothing would follow. The
other parts assume no fairness and claim no liveness.

## 4. Proofs

### Flow tables

`FlowTableProofs` proves the four properties of `table_purge` and `table_map` other than the
refinement, for every `TableSize` and every set of keys, hops, failing hops and spared keys,
from `TableSizeAssumption` and `FlowTableAssumption` (a positive size, an own address, at most
one initial key). The invariant is `Sound(table)`: type, unique keys, `used` within `linked`,
and `SparedHeld`: a linked block with a spared key is in use. The last part is what makes
`SparedKept` inductive. The purge breaks `used = linked`, after which `memb_alloc` may hand out
a block that still serves another key; a spared flow survives only because its own block is
never among those. `MembAllocUnused` shows that the first free block exists whenever there is a
free one, by the well-foundedness of the naturals.

The same module proves that the table implements `FlowMap` when `FailingHops = {}`. The
mapping is `Contents`. The extra invariant is `used = linked` (`Whole`); from it, a table with a
block to spare holds fewer keys than it has blocks (`RoomLeft`), which is the guard of `Put`,
and a block from the pool serves no key yet, so that an insertion changes one key
(`InsertMaps`). An insertion into a full table is a stutter. `PurgeRemovesAll` and `table_one` show
that the assumption on `FailingHops` cannot be dropped.

### Send layer

The first part of `SdnNodeProofs` proves, for every `SendQueueSize`, `PoolSize`, `MaxTxWindow`, `MaxRetransmit`,
`SeqMod` and every set of packets, the five invariants of `send`. The assumptions are the
named ones of `SdnPackets`, `SendOps` and `SdnSend`: the sizes are positive, `Sender` is an
address, `None` is not, and only packets with a type are submitted.

None of the five is inductive alone. `RetriesBounded` needs to know that the counter stands
below the limit whenever a report can come; `OneDriver` needs the shape of the memory, that no
queued packet is the empty packet (or `air` could not tell a transmission from none), and
`Head(queue) = air`. The strengthening is `Sound(mem)`, the conjunction of type correctness,
queue bound, real packets in queue and live slots, wakeup, window and retries, together with
the conservation of buffers over `mem` and `held`. The argument has three layers:

1. Each operator on memories (`Submit`, `AwaitAck`, `RemoveElement`,
   `SendDone`, ...) keeps `Sound` and moves buffers as it should. Intermediate memories inside
   a handler are not sound (the queue may have no wakeup between `Departed` and
   `SendDownOnce`), so the lemmas about those say what holds at that point.
2. `LayerBegins`; `BorrowKeeps` for the two actions that move a buffer above; `HandlerKeeps` for
   any action that is one operator; `LayerMoves` over the disjuncts of `LayerNext`.
3. Each theorem follows from `LayerInvHolds` by temporal reasoning.

### Queues

`ReceivePathProofs` proves for every size up to 255 that head, tail and count agree and that the
used places hold packets (`RingIsSound`), and that the ring implements `Fifo`, with the mark
that is written after the packet is queued (`RingRefinesFifo`). The mapping reads `size` places
from `head` on. Its lemmas are about places: that different offsets are different places, and
that one more is the next, whichever end moves; then one lemma per operation.

### Route setup

`RouteSetupProofs` proves the type invariant and what online means (`OnlineInstalled`), for any
number of routes and any period of the timer, over channels that lose, repeat and reorder, with
routes that return and next hops that fail. An online entry is not sent again
(`sdn-reliability.c:21`), so its node should have the route. What the code gives is this: the node
has had it, if its table has room; and it has it still, unless (`wentBack`) the entry returned to an
earlier route, or, since it has its route, a setup arrived after one of a later route, the table
was full, or the next hop failed. Section 5 shows that each of the exceptions is needed
(`OnlineIsConfirmed`). `wentBack` and `had` are history variables; they guard nothing.

The argument has two parts. What the node acknowledged it had (`AckedWasHad`). And while nothing
went back, nothing under way is later than the entry, and an acknowledgement of the entry's route
means that the table has it (`NoneLater`): a route of its own number is fresh when the entry gets
it, so that no acknowledgement of it is under way yet; from its installation on, a setup that is
stored is neither earlier than the table nor later than the entry.

### Duplicate detection

`ReceivePathProofs` proves that the array holds the sources heard most recently, in order, each
once and with its last number, for any number of sources, places and links (`HistoryIsRecent`).
The invariant is inductive with the types; the work is in one lemma about a registration
(`RegisteredRecent`): the places up to the sender's move by one, those behind it stay, and the
sender has no second place because two places of one sender would have to be older than each
other.

`EachOnce` (in a run, `LinkExact`) says more, and needs more: that a packet is treated once and that
what is dropped as a duplicate was treated, for any number of sources, links and places and any
modulus. Its premise `OneWayEach` is what section 5 shows the code to depend on: each source comes
over one link and has one counter, nobody restarts, the sources that send have a place each, and a
number does not come round again before the packets that had it are gone (`Gap < SeqMod`). The last
is a condition on sizes; the others are on the network. The invariant (`Exact`) ties the number of a
packet on its link, and that of the last packet heard, to how many packets its source sent since: it
is as many steps behind the counter (`Before`). On the link the identities rise from that of the last
packet heard, so two packets with one number are one packet as long as the steps are fewer than
`SeqMod`. That no source loses its place is the pigeonhole principle (`PlaceToSpare`): the array
has a place for each, and none has two.

### The node

`SdnNodeProofs` then proves the six invariants and two of the action properties of `node`, for every size
of queue, pool, tables, window and array of kept packets, every set of flows and addresses, and any
packets heard. The assumptions (`SdnNodeAssumption`) are about the network: a packet heard comes from
another node and is `WellFormed`, that is, its fields hold what the struct of its type has there
(`sdn-protocol.h`), its setups carry an action the controller sends, and its new hop is an address. No
order of events, no routes and no contents are assumed.

The invariant `Whole` is `Sound` of the send layer, the shape of the other fields, both tables without
double keys or lost blocks and the controller's flow in a block in use, no kept packet with a route,
one event for a receive queue that is not empty, and the balance of the buffers: those of the send
layer, those of the kept packets and those of the receive queue are `PoolSize`.

A handler is a chain of calls, each of which has to be followed through the same conditions. The
relation `Advances(s, t)` gathers what any call may do on the way: `t` is sound (`NodeSound`), the
buffers outside the receive queue are as many as before, the receive side is untouched, the send
queue grows at its end only, the route to the controller stays, and what is no longer kept is in the
queue behind what was there, or the queue is full. It is transitive (`AdvancesTrans`), so each
operator of `NodeOps` has one lemma, and a handler one that strings them together. `Steps(s, t)` is
what is left of it between two events, when a handler has taken its packet from one of the queues;
there is one lemma per kind of event and `NextSteps` joins them.

Three places need more than a chain. The release of kept packets (`SolveAdvances`) submits a
subset of the array in order: its lemmas `NthExists` and `NthOnto` say that numbering the members of
a finite set of naturals in order reaches each once. An insertion makes routes: the packets it gives
a route are exactly those of its key, and the release takes just these, which is why
`KeptHaveNoRoute` holds again when the call returns. A purge only removes routes, and spares the
controller's.

One property had to be made precise for the proof. A packet that is released is in the send queue
unless that was full (`KeptReachesQueue`), but the queue it enters is the one the handler leaves, from
which the send process may just have taken its head: the head may itself be a setup the node sends
to itself, whose treatment brings the route. A full queue is then one short after the event.

### Serial line

`SerialLinkProofs` proves `LinkInOrder`: the PC has at most one packet out, an answer on its way is
about the head of its queue, no buffer of the controller node is overwritten while an event refers to
it, and packets go out in the order they were queued; for any packets, limits, pool sizes, queue
contents and losses of answers. Its premise `Undisturbed` is that the beacons of the controller node
do not fail and that the user asks for the node's address once at most. Both are needed: section 5 has
the first, and two requests and the packet that is out would be three frames, one more than the
node has buffers (TLC finds the overwritten one with `Clicks = 2`).

The invariant `LinkInv` rests on a count. Whatever stands for the PC's turn, namely the packet out
on the line, the events of the node's processes that carry it, its place in the node's send queue
and the answers coming back, is in one of several sequences; the counts (`N`) over all of them add
up to at most one (`Waits`), and each of these is the head of the PC's queue (`OnTheWay`). The lemmas
on counting (`CountAppend`, `CountTail`, `CountAtLeast`) tell how a step moves one from a sequence
to the next, and there is one lemma per action. The request for the node's address is counted
apart (`OneRequest`): the timer asks until the address is known, the user once at any time. A
buffer is written again after one other frame; an event that still waits for it would be of the
packet that is out or of one of the two requests, and `Stale` says that nothing can follow it. The order is about numbers given to packets when they are queued: those sent rise, and
those in the queue rise and lie above them (`Ordered`); a packet that is sent again is still the head.

The same module proves `FramesRecover`. `ReaderRecovers` is about either reader, for any bytes, any
lengths of frames and header, and whatever is lost or printed: from the second frame after that on, each
frame is handed over as it was sent, once and nothing else, and a lost byte costs no frame but its own. Its
premise is `Conforming`: no frame exceeds the reader's limit, and text in frames has no header that would
have to be escaped. Section 5 has what happens without either. The properties look only at a line that is
read to its end, so the invariant (`BytesInv`) says what the reader holds at every byte on the way: the rest
of the line is the code of the last bytes of the frame (`RestEnds`), and the reader is before the
frame, has as many of its first bytes as are read, has read an escape besides, or is at the end (`InFrame`:
`AtStart`, `AtByte`, `AfterEscape`, `AtEnd`). What an earlier damage left is flushed by the boundary that
opens the next frame, at the cost of one more frame if the reader was after an escape: that is why two are
counted. `EncodedOpens` and `NextByte` take the code apart one byte at a time; the code is a recursive
function, of which `StepsExist` shows that it has a value at each place.

### Commutator

`NeighborhoodProofs` proves `ReportsTrue`: a report of a frame reaches the stack that sent it, no frame is
reported twice, and success is reported only of a frame the MAC sent; for any number of stacks, any of
which may send from their callbacks, and any width of the count. Its premise is `~MayWrap`: if 256 sends
fell within one frame, the count would read zero while the MAC has a frame, and the next send would take
the callback from it. The invariant (`Inv`) adds that the MAC has one frame at most (`OneFrame`), whose
callback is kept or, after a callback that sent, erased, and that a frame the MAC still has, or that was
not sent, has neither a status nor a report (`StillOpen`). It does not say that a callback is kept: that
is what section 5 shows to fail. `CountIsTrue` has the stronger `OneUnderWay` for stacks whose callbacks
only return: the count is zero exactly when the MAC is free, and the callback is that of the frame.

### Source routes

`RouteSetupProofs` also proves `AsMeant` of `SourceRoute`: an action a node has was sent to that node, and
only the receivers of a packet treat it; for any nodes, address tables, routes and walks of any length, also
such as come back, and whatever is lost. Its premise is that there are no multiple control setups, whose
actions go astray (section 5). The invariant (`PacketsCarry`) says what every packet in the air has left of
its order. A packet of a multiple setup is either on its route, with the whole of the elements and as much
of the addresses as it has not used, or at the end of it; then its elements are the last ones of the walk
read from the walk's end, and their number is the place on the walk where the packet is (`OnItsWay`). So the
element a node takes is its own, and the next is the node the packet goes to. There is one lemma for each way
on (`FollowCarries`, `PlainCarries`, `MultCarries`), and `WayKept` draws from them what all arrivals share.
That the packets arrive, and are treated by everyone, is liveness and stays with TLC.

### Discovery of the controller

`NeighborhoodProofs` also proves `HopHears` of `NaiveDiscovery`, for every network of finitely many nodes,
every number of blocks and lifetime, with or without loss (`HopsAlwaysHear`), and `HopsHear` of the run from
it: the hop a node takes to the controller hears the node. Nothing a node receives says who hears it, so the
invariant (`DiscoveryInv`) follows the news all the way round: every entry of every list says of its node a
hop that is over a link (`Good`), the neighbors in a table are heard, and so is what the controller PC knows;
a list has each node once. `UpdatedGood` and `DirectGood` say so of one entry, `HeardGood` of what a node
makes of it, `HeardAllGood` of a whole message, `OutcomesGood` of what a beacon sends and leaves, whichever
way the walk past an expired entry goes, and `NewsGood` of what a report makes the PC tell; there is one lemma
per action. A message is read entry by entry, by a recursive function; that it has a value, and what holds of
the value, is shown by counting up to its last entry (`CountUp`, from the well-foundedness of the numbers).
That a node keeps its way to the controller does not follow, and is not so (`NoLoop`, section 5); that all
are found is liveness and stays with TLC.

### Neighbor table

`NeighborhoodProofs` also proves `TableFollows` of the run, from a theorem on `NeighborTable`
(`TableAlwaysFollows`) for any neighbors and metrics, any size of the table, width of an unsigned and limits,
whichever of collect-nd and naive-nd is at work: an entry and a block for each neighbor, two passes after the
last change the table has all that collect knows, or is full of them (`SettledInTwo`), the metrics are
within the limits of those measured (`MetricsClose`), and the last report shows the table unless one was
refused (`EveryChangeTold`). Two passes are needed since a pass adds before it removes, in a table that
may still be full of what is forgotten; the invariant therefore says what the first pass leaves and what the
second makes of that. A pass goes over the neighbors in some order, entry by entry; one lemma follows an
entry through it, with the place a neighbor has in the table (`PlaceOf`) and what a list is without some of
its members (`Among`).

### The controller's graph

`ControllerProofs` proves `GraphKept` of the run (`GraphStaysSound`) for any nodes, metrics and energies, whatever
the nodes report in any order, and whatever edges and vertices come and go: edges join two vertices
of the graph, a vertex has one edge to another, deleting a vertex leaves no edge to it, and no weight is
stale. The assumptions are those of `Topology` and `Dijkstra`: metrics and energies are what a packet can
carry, a report lists finitely many nodes, and the build keeps links in both directions.

That weights are current is not inductive. A report of an energy weighs the edges to its sender only where
the sender has an edge back, so it needs that links are there in both directions (`Balanced`); and a
neighbor report keeps that only because what it marks in one direction it also marks in the other, so that
marks, too, go in pairs, and the two deletions at its end take the same links away. The invariant is therefore
`Good` (the shape, by vertex), `Fresh` and `Balanced`. One lemma of `GraphProofs` tells for each operation of the library which links
and which marks are there afterwards; `ReportedGraphIs` follows a report through its list, and `ChargedGraphIs` an
energy. The operations walk lists, so a list is shown to have a value by counting up (`StepsExist`), which
does not need induction over data; what is left of a list when some of it goes is `AmongIs`.

### The route search

`ControllerProofs` also proves `RouteSound` of the run (`RoutesStaySound`), from what `GraphProofs` shows of a search
in any graph (`SearchFinds`). The assumptions are those of `Dijkstra` and `DijkstraOps`: finitely many nodes, none of them `NoNode`, and metrics a packet can carry.

The reference is `Distances`, which relaxes every edge as often as there are nodes. The search is followed through its
visits: between two of them what was found was seen or waits, once, each was found over an edge from a vertex that
was seen (`Trees`), and all that a seen vertex has edges to is found (`Closed`). If nothing waits the search stands still,
and else each visit sees one vertex more, so that nothing waits at the end (`Finished`, `ExploredAll`). Each edge weighs at
least one, so the vertex another was found from is nearer (`RootNearer`): the way back passes no vertex twice, ends,
and ends at the source (`TracedBack`). In the other direction, whatever the reference finds nearer than `Infinite` is next to
something it found nearer still, which was seen (`CloserBeyond`), and along the way back the reference catches up with one
more vertex in each round (`CaughtMore`).

That the route is a shortest one where all edges weigh the same needs more, and only then: what waits is in order and
no nearer than what was seen (`Ordered`, `Level`), so a weight that was found is never lowered (`Steady`), and no edge leads
nearer (`Flat`). With different weights a vertex whose weight drops keeps its place and `Ordered` is lost; `RouteIsShortest`
(section 5) is what that comes to.

### The controller's caches

`ControllerProofs` also proves `CachesTold` (`CachesStayTold`) of `Controller`, for any nodes, flows, metrics
and times, whatever is requested, reported, registered and acknowledged, in any order, and whatever of it
cannot be sent. The theorem is of `Controller` with any values of its constants; the scenarios "flows",
"targets" and "addresses" of run `controller` are three choices of them.

What a handler may rely on is less than what it leaves: while routes are renewed, entries are marked and differ
from what their nodes have. So there are two invariants. `Busy` holds at every point of a handler: the state has
its shape, a node has one entry for a key (`Single`), and each entry is `Apt`: unmarked and online, it is what
its node was told, and marked and online it is one of the controller's own, which need no setup. `Rested`, between handlers,
is `Busy` with nothing marked (`Calm`). An entry is added only where none is found for its key, and a setup is
put down as told only when it is sent; there is one lemma for each way a cache is changed, and each says which
entries of which cache it alters (`Altered`, `Cleared`, `Turns`).

A route is written into a cache hop by hop, and the code takes the second vertex of a route without looking
whether there is one. That a search that finds anything finds at least two vertices (`Routes`) is therefore part of the
argument: what a search found has a vertex it was found from, which the search has seen and which is no
farther (`Searches`, `Past`). The walks over routes, caches and targets are folds, which are unrolled the way reports are.

### Model-checked only

Of the controller, `RoutesArrive`, `OneTargetCurrent` and the refinement `RefinesAdjacency`. Liveness (`Progress`, `FinallyConfirmed`,
`OnwardTreated`, `SteadyEmpties`, `SendsReported`, `RingFound`) is out of the prover's reach. `RoutesArrive`
is about next hops that were cached at different moments.

## 5. Where the code and its documents disagree

`table_one` and `controller_crash` are the two disagreements the project keeps a run for. The
properties below state what a header, a comment, a message or `TODO_LIST` says, are defined in
their modules, and are violated; each comes with the values of the constants under which TLC finds
it. To see one, instantiate the module with them and name the property in a configuration.

Nodes:

* `PurgeRemovesAll` (`FlowTable`). "Remove all entry in the the control flow table based on next hop
  destination address" (`control-flow-table.h:89`), but `sdn_controlflow_remove_next_hop` (`:107`)
  and its data twin call `memb_free` and never `list_remove`: lookups go on returning the entry.
  `FailingHops` not empty, the control table's constants of `MCFlowTable_map.cfg` otherwise.
* `SetupAcksRequest` (`SdnSend`). "set flows serve as ack for flow requests." (`TODO_LIST:7`), but
  `sld_rcv_flow_req` (`sdn-send.c:366`) takes the first slot whose bytes hold a request for the
  flow, in use or not: an answered request shadows the pending one. The constants of `MCSdnSend.cfg`.
* `RetransmissionKept` (`SdnSend`). Nodes "retransmit packets at every predefined time interval."
  (`TODO_LIST:3-4`), but `sld_f` (`sdn-send.c:333`) frees the slot when `ALLOC_AND_ENQUEUE` leaves a
  non-null pointer; with a free buffer and a full queue it does, and the packet is neither queued
  nor kept. `MaxTxWindow = 1`.
* `LockHasReport` (`SdnSend`). Neighbor reports are among the packets that are retransmitted
  (`TODO_LIST:4-5`), but `sdn_send_neighbor_report` (`sdn-send-packet.c:180`) locks before
  `ENQUEUE_AND_SEND` can fail, and only an acknowledgement that finds the report in the window
  unlocks. A report that is refused, given up, dropped for want of a route, or kept out of a full
  window leaves the lock closed for good. `MaxTxWindow = 1`.
* `TreatedOnce` (`SeqnoHistory`) when a source may come over two ways (`Via` any link, four packets
  of one source). The packet is said to be compared "with the last few ones we saw."
  (`sdn-receive.c:129-130`); it is compared with the one last number of its source (`:133-138`). A
  repetition that a later packet overtook on another way is treated a second time.
* `NothingMissed` (`SeqnoHistory`) when the counter of the controller node jumps (`Controller` a
  source, `SeqMod = 8`, `Gap = 4`, five packets). "trick to avoid bogus seq_num duplicate detection
  in ND and CD packets" (`controller-node.c:193`): each packet from the PC moves the node's counter
  `SDN_MAX_SEQNOS` past it, so the numbers the node used after one of them are used again after the
  next, and a beacon that repeats the last number heard is dropped.
* `NothingMissed` with `MayRestart`. "Packet is duplicated, dropping." (`sdn-receive.c:58`): a source
  that restarts begins at 0 (`sdn-send-packet.c:62`), and the new packet that reaches the number
  heard last is dropped.
* `FinishedReported` (`Commutator`). "@param sent  The callback function after the message has been
  sent." (`protocol-commutator.c:104`), but `llsec_sent` erases the copy of the callback after the
  callback has returned (`:94-95`). collect's callback may send its next packet at once
  (`collectsdn.c:1158`): that send's callback is erased with the old one, its report finds none, and
  `sending` stays at 1, so that later sends of both stacks are refused until the count wraps.
  The constants of `MCNeighborhood.cfg`.
* `StatusPassedOn` (`Commutator`). "@param status        MAC status" (`protocol-commutator.c:81`), but
  a send that was refused while the frame was under way turns its report into `MAC_TX_ERR`
  (`:87-90`), the MAC's success included. The same with `Nesting = {}`.
* `GoneForgotten` (`NeighborTable`). The controller takes each report for the whole neighborhood of
  its sender ("//Removes edges not informed.", `sdn-process-packets-controller.c:228`), but
  `sdn_send_neighbor_report` sends nothing for an empty table (`sdn-send-packet.c:149-152`) and
  nothing while an earlier report is under way (`:143-146`), and makes up for neither. `Collect`, two
  neighbors.
* `NoLoop` (`NaiveDiscovery`). The list of a beacon is "(who, next_hop) to reach controller"
  (`naive-directed-cd.c:173`), but a node keeps the distance it was told when it took its hop
  (`:237-239`) although that hop has come nearer since, and takes any hop told below it. It takes six
  nodes that all hear the controller `c`, with links heard in the order n1 hears c, n2 n1, n3 n2, n4 n3,
  n5 n4, n4 c, n6 n5, n5 n6, and after each the report of the hearer that was added and a beacon of
  `c`; nothing is lost (`ListSize = 20`, `Lifetime = 3`). n4 is told 3 and later moves next to the
  controller, n5 behind it keeps 4, n6 behind n5 is reported at 3, and n5 takes n6, whose hop it is
  itself. Both count the controller as found. No free run reaches six nodes: TLC finds it with a
  next-state relation that fixes this order, each step a step of `NaiveDiscovery`.

The line and the way along it:

* `NothingStray` (`SerialLink`). `sdn_send_done` answers every packet the controller node gives up
  with a NACK, its own beacons included (`sdn-send.c:259`; the test of the source, `:258`, is
  commented out). The PC counts them as failures of its head, and the last takes a packet out of an
  empty queue, which `sdn-serial-send.c:151` reports as an error, "PACKET DEQUEUE NULL".
  `BeaconsMayFail = TRUE`, `Beacons = 2`.
* `CountsTheHead` (`SerialLink`). "Reached SDN_MAX_MAC_NOACK, giving up" (`sdn-serial-send.c:149`) is
  about the head, but `count_noack` is not reset when a packet is acknowledged (`:116-142`; the node's
  own counter is, `sdn-send.c:226`): failures of an earlier packet count. `Beacons = 0`, `Clicks = 0`.
* `FramesDecoded` (`SerialLink`). "This Thread handles packet. It decodes and takes necessary
  action." (`sdn-serial.c:274`), but while the protothread waits for `PROCESS_EVENT_CONTINUE` it takes
  every other event and drops it (`:325`): a frame that follows closely is never looked at.
  `Clicks = 1`.
* `WholePacketsArrive` (`SerialFrame`). The frame carries "uint8_t payload[SDN_MAX_PACKET_SIZE];"
  behind its header (`sdn-serial-packet.h:85`), but the node's reader limits the whole frame to that
  size (`sdn-serial.c:158`). `AtNode`, `MaxPayload = 2`, whole lengths, no damage.
* `EscapedThroughout` (`SerialFrame`). "If either of these two octets appears in the transmitted data,
  an escape octet is sent" (`sdn-serial.c:51`), but `sdn_serial_printf` writes its header as it is
  (`:244-248`). `Headers` over the two octets, no damage.
* `InstalledAsMeant` (`SourceRoute`) with multiple control setups. "Gets the current (i.e. last)
  sdn_mult_flow_elem_t from a mult packet." (`sdn-protocol.h:384`), but `treat_mult_control_flow_setup`
  reads the element at `set_len` before it counts down (`sdn-process-packets.c:427-440`; the data
  variant counts first, `:369`): the first node of the walk reads behind the last element, and each
  later node installs the action of the one before it. `Orders` with the walks of `MCSetups` as
  "multControl", `MaxOrders = 1`.
* `AllTreated` (`SourceRoute`) with a walk that comes back (`Back` of `MCSetups`). "if there still are
  set flows in the packet, resend it" (`sdn-process-packets.c:394`), but the packet keeps its source
  and number, and a node it passed before drops it as a duplicate. `src/tests/src-route-tests.c:148-193`
  sends such a walk.

The controller:

* `UninformedRemoved` (`Topology`). "//Removes edges not informed."
  (`sdn-process-packets-controller.c:228`), but in the build `change_to_naive.sh:27-28` makes, edges
  from the sender are marked (`:158-160`) and marked edges towards it deleted: a link that is no
  longer reported stays. `SrcToNeighbors = FALSE`, `NeighborsToSrc = TRUE`.
* `RouteIsShortest` (`Dijkstra`). The attributes of a vertex are "for Dijkstra algorithm"
  (`digraph.h:74`) and `dijkstra_queue_push` keeps its list in order, but a shorter way to a waiting
  vertex lowers its weight in place (`dijkstra.c:186-192`): a farther one is settled first. Five
  vertices in a fan whose short way is found late.
* `DropMeansNoRoute` (`Controller`). "ACTION_DROP means there is currently no route to the
  destination." (`sdn-process-packets.c:224`), but a registration only adds the target to the list
  (`:183`), and no entry is looked at again until the graph changes. An asker, and an owner that
  registers after its request, in the star of `MCController`.
* `OnlineIsConfirmed` (`RouteSetup`, `FairSpec`, two routes). Online is "confirmed by node ack"
  (`sdn-flow-table-cache.h:69`), and an online entry is not sent again (`sdn-reliability.c:21`), but
  the node may be left with another route, in four ways. An older setup arrives after the newer one
  was acknowledged: each is source routed on its own
  (`sdn-process-packets-controller.c:784`), its number is not the last one heard
  (`sdn-receive.c:133-138`), and it is inserted (`sdn-process-packets.c:244`). The best route changes
  and changes back: the acknowledgement carries the route and no number, so that of its first
  installation confirms the entry (`sdn-flow-table-cache.c:133-147`). The table is full (`MayBeFull`):
  `treat_data_flow_setup` acknowledges (`sdn-process-packets.c:234-240`) before it inserts, and does
  not look at the result (`:244`). The next hop fails at the node. TLC finds each with the others
  excluded by an action constraint, and nothing with all four excluded.
* `RequestsServed` (`RouteSetup`, `FairSpec`). "set flows serve as ack for flow requests."
  (`TODO_LIST:7`), but a request is answered only without an entry in the cache
  (`sdn-process-packets-controller.c:269-272`), and an online entry is not sent again: a node that
  removed a confirmed route with its failed next hop asks in vain.

## 6. Not modelled, and why

* The application's answer inside its receive callback: it is a call of `sdn_send`, which
  `AppSend` makes as a step of its own just after.
* The verdict of duplicate detection and of the hop limit in `SdnNode`: such a packet is one
  that never arrives. `SeqnoHistory` has the verdict. The controller node registers a number
  before it looks at the hop limit and at the pool (`controller-node.c:71`); a packet it then
  drops is lost and, repeated, a duplicate.
* `check_packet_len`: the packets heard are `WellFormed`.
* `process_post` failing: Contiki's event queue is not part of the stack, and `OneWakeup` says
  the stack never has more than two events in it.
* The energy estimate: floating-point arithmetic over the radio times the operating system
  measures. Its reports are compiled only with `ENERGY_MANAGER_SIMULATE_BATTERY`, which is
  commented out. What the controller's graph does with them is in `Topology` and `ControllerProofs`;
  that `process_energy_report` then renews the caches, as a neighbor report does, is not in
  `Controller`, since no node of any build sends one.
* Removal of a source or a target from the controller's cache: it has no caller.
* The routes the controller PC sets up to itself, in `NaiveDiscovery`: the hops there are those
  of the discovery alone.
* The estimates of collect, and collect itself: a modified copy of Contiki's. The neighbor table
  takes its metrics as inputs, the commutator its sends.
* Statistics, metrics, debug output, printing, the Qt window, the test programs, the
  applications beyond their calls of the stack, the simulation scripts.

## 7. What could follow

* A composition of `Controller` with `RouteSetup`, several entries at a time, where a setup on
  its way uses the routes of other nodes that are being changed.

## 8. Running

    tlc -workers 2 -config MCSdnNode.cfg MCSdnNode
    tlapm FlowTableProofs.tla
    tlapm SdnNodeProofs.tla
    tlapm ReceivePathProofs.tla
    tlapm RouteSetupProofs.tla
    tlapm SerialLinkProofs.tla
    tlapm NeighborhoodProofs.tla
    tlapm GraphProofs.tla
    tlapm ControllerProofs.tla
