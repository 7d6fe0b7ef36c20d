# A TLA+ model of the distance-vector router

The program under `src/` is one process of an overlay network of up to five
routers.  A controller initializes each router over TCP, changes link costs,
crashes routers and asks for files to be sent.  The routers exchange cost
vectors over UDP, compute routes by the Bellman-Ford step, and carry files over
TCP, hop by hop.  This directory holds TLA+ modules of it, TLC configurations
that check them on small instances, and proofs checked by TLAPS.

## 1. The system

| Component | Source | State | Operations |
|---|---|---|---|
| Event loop | `connection_manager.c` | descriptor sets, `timeout`, `flag_init` | `select`; calls one handler per ready descriptor, or `set_new_timeout` when nothing was ready in time |
| Control connections, dispatch | `control_handler.c` 57-360 | lists of control and data connections | accept, close, read a command, call its handler |
| Initialization | `init.c` | all lists and tables | `init_response`: router list, neighbour list, tracking list, costs; opens sockets; connects to the neighbours; announces |
| Route computation | `routing.c` 95-244 | `orig_route_table`, `cost` and `next_hop` of every router | `update_response`, `update_routing_table`, `calculate_cost_after_routing_update` |
| Timer | `routing.c` 364-445 | `next_update_time`, `missed_updates`, `track_update_list` | `set_new_timeout`: announce, count misses, give up on neighbours, compute the next time-out |
| Announcements | `routing.c` 246-362, `init.c` 279-378 | none | the whole cost column to every neighbour, by UDP |
| SENDFILE | `sendfile.c` 53-222 | `dest_data_sockets`, the records of packets sent | blocks of a file to the next hop |
| Forwarding and reception | `control_handler.c` 402-527 | the records, `file_handle_list` | count the ttl down, store or forward |
| Statistics, ROUTING-TABLE, AUTHOR | `sendfile.c` 225-348, `routing.c` 56-93, `author.c`, `control_header_lib.c` | none of their own | format a reply |
| CRASH | `crash.c` | none | reply, exit |
| I/O helpers | `network_util.c` | none | `recvALL`, `sendALL` |
| Start-up | `richieve_assignment3.c` | control port | `main` |

How they interact: the process is single-threaded.  A handler runs to its end
between two calls of `select`, so inside one router there are no interleavings
but those of whole handlers, except where a handler blocks (`sendALL` on a full
connection) or waits for the rest of a message (`recvALL`).  Between routers there
are datagrams, which can be lost, doubled or reordered, and TCP connections, which
can be refused, full, closed or reset.

What is hard about it: the timer runs between the packets it watches for, and
also *in* the handling of a packet; neighbours are unlinked, routes recomputed
and vectors announced in the middle of a walk over the list of neighbours;
vectors of any age meet at a router; an UPDATE reaches the two ends of a link
at different times; routers that block in a send serve nobody; descriptors are
closed and reused within one pass of the loop; messages arrive in portions.  The
list, with the lines where it bites, is under `hazards` in `PROJECT.json`.

What makes each component correct:

- *route computation*: after every handler the table holds the best path via a
  neighbour wherever that beats the direct link (elsewhere the code may leave an
  old, lower cost: see the findings);
- *timer*: only silent neighbours are given up on, all silent ones are, vectors
  are announced in time, and the computed time-out is positive;
- *announcements*: what is read from a packet is what was written, whatever the
  order in which the two routers were given their lists;
- *the network*: no loops and convergence when it is left alone; never a
  distance that no path has ever had; counting up after a disturbance ends;
- *event loop*: each descriptor is served as what it is, and only when it is
  ready; messages are read whole; nobody starves while the handlers return; the timer
  is never early;
- *data plane*: files arrive in order and once; the answers of two routers to
  SENDFILE-STATS agree, also when one crashes; a transfer ends unless a router on its
  way crashes or is held, and routers that hold one another are the only ones held.

## 2. The modules

| Module | What it is |
|---|---|
| `DistanceVector` | the computation as operators without state |
| `Router` | the control plane of one router, with its clock |
| `RoutingPacket` | the routing packet, written and read |
| `TimeoutScan` | one call of `set_new_timeout`, entry by entry |
| `DVNetwork` | the routers of a topology and the datagrams between them |
| `FileDelivery` | what the data plane promises (abstract) |
| `DataPlane` | SENDFILE, forwarding and reception, with crashes |
| `EventLoop` | the loop of one router: descriptors, connections, messages in portions, the time-out |
| `MC*` | instances for TLC |
| `DistanceVector_proofs` | lemmas about the operators, used by the next five |
| `Router_proofs` | types, routes and drops of `Router` |
| `RouterTimers_proofs` | the bounds on time of `Router` |
| `TimeoutScan_proofs` | the walk and the one-step operators agree |
| `DVNetwork_proofs` | types, and no loops while nothing is disturbed |
| `DVDistance_proofs` | no table claims too short a path |
| `EventLoop_proofs` | descriptors, framing, the time-out |
| `DataPlane_proofs` | `DataPlane` implements `FileDelivery`; the answers to SENDFILE-STATS agree; held routers stay held |

Conventions.  A router is named by its `table_id`.  `init_response` numbers the
routers downwards in payload order and inserts at the head of its lists, so
that every `LIST_FOREACH` visits ascending `table_id`s; "first in the list" is
`Min`.  `Inf` stands for 65535 and is a parameter; costs stay at or below it,
and the sum of two costs is computed in 32 bits in the code, so it never wraps.
The global `route_table` is written and printed but never read, and is left out.

### DistanceVector

`orig_route_table` is a matrix: the router's own row holds the direct links, the
row of a neighbour the last vector from it.  `MinCost`, `HopTo` and
`ShorterVia` are the inner loop of `calculate_cost_after_routing_update`;
`RecalculatedCost` and `RecalculatedHop` are its effect.  The entry is written only when the
path via a neighbour beats the direct link: otherwise it *keeps its old value*,
and that is modelled.  `CostAfterLoss` and `HopAfterLoss` say what
`set_new_timeout` does to the tables when it gives up on a set `D` of
neighbours: the code recomputes after each of them, and an entry ends with the
result of the last recomputation that wrote it.

### Router

Actions: `InitResponse`, `Timeout` (select returned 0), `UpdateRoutingTable` (a
packet; it re-arms the sender, runs the timer, and only then applies the vector),
`UpdateResponse`, `Tick`.  `SetNewTimeout` is shared by the two that run it.
Time is `[sec, usec]` as in `struct timeval`, because the code compares whole
seconds in one place (`Expired`) and microseconds in others.  `lastHeard` and
`lastSent` are history.  A neighbour's `next_update_time` is zero after INIT, so
the first check already counts a miss: `lastHeard` therefore starts one interval
before INIT.

A second INIT, or a command before INIT, is outside the controller's protocol and
not modelled (the code would fail to bind, or find empty lists).

### TimeoutScan

`Router` and `DVNetwork` take a call of `set_new_timeout` as one step.
`TimeoutScan` is the walk: `InTime`, `AnnounceSelf`, `Miss` and `GiveUp` for the
entry the walk is at.  Its properties are that at every point of the walk the
tables, the counters, the deadlines and the announced vector are what the
one-step operators say, from thousands of tables.

The announcement in it is a packet of `RoutingPacket`, and `AnnouncementAgrees` reads
it back by the list of any receiver: INIT may give every router the list in another
order, so that a `table_id` names different routers in different places.  A packet
names routers by `router_id` and its sender by address; both are assumed to be
distinct (`ListAssumption`), as the code takes the first match.  `DVNetwork`, which
sends vectors indexed by one numbering, rests on this property.

### DVNetwork

The state of `Router` for every router, without the clock: `Timeout` and
`UpdateRoutingTable` choose any set `D` of neighbours to give up on, which
contains every choice the timers can make.  `net[s][n]` is the queue from `s` to
`n`; `Lose`, `Duplicate`, `Reorder` are the network's.  A datagram to a router
that has no socket yet, or no more, is lost.  `CrashResponse` is CRASH.
`faults` counts UPDATEs, overtaken datagrams and calls that give up; `floor` is
the least cost each link ever had, at each end.

### DataPlane

`chan[a][b]` are the packets on the connection from `a` to `b`; `task` says in
which handler a router is held, because its sends block.  `SendFile` looks up the
next hop, connects if there is no connection, and opens the file; the next hop is
any value the entry may have at that time, because routes change between transfers
(during one, the source does nothing else, and forwarders do not read them).
`SendPacket` sends one block and records it.  `Receive` is `data_recv_hook` up
to the point where it forwards, `Forward` is the send.  A router whose
connection is full, or was never made, stays in the handler: `sendALL` on a bad
descriptor does not return.  The accept of a connection is not a step of its own.
`Held` says which routers never leave their handler: those of a set in which each
waits for another of the set to read, or for a connection that was never made.

The fault is the end of a process: CRASH between two handlers, or SIGPIPE in a
`sendALL` to a router that has ended and whose reset has arrived (`BrokenPipe`), so
that one crash may bring down the next router upstream.  `Exit` closes the
connections of the process: what it has sent is still delivered, what it has not
read is lost, and what is sent to it later is lost until the reset arrives
(`SendAll`).  `SendfileStats` is the answer to SENDFILE-STATS, with the count and the
index of 8 bits (`CountSpace`) that make later records overwrite earlier ones.

The controller is assumed to name destinations that have a route and not to use
a `transfer_id` twice (`TransferAssumption`).  The next hop of a router to itself is
itself, and to another router it is a neighbour (`HopAssumption`): the one entry is
written by INIT (`init.c:239`), and the recomputation chooses among neighbours
(`routing.c:229`).

### EventLoop

One router's `main_loop`: `Select`, the pass over the descriptors in `watch_list` (one
action per kind: `NewControlConn`, `NewDataConn`, `RouterRecvHook`,
`ExistingConnection`), `EndPass`, and `Timeout`.  A connection holds the pieces of
messages that have arrived; `Recv` is one `recv` in `recvALL` and takes what is there,
up to what is missing.  `PayloadNext`, `InitResponse`, `CrashResponse`,
`SendfileResponse`, `OtherResponse` (a command that is only replied to) and
`DataRecvHook` follow when the message is whole.  SENDFILE of a file that is not there
ends without a reply; otherwise it sends packets, as `DataRecvHook` does when it has to
forward one, and the router is in `Sending` until those sends return (`Sent`) or raise
SIGPIPE (`BrokenPipe`).  Both are up to the other routers, so they are steps of
`Environment`, without fairness.  Descriptors are
numbers and a new one is the lowest free one, so that the number of a connection
closed in a pass may come back in the same pass.  `RemoveConn` is the normal end of a
connection; `Hang` is the loop of `recvALL` that never ends after an early end or an
error.  `left` is what `select` has left in `timeout`, `until` the time to the deadline
that was set last.

What a handler computes is in `Router` and `DataPlane`; here it is what it does to
descriptors, the time-out and the process.  `accept` is not modelled as failing, and
the time before INIT, when `select` returns at once, is idle.  A reply never blocks: it
is short and the controller reads it.  The descriptors of the files that are being
written are left out of the numbers; no property depends on which number comes next.

## 3. The runs

| Run | Question | Bounds |
|---|---|---|
| `router_table` | `TypeOK`, `BestPathTaken`, `RouteShape` | 4 routers, 2 of them neighbours, one costlier than the way round; 4 seconds, enough for a neighbour to be given up on, brought back by UPDATE and heard from again |
| `router_timers` | `AnnouncedInTime`, `SilentNeighbourDropped`, `DropOnlyAfterSilence`, `TimeoutPositive` | 3 routers, neighbours on both sides in the list; half seconds; the loop up to 1 s late; 9 s, three losses long |
| `router_update` | `AllDestinationsUpdated` is violated | as `router_table` |
| `scan` | `TablesAgree`, `TimersAgree`, `AnnouncementAgrees` | 4 routers, this one second in the list; all subsets tracked, expired; two patterns of misses; every order of the receiver's list |
| `network_calm` | `HopsDescend` | triangle with a long side; loss and delay; one datagram per link, so none is doubled (with two, the run takes more than its time; `NoLoops` is for any number); one router may crash |
| `network_faults` | `TypeOK`, `NeverTooShort` | line; 2 datagrams per link, so that one can overtake or be doubled; one disturbance |
| `network_live` | `Converges`, `CountingUpEnds` | line; any finite losses, no duplicates; one disturbance (an UPDATE to cost 1, or neighbours given up on), costs up to 5 to count up to |
| `transfer` | `TypeOK`, `HopsRecorded`, `ImplementsDelivery`, `HeldForEver`, `Completes` | triangle of 3, one of whose sides may be replaced by the way round; five transfers: in both directions, round in a ring of three, one that dies, one of a missing file; router 2 may crash; 1 packet per connection; sequence numbers modulo 3, so that they wrap |
| `transfer_tail` | `AllDataSent` is violated | two transfers |
| `transfer_hop` | `ForwardsToNextHop` is violated | line of 4, so that a forwarder has two hops to go |
| `loop` | `TypeOK`, `Registered`, `StillReady`, `Framed`, `TimerNotEarly`, `NobodyStarved` | two connections at once, one of the controller at most; INIT and SENDFILE (with payloads), CRASH and a command that is only replied to; packets in two pieces, two pieces unread: a header with its payload, or two messages, in one portion; time-outs of 2 units; 6 descriptors, so that numbers are reused |
| `loop_closed` | `ClosedIsRemoved` is violated | one connection at a time |

The four violations are disagreements between a comment and the code, listed
under `findings`.

- After UPDATE, an entry whose path via a neighbour has become longer than the
  direct link keeps its old cost (`routing.c:224`), although the comment at line
  121 speaks of updating all destinations.
- The rest of a file after its last whole block is read but not sent
  (`sendfile.c:152`), although the loop claims to send until nothing is left.
- A forwarder looks up the destination where the comment says next hop
  (`control_handler.c:467-479`): with more than one hop to go there is no
  connection to it, and the router hangs.
- A data connection that ends within a packet, or with an error, is not removed, as
  the comments at `control_handler.c:413-416` say: `recvALL` loops for ever
  (`network_util.c:36`).

What the passing runs do *not* say is part of their reading.  `HopsDescend`
holds until a neighbour is given up on: without split horizon, routes may loop
and count up after a loss; `CountingUpEnds` shows that this ends, at `Inf` at the
latest, and not how long it takes.  `AnnouncedInTime` and `SilentNeighbourDropped` have
`MaxDelay` in their bounds: each expired entry delays the later ones by two more
seconds (accumulated: k(k+1) for the k-th).  They also hold under `Lag`: the
loop runs the timer only if `select` found nothing to read
(`connection_manager.c:58`), so steady traffic makes it later than any bound.
`Completes` says how a transfer may end, not that it ends well: with the file closed, or
with a router on its path crashed or held.  Routers are held when all of some set wait
for one another, be it two that send to each other, a ring of three (`transfer` has one)
or one that sends to itself, and behind one whose connection was never made; the
deadlock is real (`sendfile.c:186`, `control_handler.c:480`) and, by `HeldForEver`,
final: not even CRASH is read any more.  `Completes` adds that nothing else keeps a
transfer from its end.  For the same reason the `transfer` configurations turn the
deadlock check off; `MCTimeoutScan.cfg` does because the call ends, and
the `loop` configurations because the process may exit or hang.  `NobodyStarved` is
about the loop alone: it leaves out a router that exits or hangs in `recvALL`, and one
that is for ever in a send of packets, which serves nobody.  When that happens is the
subject of `DataPlane`.  `HopsRecorded` is stated for transfers of fewer than
`CountSpace` packets: from there on the answers do wrap.

`MaxUnread` and `MaxControl` bound what arrives in `loop`: fewer than `MaxUnread` pieces
wait unread, on all connections together, when another one comes (`Fits`; a piece
`recvALL` waits for always may come).  Which pieces these are is not restricted: a
portion may hold a header with its payload, or the end of a message and the start of the
next, which `Recv` must leave.  The theorems hold for every value of both bounds.

`MaxSec` stops the clock of `Router`; the untimed actions go on after it, so that
no deadlock hides behind it.

### Fairness

- `EventLoop!Fairness`: the process runs (one weak fairness condition for all of its
  steps: it has one thread, and no choice of what to do next), and a peer goes on with
  a message it has begun, if the router waits for the rest.  Nothing is assumed of
  what else arrives, or when, and nothing of `Sent`: a send of packets may never return.
- `DVNetwork!Fairness`: the controller initializes every router; the timer of a
  router fires again and again (its own entry is never unlinked, and is
  re-armed at each firing), so it keeps announcing; a link on which datagrams
  keep being sent delivers again and again (strong fairness, the usual reading of
  a lossy link).
- `DataPlane!Fairness`: INIT reaches every router; a handler that can go on does
  (weak fairness for the sends of each router together: one process, and TCP
  delivers); a router that has packets to read and comes back to `select` again and
  again receives some (strong fairness for each router, of its connections together:
  a router may be away in a handler whenever it is looked at).  Which packets is left
  open, although the loop serves all descriptors of a pass.

## 4. The proofs

All theorems hold for every value of the constants that the named `ASSUME`s allow:
any topology, costs, intervals, sizes of messages and buffers, any number of routers,
connections and transfers.  Each run checks the same properties on an instance, and
each inductive invariant was an invariant of a run before it was proved.

### Router

- `TypeCorrect`: `Router` is well typed.  The invariant is inductive as it
  stands; the work is in the lemmas that the recomputed columns are columns
  (`MinCostProperty`, `HopToProperty`, `AfterLossType`, `ExtraDelayType`), which
  rest on `MinProperty` and `MaxProperty`: sets of naturals have least elements.
- `BestPathAlwaysTaken`: `BestPathTaken` in every reachable state.  It is a
  condition on the tables alone, so the strengthening is to say it of the tables
  as the operator `Settled` (`RoutesInv`) and to prove that it is preserved by
  each operator: `RecalculationSettles` (needs that no entry is above the direct
  link before the call, which UPDATE and a new vector must provide) and
  `LossSettles` for a set of neighbours given up on one after the other.  The
  latter is the hard one: the result of an early recomputation stays only if no
  later one finds a way, and then the way it found is no longer required.
- `RoutesKeepShape`: `RouteShape`.  `ShapeInv` adds what the entries are before INIT.
- `DropsOnlyTheSilent`: the action property `DropOnlyAfterSilence`.  The
  invariant (`SilenceInv`, `MissesCounted`) counts: with m misses since the last
  packet, the present or the next deadline of a neighbour is at least (m + 1)
  intervals after that packet, so the third miss is three intervals after it.
  The extra delays only move deadlines away.
- `AlwaysAnnouncedInTime`, `SilentNeighboursDropped`, `TimeoutsPositive`: the other
  direction.  `TimerInv` bounds the deadline of a neighbour with k misses by
  `DueBound`: two intervals, and for each miss another one, the largest delay the
  list can cause and the lateness of the loop.  The loop is late by `Lag` at most,
  and the wake-up is never after the router's own deadline, which every announcement
  sets anew.  `MaxDelayProperty` (the delay of a part of the list is at most that of
  the whole list) makes the bound independent of what expires when.

### TimeoutScan

`WalkInv` says of every point of the walk what was visited, how often the walk has
moved `next_time` and `delay` (so that k entries cost k(k-1) seconds), and what was
sent.  The walk visits ascending `table_id`s, so a neighbour it drops is the greatest
of those dropped so far and `OneMoreLoss` shows that one more recomputation is one
more stage of `CostAfterLoss` and `HopAfterLoss`.  From it follow `WalkKeepsTables`
and `WalkKeepsTimers`; `AnnouncementIsRead` adds that a packet names each router
once, so a receiver finds in it the vector sent, whatever the order of its own list.

### DVNetwork

- `TypeCorrect`: `TypeOK`.
- `NoLoops`: `HopsDescend`.  It is about two routers and says nothing of vectors of
  different ages, so it is far from inductive.  `CalmInv` says what is true until a
  neighbour is given up on, an UPDATE comes or a datagram is overtaken: the columns
  of a router are those its rows give (`Current`), what it has heard of a neighbour
  is not better than what the neighbour has now (`Heard`), and the vectors on the way
  between them lie between the two and get only better (`Falling`).  This is what loss
  and duplication preserve and overtaking does not.  The next hop's own cost is then
  at most the cost heard from it, and links cost something: the remaining cost falls
  with every hop.
- `NoPathTooShort`: `NeverTooShort`.  `Distance` is a recursive function of the number
  of links, which an invariant cannot follow step by step.  So `AboveInv` says that
  *every* assignment of costs which respects the links (`LowerBound`) is below all tables
  and datagrams, and the distances over N-1 links are shown to be such an assignment
  (`DistanceIsLowerBound`): entries fall from one recursion to the next, each recursion
  makes at least the least entry final that is not, and after N-1 of them none falls
  any more (`Saturation`).  The induction is one over sets of naturals, by their least
  element (`SetInduction`).
  `AboveInv` quantifies over all such assignments because UPDATE changes which are.

### EventLoop

`LoopInv` has a part about descriptors (`Registered`, `StillReady`, `Sockets`,
`Counted`), one about what the router receives (`Reception`) and one about the
messages on their way (`Streams`, `InitOnce`).  They depend on each other.  A second
INIT would put two more listening sockets into the master list and forget the first
ones; that there is none is a fact about the streams: the pieces of an INIT are in one
connection, or its payload is awaited there, only as long as INIT has not been
processed.  That streams stay whole is a fact about descriptors: a new connection
takes a number that no list holds, so it joins no other one's stream.
A stream is what was received and not yet handled, what waits unread and what is still
to be sent, together; `recv` only moves pieces within it, so `Flow` (each piece is
followed by the next one of its message) is untouched by portions, and `Framed`
reads off where the next message begins.
`Counted` bounds the descriptors by the listening sockets, the data sockets to
neighbours and `MaxConns`, so that there is always a free one (`LoopAssumption`).
Theorems: `TypeCorrect`, `AlwaysRegistered`, `AlwaysReady`, `AlwaysFramed` and
`TimerOnTime`.  The last one is of a step: `left` counts down what select waits, and
`until` is at most `left`.  A router in `Sending` has its connection's number, and
nobody else is given it (`Reception`): the reply to SENDFILE goes where the command came
from.

### DataPlane

`FilesDelivered`: `DataPlane` implements `FileDelivery`, under the refinement of
`ImplementsDelivery`.  A packet goes over at most two connections: to the next hop the transfer
found, and from there straight to the destination (the code forwards only so).  `DataInv`
says that what is under way of a transfer is in these places only (`Carried`), that the
blocks in a connection are consecutive (`Numbered`), and that the three places meet
without a gap (`Gapless`): the blocks on the last connection start where the file ends,
those of the next hop, in its hands or on the first connection, where the last
connection ends, and the source goes on where the first connection ends.  Crashes and a ttl that runs out do
make gaps; the second and third joint are therefore claimed only while the next hop
lives and lets the packets through, and the first one while the destination lives,
which is enough: what is missing in front of a gap can then no longer arrive, and
nothing behind it either.  `Links` (connections are open only
between routers that run) says that a packet is lost only if its receiver has ended.
The steps about one transfer leave the others' packets where they are (`Untouched`,
`OthersKept`): this is where transfers that share connections, forwarders and
receivers could disturb each other, and where distinct `transfer_id`s are needed
(`TransferAssumption`).  `NeverAGap` is the invariant, `TypeCorrect` part of it.

`AnswersAgree`: `HopsRecorded`.  The records of all transfers are in one list per router,
and the packets of all transfers that use a connection in one queue, so the property
compares what `Only` picks from several of them.  `Only` is a recursive function of the
number of elements looked at: that it picks from a concatenation what it picks from the
parts (`OnlyConcat`) is an induction over this number, by the least element of a set
(`SetInduction`), and says what an element added or taken at either end changes
(`OnlyFront`, `OnlyAppend`).  `HopInv` is added to `DataInv`:

- `Marked`: the ttl of a record or packet is the one its place says, and does not depend
  on when it came there;
- `FirstHop`, `SecondHop`: read as sequences of numbers, newest first, what a router
  has recorded is what it has in its hands, then what is on its connection, then what the
  next one has recorded.  They are claimed while the two ends live and the ttl lets
  packets through;
- `Bounded`: the next hop has recorded no more than the source, and the source no more
  than it has packets to send.  So the counts of 8 bits in an answer do not wrap if the
  file has fewer than `CountSpace` packets, at any router.

A send moves a number from one of the sequences to the next: what is taken at the end of
one is added in front of another, and `ThenMoves` and `ThenMovesOn` say that the
concatenation stays.  Every step is about one transfer, and the others keep all of these
sequences (`RestingKept`).  Two cases of `HopsRecorded` are claims about nothing, and need
the invariant to see it: a router that is neither the source nor the next hop has
no records of the transfer, and the next hop of a transfer to oneself is oneself.

`HeldRoutersStay`: `HeldForEver`.  For a set `H` in which each router waits for another
of `H` or has no connection (`Ring`), no step of a router of `H` is enabled
(`RingProperty`): they are in a handler, so they read nothing, not even CRASH, their
connections are full, and none is reset.  What the others do leaves the connections
within `H` alone (`RingKept`): they send on their own, and what the end of one of them
closes are its own and those to it, where nobody of `H` has an open one.

### Only model-checked

Liveness under fairness (`Converges`, `CountingUpEnds`, `Completes`, `NobodyStarved`) is
out of the prover's reach.  Every other property of the passing runs is a theorem.

## 5. Not modelled

- the bytes of messages: commands, vectors and blocks are values, an address is one
  that is only compared.  A port of five digits is cut to four when a vector is sent
  (`routing.c:326`), payloads are handled as C strings (`control_handler.c`
  447, 514), of which the last byte is not written (`control_handler.c:518`), and all of
  this is out of the model;
- a `sendALL` that sends a part of a message and then fails: a packet is taken to be
  sent in one step, when there is room for it;
- what undefined behaviour does: an uninitialized next hop (`sendfile.c:98`), a file
  written after it was closed (`control_handler.c:494`), an answer longer than its
  allocation (`sendfile.c:227`).  Assumptions on the controller, or on the number of
  packets, exclude them;
- a command before INIT, and a second INIT;
- ROUTING-TABLE, AUTHOR, LAST-PACKET and PENULTIMATE-PACKET, which only format state
  (in `EventLoop` they are the step of sending a reply), and `main`;
- a reply that blocks because the controller does not read it.

## 6. Plan

Order in which the modules and proofs were written; all of it is done.

1. `DistanceVector`, `Router`: the most important behaviour, checked and proved.
2. `TimeoutScan`: the justification of the one-step timer; `RoutingPacket`: that of
   vectors without a packet.
3. `DVNetwork`: the protocol between routers.
4. `FileDelivery`, `DataPlane`: the data plane and what it promises, with crashes.
5. `EventLoop`: the descriptors, `recvALL`, the time `select` leaves in `timeout`.
6. Theorems: the safety invariants and action properties of `Router`, `TimeoutScan`,
   `DVNetwork` and `EventLoop`, the types of `DataPlane`, that it implements
   `FileDelivery`, and that held routers stay held.
7. `HopsRecorded` of `DataPlane` as a theorem: the records of two routers as sequences
   of numbers, picked from their lists by a recursive function.

What is left is what the provers cannot do (liveness), and the parts of section 5.
