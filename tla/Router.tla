------------------------------- MODULE Router -------------------------------
(***************************************************************************)
(* The control plane of one router: INIT, UPDATE, routing packets from the *)
(* neighbours, and the periodic timer that announces the router's own      *)
(* vector and gives up on silent neighbours (src/src/init.c and            *)
(* src/src/routing.c).                                                     *)
(*                                                                         *)
(* The process is single-threaded: a handler runs to its end between two   *)
(* calls of select, so each handler is one action.  Time is gettimeofday's *)
(* (seconds and microseconds, with USec of the latter in a second); the    *)
(* loop may be up to Lag seconds late, when a handler holds it.            *)
(***************************************************************************)
EXTENDS DistanceVector

CONSTANTS
  me,          \* this router's table_id
  Interval,    \* updates_periodic_interval, in seconds
  USec,        \* clock units in a second (1000000 in the code)
  InitCosts,   \* the cost columns an INIT payload may carry
  NewCosts,    \* the costs an UPDATE command may carry
  Vectors,     \* for each router, the vectors it may announce
  Lag,         \* bound: how late the loop may be, in seconds
  MaxSec       \* bound: when the clock stops

ASSUME MeAssumption == me \in Routers
ASSUME IntervalAssumption == Interval \in Nat \ {0}
ASSUME ClockAssumption == USec \in Nat \ {0} /\ Lag \in Nat /\ MaxSec \in Nat
ASSUME InitCostsAssumption ==
  \A lc \in InitCosts :
    /\ lc \in CostVector
    /\ \A r \in Routers : lc[r] = 0 <=> r = me
ASSUME InputAssumption ==
  /\ NewCosts \subseteq 1 .. Inf
  /\ \A s \in Routers : Vectors[s] \subseteq {v \in CostVector : v[s] = 0}

VARIABLES
  flag_init,   \* has INIT been processed?
  nbrs,        \* router_neighbour_list
  tracked,     \* track_update_list
  orig,        \* orig_route_table
  cost,        \* cost of every entry of router_list
  hop,         \* next_hop of every entry
  missed,      \* missed_updates of every entry
  due,         \* next_update_time of every entry
  wake,        \* when select times out
  now,         \* gettimeofday
  lastHeard,   \* history: second of the last packet from each router
  lastSent     \* history: second of the last announcement

table == <<orig, cost, hop>>
timers == <<missed, due, wake>>
history == <<lastHeard, lastSent>>
vars == <<flag_init, nbrs, tracked, table, timers, now, history>>

-----------------------------------------------------------------------------
(* struct timeval *)

Time == [sec : Nat, usec : 0 .. USec-1]
Zero == [sec |-> 0, usec |-> 0]
Earlier(a, b) == a.sec < b.sec \/ (a.sec = b.sec /\ a.usec < b.usec)
After(t, s) == [t EXCEPT !.sec = @ + s]

\* Static storage: before INIT the lists are empty and everything is zero.
Init ==
  /\ flag_init = 0
  /\ nbrs = {}
  /\ tracked = {}
  /\ orig = [j \in Routers |-> [i \in Routers |-> 0]]
  /\ cost = [i \in Routers |-> 0]
  /\ hop = [i \in Routers |-> 0]
  /\ missed = [i \in Routers |-> 0]
  /\ due = [i \in Routers |-> Zero]
  /\ wake = Zero
  /\ now = Zero
  /\ lastHeard = [i \in Routers |-> 0]
  /\ lastSent = 0

-----------------------------------------------------------------------------
(* INIT: init_response, then send_initial_routing_packet. *)

\* The controller gives the link costs.  A neighbour's next_update_time starts
\* at zero: the first check after INIT already counts a miss for it, as if it
\* had last been heard one interval before (lastHeard).
InitResponse ==
  /\ flag_init = 0
  /\ flag_init' = 1
  /\ \E lc \in InitCosts :
       /\ nbrs' = Neighbours(lc)
       /\ tracked' = Watched(lc)
       /\ orig' = [j \in Routers |->
                     IF j = me THEN lc ELSE [i \in Routers |-> Inf]]
       /\ cost' = lc
       /\ hop' = FirstHop(lc)
  /\ missed' = [r \in Routers |-> 0]
  /\ due' = [r \in Routers |-> IF r = me THEN After(now, Interval) ELSE Zero]
  /\ wake' = After(now, Interval)
  /\ lastHeard' = [r \in Routers |-> now.sec - Interval]
  /\ lastSent' = now.sec
  /\ UNCHANGED now

-----------------------------------------------------------------------------
(* set_new_timeout, called with the deadlines d and miss counters m.  Only  *)
(* whole seconds are compared.                                              *)

Expired(d) == {r \in tracked : d[r].sec <= now.sec}

NextDue_OnlySelf(d, r) ==       \* Mutant: a missed neighbour is not re-armed.
  IF r = me /\ r \in Expired(d)
  THEN After(now, Interval + ExtraDelay(Expired(d), r)) ELSE d[r]

NextDue(d, r) ==
  IF r \in Expired(d)
  THEN After(now, Interval + ExtraDelay(Expired(d), r)) ELSE d[r]

SetNewTimeout(d, m) ==
  /\ due' = [r \in Routers |-> NextDue(d, r)]
  /\ missed' = MissedAfter(me, Expired(d), m)
  /\ tracked' = tracked \ GivenUp(me, Expired(d), m)
  /\ lastSent' = IF me \in Expired(d) THEN now.sec ELSE lastSent
  /\ \E r \in tracked' :
       /\ \A q \in tracked' : ~ Earlier(due'[q], due'[r])
       /\ wake' = due'[r]

\* select timed out.
Timeout ==
  /\ flag_init = 1
  /\ ~ Earlier(now, wake)
  /\ SetNewTimeout(due, missed)
  /\ LET D == GivenUp(me, Expired(due), missed)
     IN  /\ orig' = WithoutLinks(me, orig, D)
         /\ cost' = CostAfterLoss(me, nbrs, orig, cost, D)
         /\ hop' = HopAfterLoss(me, nbrs, orig, hop, D)
  /\ UNCHANGED <<flag_init, nbrs, now, lastHeard>>

-----------------------------------------------------------------------------
(* A routing packet from neighbour s: router_recv_hook, update_routing_table. *)

\* The sender is re-armed and its misses forgiven, the timer is reset (which
\* may announce, count misses and give up on others), the sender's row is
\* replaced, and the routes are recomputed.
UpdateRoutingTable(s, vec) ==
  LET d == [due EXCEPT ![s] = After(now, Interval)]
      m == [missed EXCEPT ![s] = 0]
      D == GivenUp(me, Expired(d), m)
      o == [WithoutLinks(me, orig, D) EXCEPT ![s] = vec]
  IN  /\ flag_init = 1
      /\ SetNewTimeout(d, m)
      /\ orig' = o
      /\ cost' = RecalculatedCost(me, nbrs, o, CostAfterLoss(me, nbrs, orig, cost, D))
      /\ hop' = RecalculatedHop(me, nbrs, o, HopAfterLoss(me, nbrs, orig, hop, D))
      /\ lastHeard' = [lastHeard EXCEPT ![s] = now.sec]
      /\ UNCHANGED <<flag_init, nbrs, now>>

-----------------------------------------------------------------------------
(* UPDATE: update_response changes the cost of the link to neighbour r, in  *)
(* both directions, and recomputes.                                         *)
UpdateResponse(r, c) ==
  LET o == [orig EXCEPT ![me][r] = c, ![r][me] = c]
  IN  /\ flag_init = 1
      /\ orig' = o
      /\ cost' = RecalculatedCost(me, nbrs, o, [cost EXCEPT ![r] = c])
      /\ hop' = RecalculatedHop(me, nbrs, o, hop)
      /\ UNCHANGED <<flag_init, nbrs, tracked, timers, now, history>>

-----------------------------------------------------------------------------
\* The clock.  It does not run further ahead of the timer than Lag seconds.
Tick ==
  /\ now.sec < MaxSec
  /\ flag_init = 1 => (Earlier(now, wake) \/ now.sec < wake.sec + Lag)
  /\ now' = IF now.usec + 1 < USec THEN [now EXCEPT !.usec = @ + 1]
                                   ELSE [sec |-> now.sec + 1, usec |-> 0]
  /\ UNCHANGED <<flag_init, nbrs, tracked, table, timers, history>>

Next ==
  \/ InitResponse
  \/ Timeout
  \/ \E s \in nbrs : \E vec \in Vectors[s] : UpdateRoutingTable(s, vec)
  \/ \E r \in nbrs, c \in NewCosts : UpdateResponse(r, c)
  \/ Tick

Spec == Init /\ [][Next]_vars

-----------------------------------------------------------------------------
(* Properties *)

\* Every variable has its type; the router and its neighbours are who INIT says.
TypeOK ==
  /\ flag_init \in {0, 1}
  /\ nbrs \subseteq Routers \ {me}
  /\ tracked \subseteq nbrs \cup {me}
  /\ orig \in [Routers -> CostVector]
  /\ cost \in CostVector
  /\ hop \in [Routers -> Routers \cup {NoHop}]
  /\ missed \in [Routers -> Nat]
  /\ due \in [Routers -> Time]
  /\ wake \in Time
  /\ now \in Time
  /\ lastHeard \in [Routers -> Int]
  /\ lastSent \in Nat

\* The cheapest cost known: the direct link or the best path via a neighbour.
BestKnown(i) == Min({orig[me][i], MinCost(me, nbrs, orig, i)})

\* Between handlers the table never says more than the best cost known from the
\* links and the neighbours' vectors, and where a path via a neighbour beats the
\* direct link the entry is exactly that path: no handler forgets to recompute,
\* in whatever order INIT, UPDATE, packets and losses come.
BestPathTaken ==
  flag_init = 1 =>
    \A i \in Routers :
      /\ cost[i] <= BestKnown(i)
      /\ ShorterVia(me, nbrs, orig, i) =>
           /\ cost[i] = MinCost(me, nbrs, orig, i)
           /\ hop[i] = HopTo(me, nbrs, orig, i)

\* An entry without next hop has cost INF, except the entry of a neighbour that
\* was given up on; a next hop is the router itself for its own entry, and a
\* neighbour for every other.  sendfile_response and ROUTING-TABLE rely on it.
RouteShape ==
  flag_init = 1 =>
    \A i \in Routers :
      /\ hop[i] = NoHop => (cost[i] = Inf \/ i \in nbrs \ tracked)
      /\ hop[i] # NoHop => hop[i] \in (IF i = me THEN {me} ELSE nbrs)

\* A neighbour is given up on only when nothing has come from it for three full
\* intervals (counted in whole seconds; after INIT, from one interval before).
DropOnlyAfterSilence ==
  [][\A r \in nbrs : r \in tracked /\ r \notin tracked'
                       => now.sec >= lastHeard'[r] + 3 * Interval]_vars

\* The largest extra delay of r's deadline: all listed before it expired too.
MaxDelay(r) == LET k == Cardinality({q \in nbrs \cup {me} : q < r}) IN k * (k + 1)

\* A silent neighbour is given up on in bounded time: while it is tracked, its
\* last packet is not older than this.
SilentNeighbourDropped ==
  flag_init = 1 =>
    \A r \in tracked \ {me} :
      now.sec <= lastHeard[r] + 4 * Interval + 2 * MaxDelay(r) + 3 * Lag

\* The router announces its vector at least this often, however many neighbours
\* expire with it.  (The extra delay makes this later than the interval.)
AnnouncedInTime ==
  flag_init = 1 => now.sec <= lastSent + Interval + MaxDelay(me) + Lag

\* The time-out computed for select is strictly positive.  The code computes it
\* in an unsigned long, where its "t < 0" tests are never true.
TimeoutPositive == [][wake' # wake => Earlier(now', wake')]_vars

\* What the comment in update_response says it does: "Update cost for all
\* destinations in route table".  Violated: an entry whose path via a neighbour
\* is no longer shorter than the direct link keeps its old cost.
AllDestinationsUpdated ==
  [][(\E r \in nbrs, c \in NewCosts : UpdateResponse(r, c))
       => \A i \in Routers \ {me} : cost'[i] = BestKnown(i)']_vars
=============================================================================
