----------------------------- MODULE DVNetwork -----------------------------
(***************************************************************************)
(* The routers of a topology running the distance-vector protocol          *)
(* (src/src/init.c, src/src/routing.c), and the datagrams between them.    *)
(*                                                                         *)
(* Each router is the control plane of module Router with its timers       *)
(* abstracted: whether a call of set_new_timeout announces, and on which   *)
(* neighbours it gives up, is arbitrary.  A datagram is a vector in the    *)
(* queue of its link; UDP may lose, duplicate or reorder it.  The          *)
(* controller sends every router the same router list, so a table_id names *)
(* the same router everywhere.                                             *)
(***************************************************************************)
EXTENDS DistanceVector, Sequences

CONSTANTS
  Link,          \* the cost matrix in the INIT payloads
  NewCosts,      \* the costs an UPDATE command may carry
  Mortal,        \* the routers the controller may send CRASH to
  MaxInFlight,   \* bound: datagrams in flight on a link; more are lost
  MaxFaults      \* bound: UPDATEs, reorderings and calls that give up

ASSUME LinkAssumption ==
  /\ Link \in [Routers -> CostVector]
  /\ \A n, r \in Routers : /\ Link[n][r] = 0 <=> n = r
                           /\ Link[n][r] = Link[r][n]
ASSUME BoundAssumption ==
  /\ NewCosts \subseteq 1 .. Inf
  /\ Mortal \subseteq Routers
  /\ MaxInFlight \in Nat
  /\ MaxFaults \in Nat

\* router_neighbour_list of n: filled by INIT and never changed.
Nbrs(n) == Neighbours(Link[n])

VARIABLES
  status,    \* "idle" until INIT, "up", and "dead" after CRASH
  orig, cost, hop, tracked,   \* as in Router, for every router
  net,       \* net[s][n]: the vectors in flight from s to n, oldest first
  faults,    \* history: how often the topology or the order was disturbed
  floor      \* history: the least cost each link has ever had at each end

tables == <<orig, cost, hop>>
vars == <<status, tables, tracked, net, faults, floor>>

\* Nothing but loss, duplication, delay and crashes has happened.
Calm == faults = 0

Init ==
  /\ status = [n \in Routers |-> "idle"]
  /\ orig = [n \in Routers |-> [j \in Routers |-> [i \in Routers |-> 0]]]
  /\ cost = [n \in Routers |-> [i \in Routers |-> 0]]
  /\ hop = [n \in Routers |-> [i \in Routers |-> 0]]
  /\ tracked = [n \in Routers |-> {}]
  /\ net = [s \in Routers |-> [n \in Routers |-> << >>]]
  /\ faults = 0
  /\ floor = Link

\* Mutant: it stops after the first neighbour.
Announce_ToFirst(q, n, vec) ==
  [q EXCEPT ![n] = [r \in Routers |->
     IF r \in Nbrs(n) /\ r = Min(Nbrs(n)) /\ status[r] = "up" /\ Len(q[n][r]) < MaxInFlight
     THEN Append(q[n][r], vec) ELSE q[n][r]]]

\* send_update_routing_packet: the whole cost column, to every neighbour.  A
\* router has a socket to receive it from INIT to CRASH.
Announce(q, n, vec) ==
  [q EXCEPT ![n] = [r \in Routers |->
     IF r \in Nbrs(n) /\ status[r] = "up" /\ Len(q[n][r]) < MaxInFlight
     THEN Append(q[n][r], vec) ELSE q[n][r]]]

-----------------------------------------------------------------------------
(* INIT *)
InitResponse(n) ==
  /\ status[n] = "idle"
  /\ status' = [status EXCEPT ![n] = "up"]
  /\ orig' = [orig EXCEPT ![n] = [j \in Routers |->
                IF j = n THEN Link[n] ELSE [i \in Routers |-> Inf]]]
  /\ cost' = [cost EXCEPT ![n] = Link[n]]
  /\ hop' = [hop EXCEPT ![n] = FirstHop(Link[n])]
  /\ tracked' = [tracked EXCEPT ![n] = Watched(Link[n])]
  /\ net' = Announce(net, n, Link[n])
  /\ UNCHANGED <<faults, floor>>

-----------------------------------------------------------------------------
(* set_new_timeout at n, with the queues q: it gives up on the neighbours D *)
(* and, if it announces, does so when the scan reaches n's own entry:       *)
(* neighbours listed before it have been given up on, later ones not yet.   *)
SetNewTimeout(n, D, announces, q) ==
  /\ D \subseteq tracked[n] \ {n}
  /\ tracked' = [tracked EXCEPT ![n] = @ \ D]
  /\ net' = IF announces
            THEN Announce(q, n, CostAfterLoss(n, Nbrs(n), orig[n], cost[n],
                                              {d \in D : d < n}))
            ELSE q
  /\ D # {} => faults < MaxFaults
  /\ faults' = IF D # {} THEN faults + 1 ELSE faults
  /\ UNCHANGED <<status, floor>>

\* select timed out at n.
Timeout(n, D, announces) ==
  /\ status[n] = "up"
  /\ SetNewTimeout(n, D, announces, net)
  /\ orig' = [orig EXCEPT ![n] = WithoutLinks(n, @, D)]
  /\ cost' = [cost EXCEPT ![n] = CostAfterLoss(n, Nbrs(n), orig[n], @, D)]
  /\ hop' = [hop EXCEPT ![n] = HopAfterLoss(n, Nbrs(n), orig[n], @, D)]

-----------------------------------------------------------------------------
(* router_recv_hook, update_routing_table *)

\* n receives the oldest datagram from s.  s has just been re-armed, so it is
\* not among the expired.
UpdateRoutingTable(n, s, D, announces) ==
  LET o == [WithoutLinks(n, orig[n], D) EXCEPT ![s] = Head(net[s][n])]
      c == CostAfterLoss(n, Nbrs(n), orig[n], cost[n], D)
      h == HopAfterLoss(n, Nbrs(n), orig[n], hop[n], D)
  IN  /\ status[n] = "up"
      /\ net[s][n] # << >>
      /\ s \notin D
      /\ SetNewTimeout(n, D, announces, [net EXCEPT ![s][n] = Tail(@)])
      /\ orig' = [orig EXCEPT ![n] = o]
      /\ cost' = [cost EXCEPT ![n] = RecalculatedCost(n, Nbrs(n), o, c)]
      /\ hop' = [hop EXCEPT ![n] = RecalculatedHop(n, Nbrs(n), o, h)]

-----------------------------------------------------------------------------
(* UPDATE and CRASH from the controller *)
UpdateResponse(n, r, c) ==
  LET o == [orig[n] EXCEPT ![n][r] = c, ![r][n] = c]
  IN  /\ status[n] = "up"
      /\ faults < MaxFaults
      /\ faults' = faults + 1
      /\ orig' = [orig EXCEPT ![n] = o]
      /\ cost' = [cost EXCEPT ![n] = RecalculatedCost(n, Nbrs(n), o, [@ EXCEPT ![r] = c])]
      /\ hop' = [hop EXCEPT ![n] = RecalculatedHop(n, Nbrs(n), o, @)]
      /\ floor' = [floor EXCEPT ![n][r] = Min({@, c})]
      /\ UNCHANGED <<status, tracked, net>>

\* The process exits: nothing sent to it is received any more.
CrashResponse(n) ==
  /\ n \in Mortal
  /\ status[n] = "up"
  /\ status' = [status EXCEPT ![n] = "dead"]
  /\ net' = [s \in Routers |-> [net[s] EXCEPT ![n] = << >>]]
  /\ UNCHANGED <<tables, tracked, faults, floor>>

-----------------------------------------------------------------------------
(* The datagram network *)
Lose(s, n) ==
  /\ net[s][n] # << >>
  /\ net' = [net EXCEPT ![s][n] = Tail(@)]
  /\ UNCHANGED <<status, tables, tracked, faults, floor>>

Duplicate(s, n) ==
  /\ net[s][n] # << >>
  /\ Len(net[s][n]) < MaxInFlight
  /\ net' = [net EXCEPT ![s][n] = <<Head(@)>> \o @]
  /\ UNCHANGED <<status, tables, tracked, faults, floor>>

\* The oldest datagram is overtaken by all the others.
Reorder(s, n) ==
  /\ Len(net[s][n]) > 1
  /\ faults < MaxFaults
  /\ faults' = faults + 1
  /\ net' = [net EXCEPT ![s][n] = Append(Tail(@), Head(@))]
  /\ UNCHANGED <<status, tables, tracked, floor>>

Next ==
  \E n \in Routers :
    \/ InitResponse(n)
    \/ \E D \in SUBSET Nbrs(n), announces \in BOOLEAN : Timeout(n, D, announces)
    \/ \E s \in Nbrs(n) :
         \/ \E D \in SUBSET Nbrs(n), announces \in BOOLEAN :
              UpdateRoutingTable(n, s, D, announces)
         \/ \E c \in NewCosts : UpdateResponse(n, s, c)
         \/ Lose(s, n)
         \/ Duplicate(s, n)
         \/ Reorder(s, n)
    \/ CrashResponse(n)

Spec == Init /\ [][Next]_vars

\* The controller initializes every router; a router's timer keeps firing, and
\* it announces itself when it does; a link that is used for ever delivers for
\* ever (it may still lose any number of datagrams).
Fairness ==
  /\ WF_vars(\E n \in Routers : InitResponse(n))
  /\ \A n \in Routers :
       /\ WF_vars(Timeout(n, {}, TRUE))
       /\ \A s \in Nbrs(n) :
            SF_vars(\E announces \in BOOLEAN : UpdateRoutingTable(n, s, {}, announces))

LiveSpec == Spec /\ Fairness
-----------------------------------------------------------------------------
(* Properties *)

TypeOK ==
  /\ status \in [Routers -> {"idle", "up", "dead"}]
  /\ orig \in [Routers -> [Routers -> CostVector]]
  /\ cost \in [Routers -> CostVector]
  /\ hop \in [Routers -> [Routers -> Routers \cup {NoHop}]]
  /\ tracked \in [Routers -> SUBSET Routers]
  /\ \A n \in Routers : tracked[n] \subseteq Nbrs(n) \cup {n}
  /\ net \in [Routers -> [Routers -> Seq(CostVector)]]
  /\ faults \in 0 .. MaxFaults
  /\ floor \in [Routers -> CostVector]

\* As long as no link cost was changed, no neighbour was given up on and no
\* datagram was overtaken, every step along next hops strictly lowers the cost
\* that remains, so following next hops never loops, although every router
\* computes from vectors of different ages and any of them may be lost or
\* doubled.
HopsDescend ==
  Calm =>
    \A n, i \in Routers :
      LET h == hop[n][i]
      IN  (status[n] # "idle" /\ h \notin {i, NoHop}) =>
            status[h] # "idle" /\ cost[h][i] < cost[n][i]

\* The shortest distances over the link costs L: paths of at most k links.
Distance(L) ==
  LET d[k \in Nat] ==
        IF k = 0
        THEN [n \in Routers |-> [i \in Routers |-> IF n = i THEN 0 ELSE Inf]]
        ELSE [n \in Routers |-> [i \in Routers |->
               Min({d[k-1][n][i]} \cup
                   {L[n][r] + d[k-1][r][i] : r \in Nbrs(n)})]]
  IN  d[N - 1]

\* Whatever is lost, doubled, reordered, updated or given up on, no table claims
\* a path shorter than the shortest one over the least costs the links ever had:
\* old vectors combine to no path that never existed.
NeverTooShort ==
  LET shortest == Distance(floor)
  IN  \A n, i \in Routers : status[n] # "idle" => cost[n][i] >= shortest[n][i]

\* Without disturbances and crashes, every table reaches the shortest distances
\* and stays there.
Converges ==
  [](Calm /\ \A n \in Routers : status[n] # "dead")
    => <>[](cost = Distance(Link))

\* After any disturbance the tables settle: routers that count up with one another
\* (there is no split horizon) stop at INF at the latest.
CountingUpEnds == <>[][UNCHANGED <<cost, hop>>]_vars
=============================================================================
