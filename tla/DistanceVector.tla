--------------------------- MODULE DistanceVector ---------------------------
(***************************************************************************)
(* The route computation of one router, as operators without state: the    *)
(* distance-vector step of calculate_cost_after_routing_update and what    *)
(* set_new_timeout does to the tables when it gives up on neighbours       *)
(* (src/src/routing.c).                                                    *)
(*                                                                         *)
(* A router is named by its table_id.  init_response numbers the routers   *)
(* no_routers-1 .. 0 in payload order and inserts each one at the head of  *)
(* its lists, so every LIST_FOREACH visits ascending table_ids.  "first in *)
(* the list" is therefore "smallest table_id" below.                       *)
(*                                                                         *)
(* The operators take the router itself (me), its neighbour list (nb) and  *)
(* orig_route_table (o), a matrix: row me holds the direct link costs, row *)
(* r the last vector received from r.  The other global table, route_table,*)
(* is written and printed but never read, and is left out.                 *)
(***************************************************************************)
EXTENDS Integers, FiniteSetsExt

CONSTANTS N,     \* num_routers
          Inf    \* INF, 65535: the cost of an unreachable router

ASSUME NAssumption == N \in Nat \ {0}
ASSUME InfAssumption == Inf \in Nat \ {0}

Routers == 0 .. N-1
NoHop == N                \* next_hop = 65535, the id of no router
Cost == 0 .. Inf
CostVector == [Routers -> Cost]

-----------------------------------------------------------------------------
(* init_response, for the cost column lc of the INIT payload *)

\* router_neighbour_list.
Neighbours(lc) == {r \in Routers : lc[r] # 0 /\ lc[r] # Inf}

Watched_Everyone(lc) == Routers     \* Mutant: the cost INF is not tested.

\* track_update_list: the router itself and its neighbours.
Watched(lc) == {r \in Routers : lc[r] # Inf}

FirstHop_Always(lc) == [r \in Routers |-> r]   \* Mutant: likewise.

\* next_hop of every entry.
FirstHop(lc) == [r \in Routers |-> IF lc[r] # Inf THEN r ELSE NoHop]

-----------------------------------------------------------------------------
(* calculate_cost_after_routing_update *)

\* Mutant: the cost of the link is forgotten.
Via_NoLink(me, o, r, i) == o[r][i]

\* The cost of reaching i through neighbour r (an unsigned sum of two 16-bit
\* values, which does not wrap).
Via(me, o, r, i) == o[me][r] + o[r][i]

\* min_cost after the scan of the neighbours: it starts at INF.
MinCost(me, nb, o, i) == Min({Inf} \cup {Via(me, o, r, i) : r \in nb})

\* hop after the scan: the comparison is strict, so the first neighbour that
\* attains the minimum is kept.
HopTo(me, nb, o, i) ==
  Min({r \in nb : Via(me, o, r, i) = MinCost(me, nb, o, i)})

\* original_cost > min_cost.
ShorterVia(me, nb, o, i) == o[me][i] > MinCost(me, nb, o, i)

\* Mutant: compare with the current cost instead of the direct one.
RecalculatedCost_OnlyImproves(me, nb, o, c) ==
  [i \in Routers |-> IF c[i] > MinCost(me, nb, o, i)
                     THEN MinCost(me, nb, o, i) ELSE c[i]]

\* Mutant: likewise, and an entry that is not improved gets its direct cost back.
RecalculatedCost_Resets(me, nb, o, c) ==
  [i \in Routers |-> IF c[i] > MinCost(me, nb, o, i)
                     THEN MinCost(me, nb, o, i) ELSE o[me][i]]

\* The cost and next_hop columns after the call, from those before it (c, h).
RecalculatedCost(me, nb, o, c) ==
  [i \in Routers |-> IF ShorterVia(me, nb, o, i)
                     THEN MinCost(me, nb, o, i) ELSE c[i]]

RecalculatedHop(me, nb, o, h) ==
  [i \in Routers |->
     IF ~ ShorterVia(me, nb, o, i) THEN h[i]
     ELSE IF HopTo(me, nb, o, i) = me THEN i ELSE HopTo(me, nb, o, i)]

-----------------------------------------------------------------------------
(* set_new_timeout gives up on the neighbours D, in list order.  For each   *)
(* one it sets the direct link to INF and next_hop to none, and recomputes  *)
(* the routes before it looks at the next one: a later recomputation finds  *)
(* fewer routes, and where it finds none the result of an earlier one stays.*)

\* orig_route_table when the links from me to D are INF.
WithoutLinks(me, o, D) ==
  [o EXCEPT ![me] = [r \in Routers |-> IF r \in D THEN Inf ELSE o[me][r]]]

\* The table when neighbour d has just been given up on.
LossStage(me, o, D, d) == WithoutLinks(me, o, {e \in D : e <= d})

\* The stages whose recomputation overwrites the entry of i.
OverwritingStages(me, nb, o, D, i) ==
  {d \in D : ShorterVia(me, nb, LossStage(me, o, D, d), i)}

CostAfterLoss(me, nb, o, c, D) ==
  [i \in Routers |->
     LET S == OverwritingStages(me, nb, o, D, i)
     IN  IF S = {} THEN c[i]
         ELSE MinCost(me, nb, LossStage(me, o, D, Max(S)), i)]

HopAfterLoss(me, nb, o, h, D) ==
  [i \in Routers |->
     LET S == OverwritingStages(me, nb, o, D, i)
     IN  IF S = {} \/ (i \in D /\ Max(S) < i)
         THEN IF i \in D THEN NoHop ELSE h[i]
         ELSE LET f == HopTo(me, nb, LossStage(me, o, D, Max(S)), i)
              IN  IF f = me THEN i ELSE f]

-----------------------------------------------------------------------------
(* The bookkeeping of set_new_timeout for the expired entries X.            *)

MissLimit_Two == 2        \* Mutant: give up one miss early.
MissLimit_Four == 4       \* Mutant: give up one miss late.
MissLimit == 3

\* The neighbours given up on: their third miss in a row.
GivenUp(me, X, missed) ==
  {r \in X \ {me} : missed[r] + 1 >= MissLimit}

\* missed_updates after the scan.
MissedAfter(me, X, missed) ==
  [r \in Routers |-> IF r \in X \ {me} THEN missed[r] + 1 ELSE missed[r]]

\* The entries of X visited before i: delay grows by 2 at each of them and is
\* accumulated in next_time, so the k-th gets k*(k+1) extra seconds.
Rank(X, i) == Cardinality({j \in X : j < i})

\* Mutant: delay is increased before it is added.
ExtraDelay_Early(X, i) == (Rank(X, i) + 1) * (Rank(X, i) + 2)

ExtraDelay(X, i) == Rank(X, i) * (Rank(X, i) + 1)
=============================================================================
