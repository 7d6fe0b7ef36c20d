--------------------------- MODULE Router_proofs ---------------------------
(***************************************************************************)
(* Theorems about Router, for any number of routers, any costs and vectors *)
(* and any clock.                                                          *)
(***************************************************************************)
EXTENDS Router, DistanceVector_proofs

-----------------------------------------------------------------------------
(* Type correctness *)

\* Reading and advancing the clock.
LEMMA AfterType ==
  ASSUME NEW t \in Time, NEW s \in Nat
  PROVE  After(t, s) \in Time
BY DEF After, Time

\* The state is typed before INIT.
LEMMA InitTypeOK == Init => TypeOK
<1> SUFFICES ASSUME Init PROVE TypeOK
  OBVIOUS
<1>1. Zero \in Time
  BY ClockAssumption DEF Zero, Time
<1>2. 0 \in Cost /\ 0 \in Routers
  BY InfAssumption, NAssumption DEF Cost, Routers
<1> QED
  BY <1>1, <1>2 DEF Init, TypeOK, CostVector

\* The columns written by INIT.
LEMMA InitColumnsType ==
  ASSUME NEW lc \in InitCosts
  PROVE  /\ lc \in CostVector
         /\ Neighbours(lc) \in SUBSET (Routers \ {me})
         /\ Watched(lc) \in SUBSET (Neighbours(lc) \cup {me})
         /\ FirstHop(lc) \in [Routers -> Routers \cup {NoHop}]
BY InitCostsAssumption, MeAssumption DEF Neighbours, Watched, FirstHop

\* INIT establishes the types of what it writes.
LEMMA InitResponseTypeOK == TypeOK /\ InitResponse => TypeOK'
<1> SUFFICES ASSUME TypeOK, InitResponse PROVE TypeOK'
  OBVIOUS
<1> USE DEF TypeOK, InitResponse
<1>1. After(now, Interval) \in Time
  BY AfterType, IntervalAssumption
<1>2. Zero \in Time
  BY ClockAssumption DEF Zero, Time
<1>3. now.sec \in Nat /\ now.sec - Interval \in Int
  BY IntervalAssumption DEF Time
<1>4. PICK lc \in InitCosts :
        /\ nbrs' = Neighbours(lc)
        /\ tracked' = Watched(lc)
        /\ orig' = [j \in Routers |->
                      IF j = me THEN lc ELSE [i \in Routers |-> Inf]]
        /\ cost' = lc
        /\ hop' = FirstHop(lc)
  OBVIOUS
<1>5. nbrs' \subseteq Routers \ {me} /\ tracked' \subseteq nbrs' \cup {me}
  BY <1>4, InitColumnsType
<1>6. orig' \in [Routers -> CostVector]
  <2>1. [i \in Routers |-> Inf] \in CostVector
    BY InfAssumption DEF CostVector, Cost
  <2> QED
    BY <1>4, <2>1, InitColumnsType
<1>7. cost' \in CostVector /\ hop' \in [Routers -> Routers \cup {NoHop}]
  BY <1>4, InitColumnsType
<1>8. due' \in [Routers -> Time] /\ wake' \in Time
  BY <1>1, <1>2
<1>9. /\ flag_init' \in {0, 1}
      /\ missed' \in [Routers -> Nat]
      /\ lastHeard' \in [Routers -> Int]
      /\ lastSent' \in Nat
      /\ now' \in Time
  BY <1>3
<1> QED
  BY <1>5, <1>6, <1>7, <1>8, <1>9

\* set_new_timeout keeps the types of the timers.
LEMMA SetNewTimeoutType ==
  ASSUME TypeOK, NEW d \in [Routers -> Time], NEW m \in [Routers -> Nat],
         SetNewTimeout(d, m)
  PROVE  /\ due' \in [Routers -> Time]
         /\ missed' \in [Routers -> Nat]
         /\ tracked' \subseteq tracked
         /\ lastSent' \in Nat
         /\ wake' \in Time
<1> USE DEF TypeOK
<1>1. Expired(d) \in SUBSET Routers
  BY MeAssumption DEF Expired
<1>2. \A r \in Routers : NextDue(d, r) \in Time
  <2> TAKE r \in Routers
  <2>1. Interval + ExtraDelay(Expired(d), r) \in Nat
    BY <1>1, ExtraDelayType, IntervalAssumption
  <2>2. After(now, Interval + ExtraDelay(Expired(d), r)) \in Time
    BY <2>1, AfterType
  <2> QED
    BY <2>2 DEF NextDue
<1>3. due' \in [Routers -> Time]
  BY <1>2 DEF SetNewTimeout
<1>4. missed' \in [Routers -> Nat]
  BY DEF SetNewTimeout, MissedAfter
<1>5. tracked' \subseteq tracked
  BY DEF SetNewTimeout
<1>6. wake' \in Time
  BY <1>3, <1>5, MeAssumption DEF SetNewTimeout
<1>7. lastSent' \in Nat
  BY DEF SetNewTimeout, Time
<1> QED
  BY <1>3, <1>4, <1>5, <1>6, <1>7

\* Neighbours given up on are routers.
LEMMA GivenUpType ==
  ASSUME TypeOK, NEW d, NEW m
  PROVE  GivenUp(me, Expired(d), m) \in SUBSET Routers
BY MeAssumption DEF TypeOK, GivenUp, Expired

\* The timer keeps the types.
LEMMA TimeoutTypeOK == TypeOK /\ Timeout => TypeOK'
<1> SUFFICES ASSUME TypeOK, Timeout PROVE TypeOK'
  OBVIOUS
<1> DEFINE D == GivenUp(me, Expired(due), missed)
<1>1. D \in SUBSET Routers
  BY GivenUpType
<1>2. /\ due' \in [Routers -> Time]
      /\ missed' \in [Routers -> Nat]
      /\ tracked' \subseteq tracked
      /\ lastSent' \in Nat
      /\ wake' \in Time
  BY SetNewTimeoutType DEF TypeOK, Timeout
<1>3. nbrs \in SUBSET Routers /\ orig \in Table /\ me \in Routers
  BY MeAssumption DEF TypeOK, Table
<1>4. orig' = WithoutLinks(me, orig, D) /\ orig' \in Table
  BY <1>1, <1>3, WithoutLinksType DEF Timeout
<1>5. cost' \in CostVector /\ hop' \in [Routers -> Routers \cup {NoHop}]
  <2> HIDE DEF D
  <2>1. /\ cost' = CostAfterLoss(me, nbrs, orig, cost, D)
        /\ hop' = HopAfterLoss(me, nbrs, orig, hop, D)
    BY DEF Timeout, D
  <2> QED
    BY <1>1, <1>3, <2>1, AfterLossType DEF TypeOK
<1> QED
  BY <1>2, <1>4, <1>5 DEF TypeOK, Timeout, Table

\* A routing packet keeps the types.
LEMMA UpdateRoutingTableTypeOK ==
  ASSUME TypeOK, NEW s \in nbrs, NEW vec \in Vectors[s],
         UpdateRoutingTable(s, vec)
  PROVE  TypeOK'
<1> DEFINE d == [due EXCEPT ![s] = After(now, Interval)]
           m == [missed EXCEPT ![s] = 0]
           D == GivenUp(me, Expired(d), m)
           o == [WithoutLinks(me, orig, D) EXCEPT ![s] = vec]
           c == CostAfterLoss(me, nbrs, orig, cost, D)
           h == HopAfterLoss(me, nbrs, orig, hop, D)
<1>1. D \in SUBSET Routers
  BY GivenUpType
<1>2. d \in [Routers -> Time] /\ m \in [Routers -> Nat]
  BY AfterType, IntervalAssumption DEF TypeOK
<1>3. /\ flag_init = 1
      /\ SetNewTimeout(d, m)
      /\ orig' = o
      /\ cost' = RecalculatedCost(me, nbrs, o, c)
      /\ hop' = RecalculatedHop(me, nbrs, o, h)
      /\ lastHeard' = [lastHeard EXCEPT ![s] = now.sec]
      /\ UNCHANGED <<flag_init, nbrs, now>>
  BY DEF UpdateRoutingTable
<1>4. nbrs \in SUBSET Routers /\ orig \in Table /\ me \in Routers /\ s \in Routers
  BY MeAssumption DEF TypeOK, Table
<1>5. vec \in CostVector
  BY <1>4, InputAssumption
<1> HIDE DEF d, m, D
<1>6. /\ due' \in [Routers -> Time]
      /\ missed' \in [Routers -> Nat]
      /\ tracked' \subseteq tracked
      /\ lastSent' \in Nat
      /\ wake' \in Time
  BY <1>2, <1>3, SetNewTimeoutType
<1>7. o \in Table
  BY <1>1, <1>4, <1>5, WithoutLinksType DEF Table
<1>8. c \in CostVector /\ h \in [Routers -> Routers \cup {NoHop}]
  BY <1>1, <1>4, AfterLossType DEF TypeOK
<1> HIDE DEF o, c, h
<1>9. cost' \in CostVector /\ hop' \in [Routers -> Routers \cup {NoHop}]
  BY <1>3, <1>4, <1>7, <1>8, RecalculatedCostType, RecalculatedHopType
<1>10. lastHeard' \in [Routers -> Int]
  BY <1>3 DEF TypeOK, Time
<1> QED
  BY <1>3, <1>6, <1>7, <1>9, <1>10 DEF TypeOK, Table

\* An UPDATE keeps the types.
LEMMA UpdateResponseTypeOK ==
  ASSUME TypeOK, NEW r \in nbrs, NEW c \in NewCosts, UpdateResponse(r, c)
  PROVE  TypeOK'
<1> DEFINE o == [orig EXCEPT ![me][r] = c, ![r][me] = c]
           c1 == [cost EXCEPT ![r] = c]
<1>1. /\ orig' = o
      /\ cost' = RecalculatedCost(me, nbrs, o, c1)
      /\ hop' = RecalculatedHop(me, nbrs, o, hop)
      /\ UNCHANGED <<flag_init, nbrs, tracked, timers, now, history>>
  BY DEF UpdateResponse
<1>2. /\ nbrs \in SUBSET Routers /\ orig \in Table
      /\ me \in Routers /\ r \in Routers /\ c \in Cost
  BY MeAssumption, InputAssumption DEF TypeOK, Table, Cost
<1>3. o \in Table /\ c1 \in CostVector
  BY <1>2 DEF TypeOK, Table, CostVector
<1> HIDE DEF o, c1
<1>4. cost' \in CostVector /\ hop' \in [Routers -> Routers \cup {NoHop}]
  BY <1>1, <1>2, <1>3, RecalculatedCostType, RecalculatedHopType DEF TypeOK
<1> QED
  BY <1>1, <1>3, <1>4 DEF TypeOK, Table, timers, history

\* Every step keeps the types.
LEMMA NextTypeOK == TypeOK /\ [Next]_vars => TypeOK'
<1> SUFFICES ASSUME TypeOK, [Next]_vars PROVE TypeOK'
  OBVIOUS
<1>1. CASE InitResponse
  BY <1>1, InitResponseTypeOK
<1>2. CASE Timeout
  BY <1>2, TimeoutTypeOK
<1>3. ASSUME NEW s \in nbrs, NEW vec \in Vectors[s], UpdateRoutingTable(s, vec)
      PROVE  TypeOK'
  BY <1>3, UpdateRoutingTableTypeOK
<1>4. ASSUME NEW r \in nbrs, NEW c \in NewCosts, UpdateResponse(r, c)
      PROVE  TypeOK'
  BY <1>4, UpdateResponseTypeOK
<1>5. CASE Tick
  <2>1. now' \in Time
    BY <1>5, ClockAssumption DEF Tick, TypeOK, Time
  <2> QED
    BY <1>5, <2>1 DEF Tick, TypeOK, table, timers, history
<1>6. CASE UNCHANGED vars
  BY <1>6 DEF vars, table, timers, history, TypeOK
<1> QED
  BY <1>1, <1>2, <1>3, <1>4, <1>5, <1>6 DEF Next

\* In every reachable state of the router every variable has its type: the
\* handlers of INIT, UPDATE, routing packets and the timer write only costs,
\* table_ids and deadlines.
THEOREM TypeCorrect == Spec => []TypeOK
BY InitTypeOK, NextTypeOK, PTL DEF Spec

-----------------------------------------------------------------------------
(* The routing table.  The inductive invariant is that the routes are       *)
(* settled: the entry of i is not dearer than the direct link to i (so that *)
(* a recomputation that keeps an entry keeps one that is good enough), and  *)
(* is the best path via a neighbour where there is a shorter one.           *)

RoutesInv == flag_init = 1 => Settled(me, nbrs, orig, cost, hop)

\* Settled routes are the best ones known.
LEMMA RoutesInvBest == TypeOK /\ RoutesInv => BestPathTaken
<1> SUFFICES ASSUME TypeOK, RoutesInv, flag_init = 1, NEW i \in Routers
             PROVE  /\ cost[i] <= BestKnown(i)
                    /\ ShorterVia(me, nbrs, orig, i) =>
                         /\ cost[i] = MinCost(me, nbrs, orig, i)
                         /\ hop[i] = HopTo(me, nbrs, orig, i)
  BY DEF BestPathTaken
<1> DEFINE a == orig[me][i]
           b == MinCost(me, nbrs, orig, i)
<1>1. nbrs \in SUBSET Routers /\ orig \in Table /\ me \in Routers
  BY MeAssumption DEF TypeOK, Table
<1>2. a \in Nat /\ b \in Nat /\ cost[i] \in Nat
  <2>1. cost[i] \in Cost
    BY DEF TypeOK, CostVector
  <2> QED
    BY <1>1, <2>1, TableEntries, MinCostProperty, IdsAndCostsAreNaturals
<1>3. /\ cost[i] <= a
      /\ ShorterVia(me, nbrs, orig, i) => /\ cost[i] = b
                                         /\ hop[i] = HopTo(me, nbrs, orig, i)
  BY DEF RoutesInv, Settled
<1>4. cost[i] <= b
  BY <1>2, <1>3 DEF ShorterVia
<1>5. Min({a, b}) \in {a, b}
  BY <1>2, MinProperty
<1>6. BestKnown(i) = Min({a, b})
  BY DEF BestKnown
<1> QED
  BY <1>3, <1>4, <1>5, <1>6

\* INIT: nothing has been heard yet, and no path via a neighbour is known.
LEMMA InitResponseRoutes == TypeOK /\ InitResponse => RoutesInv'
<1> SUFFICES ASSUME TypeOK, InitResponse
             PROVE  Settled(me, nbrs', orig', cost', hop')
  BY DEF RoutesInv
<1>1. PICK lc \in InitCosts :
        /\ nbrs' = Neighbours(lc)
        /\ orig' = [j \in Routers |->
                      IF j = me THEN lc ELSE [i \in Routers |-> Inf]]
        /\ cost' = lc
  BY DEF InitResponse
<1>2. orig' \in Table /\ nbrs' \in SUBSET (Routers \ {me}) /\ me \in Routers
  BY InitResponseTypeOK, MeAssumption DEF TypeOK, Table
<1>3. SUFFICES ASSUME NEW i \in Routers
               PROVE  cost'[i] <= orig'[me][i] /\ ~ ShorterVia(me, nbrs', orig', i)
  BY DEF Settled
<1>4. orig'[me][i] = lc[i] /\ lc[i] \in Nat /\ lc[i] <= Inf
  BY <1>1, <1>2, InitCostsAssumption, InfAssumption DEF CostVector, Cost
<1>5. MinCost(me, nbrs', orig', i) = Inf
  <2> SUFFICES ASSUME NEW r \in nbrs',
                      Via(me, orig', r, i) = MinCost(me, nbrs', orig', i)
               PROVE  MinCost(me, nbrs', orig', i) = Inf
    BY <1>2, MinCostProperty
  <2>1. orig'[r][i] = Inf
    BY <1>1, <1>2
  <2>2. orig'[me][r] \in Nat
    BY <1>2, TableEntries, IdsAndCostsAreNaturals
  <2>3. MinCost(me, nbrs', orig', i) \in 0 .. Inf
    BY <1>2, MinCostProperty DEF Cost
  <2> QED
    BY <2>1, <2>2, <2>3, InfAssumption DEF Via
<1> QED
  BY <1>1, <1>4, <1>5, InfAssumption DEF ShorterVia

\* The timer: the losses are settled one by one.
LEMMA TimeoutRoutes == TypeOK /\ RoutesInv /\ Timeout => RoutesInv'
<1> SUFFICES ASSUME TypeOK, RoutesInv, Timeout PROVE RoutesInv'
  OBVIOUS
<1> DEFINE D == GivenUp(me, Expired(due), missed)
<1>1. D \in SUBSET Routers
  BY GivenUpType
<1> HIDE DEF D
<1>2. /\ flag_init = 1
      /\ orig' = WithoutLinks(me, orig, D)
      /\ cost' = CostAfterLoss(me, nbrs, orig, cost, D)
      /\ hop' = HopAfterLoss(me, nbrs, orig, hop, D)
      /\ nbrs' = nbrs
  BY DEF Timeout, D
<1>3. /\ nbrs \in SUBSET (Routers \ {me}) /\ orig \in Table /\ me \in Routers
      /\ cost \in CostVector /\ hop \in [Routers -> Routers \cup {NoHop}]
  BY MeAssumption DEF TypeOK, Table
<1>4. Settled(me, nbrs, orig, cost, hop)
  BY <1>2 DEF RoutesInv
<1>5. Settled(me, nbrs, orig', cost', hop')
  BY <1>1, <1>2, <1>3, <1>4, LossSettles
<1> QED
  BY <1>2, <1>5 DEF RoutesInv

\* A routing packet: the losses are settled, then the new vector.
LEMMA UpdateRoutingTableRoutes ==
  ASSUME TypeOK, RoutesInv, NEW s \in nbrs, NEW vec \in Vectors[s],
         UpdateRoutingTable(s, vec)
  PROVE  RoutesInv'
<1> DEFINE d == [due EXCEPT ![s] = After(now, Interval)]
           m == [missed EXCEPT ![s] = 0]
           D == GivenUp(me, Expired(d), m)
           o1 == WithoutLinks(me, orig, D)
           o == [o1 EXCEPT ![s] = vec]
           c == CostAfterLoss(me, nbrs, orig, cost, D)
           h == HopAfterLoss(me, nbrs, orig, hop, D)
<1>1. D \in SUBSET Routers
  BY GivenUpType
<1>2. /\ flag_init = 1
      /\ orig' = o
      /\ cost' = RecalculatedCost(me, nbrs, o, c)
      /\ hop' = RecalculatedHop(me, nbrs, o, h)
      /\ nbrs' = nbrs
  BY DEF UpdateRoutingTable
<1>3. /\ nbrs \in SUBSET (Routers \ {me}) /\ orig \in Table /\ me \in Routers
      /\ cost \in CostVector /\ hop \in [Routers -> Routers \cup {NoHop}]
      /\ s \in Routers /\ s # me
  BY MeAssumption DEF TypeOK, Table
<1>4. vec \in CostVector
  BY <1>3, InputAssumption
<1> HIDE DEF D
<1>5. Settled(me, nbrs, o1, c, h)
  BY <1>1, <1>2, <1>3, LossSettles DEF RoutesInv
<1>6. c \in CostVector /\ h \in [Routers -> Routers \cup {NoHop}]
  BY <1>1, <1>3, AfterLossType
<1>7. o1 \in Table
  BY <1>1, <1>3, WithoutLinksType
<1> HIDE DEF o1, c, h
<1>8. o \in Table /\ o[me] = o1[me]
  BY <1>3, <1>4, <1>7 DEF Table
<1>9. \A i \in Routers : c[i] <= o[me][i]
  BY <1>5, <1>8 DEF Settled
<1> HIDE DEF o
<1>10. Settled(me, nbrs, orig', cost', hop')
  BY <1>2, <1>3, <1>6, <1>8, <1>9, RecalculationSettles
<1> QED
  BY <1>2, <1>10 DEF RoutesInv

\* UPDATE writes the link's cost to both places that hold it, so no entry is
\* dearer than its link when the routes are recomputed.
LEMMA UpdateResponseRoutes ==
  ASSUME TypeOK, RoutesInv, NEW r \in nbrs, NEW c \in NewCosts,
         UpdateResponse(r, c)
  PROVE  RoutesInv'
<1> DEFINE o == [orig EXCEPT ![me][r] = c, ![r][me] = c]
           c1 == [cost EXCEPT ![r] = c]
<1>1. /\ flag_init = 1
      /\ orig' = o
      /\ cost' = RecalculatedCost(me, nbrs, o, c1)
      /\ hop' = RecalculatedHop(me, nbrs, o, hop)
      /\ nbrs' = nbrs
  BY DEF UpdateResponse
<1>2. /\ nbrs \in SUBSET (Routers \ {me}) /\ orig \in Table /\ me \in Routers
      /\ cost \in CostVector /\ hop \in [Routers -> Routers \cup {NoHop}]
      /\ r \in Routers /\ r # me /\ c \in Cost
  BY MeAssumption, InputAssumption DEF TypeOK, Table, Cost
<1>3. o \in Table /\ c1 \in CostVector
  BY <1>2 DEF Table, CostVector
<1>4. \A i \in Routers : c1[i] <= o[me][i]
  <2> TAKE i \in Routers
  <2>1. cost[i] <= orig[me][i]
    BY <1>1 DEF RoutesInv, Settled
  <2>2. o[me][i] = (IF i = r THEN c ELSE orig[me][i]) /\ c1[i] = (IF i = r THEN c ELSE cost[i])
    BY <1>2 DEF Table, CostVector
  <2>3. c <= c
    BY <1>2, IdsAndCostsAreNaturals
  <2> QED
    BY <2>1, <2>2, <2>3
<1> HIDE DEF o, c1
<1>5. Settled(me, nbrs, orig', cost', hop')
  BY <1>1, <1>2, <1>3, <1>4, RecalculationSettles
<1> QED
  BY <1>1, <1>5 DEF RoutesInv

\* Every step keeps the routes settled.
LEMMA NextRoutes == TypeOK /\ RoutesInv /\ [Next]_vars => RoutesInv'
<1> SUFFICES ASSUME TypeOK, RoutesInv, [Next]_vars PROVE RoutesInv'
  OBVIOUS
<1>1. CASE InitResponse
  BY <1>1, InitResponseRoutes
<1>2. CASE Timeout
  BY <1>2, TimeoutRoutes
<1>3. ASSUME NEW s \in nbrs, NEW vec \in Vectors[s], UpdateRoutingTable(s, vec)
      PROVE  RoutesInv'
  BY <1>3, UpdateRoutingTableRoutes
<1>4. ASSUME NEW r \in nbrs, NEW c \in NewCosts, UpdateResponse(r, c)
      PROVE  RoutesInv'
  BY <1>4, UpdateResponseRoutes
<1>5. CASE Tick
  BY <1>5 DEF Tick, table, RoutesInv
<1>6. CASE UNCHANGED vars
  BY <1>6 DEF vars, table, RoutesInv
<1> QED
  BY <1>1, <1>2, <1>3, <1>4, <1>5, <1>6 DEF Next

\* In every reachable state the routing table holds the best paths that the
\* links and the neighbours' vectors give: whatever the order of INIT, UPDATE,
\* packets and losses, no handler leaves a better path untaken.
THEOREM BestPathAlwaysTaken == Spec => []BestPathTaken
<1>1. Init => RoutesInv
  BY DEF Init, RoutesInv
<1>2. TypeOK /\ RoutesInv /\ [Next]_vars => RoutesInv'
  BY NextRoutes
<1>3. TypeOK /\ RoutesInv => BestPathTaken
  BY RoutesInvBest
<1> QED
  BY TypeCorrect, <1>1, <1>2, <1>3, PTL DEF Spec

-----------------------------------------------------------------------------
(* The shape of the routing table.  RouteShape alone is not inductive: an   *)
(* UPDATE gives a cost to an entry without looking at its next hop.  The    *)
(* invariant adds that a neighbour still tracked always has a next hop, and *)
(* that the link of the router to itself costs nothing.                     *)

ShapeInv ==
  flag_init = 1 => /\ orig[me][me] = 0
                   /\ Shaped(me, nbrs, nbrs \ tracked, cost, hop)

\* INIT: every tracked router is its own next hop.
LEMMA InitResponseShape == TypeOK /\ InitResponse => ShapeInv'
<1> SUFFICES ASSUME TypeOK, InitResponse
             PROVE  /\ orig'[me][me] = 0
                    /\ Shaped(me, nbrs', nbrs' \ tracked', cost', hop')
  BY DEF ShapeInv
<1>1. PICK lc \in InitCosts :
        /\ nbrs' = Neighbours(lc)
        /\ tracked' = Watched(lc)
        /\ orig' = [j \in Routers |->
                      IF j = me THEN lc ELSE [i \in Routers |-> Inf]]
        /\ cost' = lc
        /\ hop' = FirstHop(lc)
  BY DEF InitResponse
<1>2. orig'[me][me] = 0
  BY <1>1, MeAssumption, InitCostsAssumption
<1>3. NoHop \notin Routers
  BY NAssumption DEF Routers, NoHop
<1>4. ASSUME NEW i \in Routers
      PROVE  /\ hop'[i] = NoHop <=> cost'[i] = Inf
             /\ hop'[i] # NoHop => hop'[i] = i
             /\ i \in nbrs' => cost'[i] # Inf
             /\ i = me \/ i \in nbrs' \/ cost'[i] = Inf
  BY <1>1, <1>3, InitCostsAssumption DEF FirstHop, Neighbours
<1>5. nbrs' \subseteq Routers
  BY InitResponseTypeOK DEF TypeOK
<1> QED
  BY <1>2, <1>4, <1>5 DEF Shaped

\* The neighbours given up on are tracked neighbours, and no longer tracked then.
LEMMA GivenUpAreNeighbours ==
  ASSUME TypeOK, NEW d, NEW m, SetNewTimeout(d, m)
  PROVE  /\ GivenUp(me, Expired(d), m) \in SUBSET nbrs
         /\ nbrs \ tracked' = (nbrs \ tracked) \cup GivenUp(me, Expired(d), m)
BY DEF TypeOK, GivenUp, Expired, SetNewTimeout

\* The timer takes the next hop only from the neighbours it gives up on.
LEMMA TimeoutKeepsShape == TypeOK /\ ShapeInv /\ Timeout => ShapeInv'
<1> SUFFICES ASSUME TypeOK, ShapeInv, Timeout PROVE ShapeInv'
  OBVIOUS
<1> DEFINE D == GivenUp(me, Expired(due), missed)
<1>1. D \in SUBSET nbrs /\ nbrs \ tracked' = (nbrs \ tracked) \cup D
  BY GivenUpAreNeighbours DEF Timeout
<1> HIDE DEF D
<1>2. /\ flag_init = 1
      /\ orig' = WithoutLinks(me, orig, D)
      /\ cost' = CostAfterLoss(me, nbrs, orig, cost, D)
      /\ hop' = HopAfterLoss(me, nbrs, orig, hop, D)
      /\ nbrs' = nbrs
  BY DEF Timeout, D
<1>3. /\ nbrs \in SUBSET (Routers \ {me}) /\ orig \in Table /\ me \in Routers
      /\ cost \in CostVector /\ hop \in [Routers -> Routers \cup {NoHop}]
  BY MeAssumption DEF TypeOK, Table
<1>4. orig[me][me] = 0 /\ Shaped(me, nbrs, nbrs \ tracked, cost, hop)
  BY <1>2 DEF ShapeInv
<1>5. Shaped(me, nbrs, nbrs \ tracked', cost', hop')
  BY <1>1, <1>2, <1>3, <1>4, LossShapes
<1>6. orig'[me][me] = 0
  BY <1>1, <1>2, <1>3, <1>4 DEF WithoutLinks, Table, CostVector
<1> QED
  BY <1>2, <1>5, <1>6 DEF ShapeInv

\* A routing packet: the losses, then a recomputation.
LEMMA UpdateRoutingTableKeepsShape ==
  ASSUME TypeOK, ShapeInv, NEW s \in nbrs, NEW vec \in Vectors[s],
         UpdateRoutingTable(s, vec)
  PROVE  ShapeInv'
<1> DEFINE d == [due EXCEPT ![s] = After(now, Interval)]
           m == [missed EXCEPT ![s] = 0]
           D == GivenUp(me, Expired(d), m)
           o1 == WithoutLinks(me, orig, D)
           o == [o1 EXCEPT ![s] = vec]
           c == CostAfterLoss(me, nbrs, orig, cost, D)
           h == HopAfterLoss(me, nbrs, orig, hop, D)
<1>1. D \in SUBSET nbrs /\ nbrs \ tracked' = (nbrs \ tracked) \cup D
  BY GivenUpAreNeighbours DEF UpdateRoutingTable
<1>2. /\ flag_init = 1
      /\ orig' = o
      /\ cost' = RecalculatedCost(me, nbrs, o, c)
      /\ hop' = RecalculatedHop(me, nbrs, o, h)
      /\ nbrs' = nbrs
  BY DEF UpdateRoutingTable
<1>3. /\ nbrs \in SUBSET (Routers \ {me}) /\ orig \in Table /\ me \in Routers
      /\ cost \in CostVector /\ hop \in [Routers -> Routers \cup {NoHop}]
      /\ s \in Routers /\ s # me
  BY MeAssumption DEF TypeOK, Table
<1>4. vec \in CostVector
  BY <1>3, InputAssumption
<1>5. orig[me][me] = 0 /\ Shaped(me, nbrs, nbrs \ tracked, cost, hop)
  BY <1>2 DEF ShapeInv
<1> HIDE DEF D
<1>6. Shaped(me, nbrs, (nbrs \ tracked) \cup D, c, h)
  BY <1>1, <1>3, <1>5, LossShapes
<1>7. c \in CostVector /\ h \in [Routers -> Routers \cup {NoHop}]
  BY <1>1, <1>3, AfterLossType
<1>8. o1 \in Table /\ o1[me][me] = 0
  <2>1. o1 \in Table
    BY <1>1, <1>3, WithoutLinksType
  <2> QED
    BY <1>1, <1>3, <1>5, <2>1 DEF WithoutLinks, Table, CostVector
<1> HIDE DEF o1, c, h
<1>9. o \in Table /\ o[me][me] = 0
  BY <1>3, <1>4, <1>8 DEF Table
<1> HIDE DEF o
<1>10. Shaped(me, nbrs, (nbrs \ tracked) \cup D, cost', hop')
  BY <1>1, <1>2, <1>3, <1>6, <1>7, <1>9, RecalculationShapes
<1> QED
  BY <1>1, <1>2, <1>9, <1>10 DEF ShapeInv

\* UPDATE gives a cost to a neighbour: one that has a next hop or was given up on.
LEMMA UpdateResponseKeepsShape ==
  ASSUME TypeOK, ShapeInv, NEW r \in nbrs, NEW c \in NewCosts,
         UpdateResponse(r, c)
  PROVE  ShapeInv'
<1> DEFINE o == [orig EXCEPT ![me][r] = c, ![r][me] = c]
           c1 == [cost EXCEPT ![r] = c]
<1>1. /\ flag_init = 1
      /\ orig' = o
      /\ cost' = RecalculatedCost(me, nbrs, o, c1)
      /\ hop' = RecalculatedHop(me, nbrs, o, hop)
      /\ nbrs' = nbrs /\ tracked' = tracked
  BY DEF UpdateResponse
<1>2. /\ nbrs \in SUBSET (Routers \ {me}) /\ orig \in Table /\ me \in Routers
      /\ cost \in CostVector /\ hop \in [Routers -> Routers \cup {NoHop}]
      /\ r \in Routers /\ r # me /\ c \in Cost
  BY MeAssumption, InputAssumption DEF TypeOK, Table, Cost
<1>3. orig[me][me] = 0 /\ Shaped(me, nbrs, nbrs \ tracked, cost, hop)
  BY <1>1 DEF ShapeInv
<1>4. o \in Table /\ c1 \in CostVector /\ o[me][me] = 0
  BY <1>2, <1>3 DEF Table, CostVector
<1>5. Shaped(me, nbrs, nbrs \ tracked, c1, hop)
  BY <1>2, <1>3 DEF Shaped, CostVector
<1> HIDE DEF o, c1
<1>6. Shaped(me, nbrs, nbrs \ tracked, cost', hop')
  BY <1>1, <1>2, <1>4, <1>5, RecalculationShapes
<1> QED
  BY <1>1, <1>4, <1>6 DEF ShapeInv

\* Every step keeps the shape.
LEMMA NextShape == TypeOK /\ ShapeInv /\ [Next]_vars => ShapeInv'
<1> SUFFICES ASSUME TypeOK, ShapeInv, [Next]_vars PROVE ShapeInv'
  OBVIOUS
<1>1. CASE InitResponse
  BY <1>1, InitResponseShape
<1>2. CASE Timeout
  BY <1>2, TimeoutKeepsShape
<1>3. ASSUME NEW s \in nbrs, NEW vec \in Vectors[s], UpdateRoutingTable(s, vec)
      PROVE  ShapeInv'
  BY <1>3, UpdateRoutingTableKeepsShape
<1>4. ASSUME NEW r \in nbrs, NEW c \in NewCosts, UpdateResponse(r, c)
      PROVE  ShapeInv'
  BY <1>4, UpdateResponseKeepsShape
<1>5. CASE Tick
  BY <1>5 DEF Tick, table, ShapeInv
<1>6. CASE UNCHANGED vars
  BY <1>6 DEF vars, table, ShapeInv
<1> QED
  BY <1>1, <1>2, <1>3, <1>4, <1>5, <1>6 DEF Next

\* In every reachable state an entry without next hop is unreachable or a
\* neighbour given up on, and every next hop is a neighbour: no handler routes a
\* file to a router that it has no link to.
THEOREM RoutesKeepShape == Spec => []RouteShape
<1>1. Init => ShapeInv
  BY DEF Init, ShapeInv
<1>2. TypeOK /\ ShapeInv /\ [Next]_vars => ShapeInv'
  BY NextShape
<1>3. ShapeInv => RouteShape
  BY DEF ShapeInv, Shaped, RouteShape
<1> QED
  BY TypeCorrect, <1>1, <1>2, <1>3, PTL DEF Spec

-----------------------------------------------------------------------------
(* Silence.  The inductive invariant ties the miss counter of a tracked     *)
(* neighbour to the time since its last packet: with k misses, k+1          *)
(* intervals have passed or will have when its deadline does.               *)

MissesCounted(r) ==
  /\ missed[r] \in 0 .. 2
  /\ \/ lastHeard[r] + (missed[r] + 1) * Interval <= now.sec
     \/ lastHeard[r] + (missed[r] + 1) * Interval <= due[r].sec

SilenceInv ==
  /\ flag_init = 0 => nbrs = {} /\ tracked = {}
  /\ flag_init = 1 => \A r \in tracked \ {me} : MissesCounted(r)

\* What a call of set_new_timeout does to a neighbour, when its counters agree
\* with its silence.
LEMMA SetNewTimeoutSilence ==
  ASSUME TypeOK, NEW d \in [Routers -> Time], NEW m \in [Routers -> Nat],
         NEW l \in [Routers -> Int],
         SetNewTimeout(d, m), now' = now, lastHeard' = l,
         NEW r \in tracked \ {me},
         m[r] \in 0 .. 2,
         \/ l[r] + (m[r] + 1) * Interval <= now.sec
         \/ l[r] + (m[r] + 1) * Interval <= d[r].sec
  PROVE  /\ r \in tracked' => MissesCounted(r)'
         /\ r \notin tracked' => now.sec >= l[r] + 3 * Interval
<1> DEFINE X == Expired(d)
<1>1. r \in Routers /\ r # me /\ X \in SUBSET Routers
  BY MeAssumption DEF TypeOK, Expired
<1>2. now.sec \in Nat /\ d[r].sec \in Nat /\ l[r] \in Int /\ Interval \in Nat
  BY <1>1, IntervalAssumption DEF TypeOK, Time
<1>3. CASE r \notin X
  <2>1. r \in tracked' /\ missed'[r] = m[r] /\ due'[r] = d[r]
    BY <1>1, <1>3 DEF SetNewTimeout, GivenUp, MissedAfter, NextDue
  <2> QED
    BY <2>1 DEF MissesCounted
<1>4. CASE r \in X
  <2>1. d[r].sec <= now.sec
    BY <1>4 DEF Expired
  <2>2. l[r] + (m[r] + 1) * Interval <= now.sec
    <3>1. (m[r] + 1) * Interval \in Int
      BY <1>2
    <3> QED
      BY <1>2, <2>1, <3>1
  <2>3. missed'[r] = m[r] + 1
    BY <1>1, <1>4 DEF SetNewTimeout, MissedAfter
  <2>4. due'[r].sec >= now.sec + Interval
    <3>1. ExtraDelay(X, r) \in Nat
      BY <1>1, ExtraDelayType
    <3>2. due'[r] = After(now, Interval + ExtraDelay(X, r))
      BY <1>1, <1>4 DEF SetNewTimeout, NextDue
    <3>3. due'[r].sec = now.sec + (Interval + ExtraDelay(X, r))
      BY <3>2 DEF After, TypeOK, Time
    <3> QED
      BY <1>2, <3>1, <3>3
  <2>5. r \in tracked' <=> m[r] + 1 < 3
    BY <1>1, <1>4 DEF SetNewTimeout, GivenUp, MissLimit
  <2>6. due'[r].sec \in Nat
    BY <1>1, SetNewTimeoutType DEF Time
  <2>7. CASE m[r] = 2
    BY <1>2, <2>2, <2>5, <2>7
  <2>8. CASE m[r] = 1
    <3>1. l[r] + 3 * Interval <= due'[r].sec
      BY <1>2, <2>2, <2>4, <2>6, <2>8
    <3> QED
      BY <2>3, <2>5, <2>8, <3>1 DEF MissesCounted
  <2>9. CASE m[r] = 0
    <3>1. l[r] + 2 * Interval <= due'[r].sec
      BY <1>2, <2>2, <2>4, <2>6, <2>9
    <3> QED
      BY <2>3, <2>5, <2>9, <3>1 DEF MissesCounted
  <2> QED
    BY <2>7, <2>8, <2>9
<1> QED
  BY <1>3, <1>4

\* What DropOnlyAfterSilence says of one step.
DropIsLate ==
  \A r \in nbrs : r \in tracked /\ r \notin tracked'
                    => now.sec >= lastHeard'[r] + 3 * Interval

\* The timer counts only misses.
LEMMA TimeoutSilence ==
  TypeOK /\ SilenceInv /\ Timeout => SilenceInv' /\ DropIsLate
<1> SUFFICES ASSUME TypeOK, SilenceInv, Timeout PROVE SilenceInv' /\ DropIsLate
  OBVIOUS
<1>1. /\ due \in [Routers -> Time] /\ missed \in [Routers -> Nat]
      /\ lastHeard \in [Routers -> Int]
      /\ flag_init = 1 /\ flag_init' = flag_init
      /\ SetNewTimeout(due, missed) /\ now' = now /\ lastHeard' = lastHeard
  BY DEF TypeOK, Timeout
<1>2. ASSUME NEW r \in tracked \ {me}
      PROVE  /\ r \in tracked' => MissesCounted(r)'
             /\ r \notin tracked' => now.sec >= lastHeard[r] + 3 * Interval
  BY <1>1, SetNewTimeoutSilence DEF SilenceInv, MissesCounted
<1>3. tracked' \subseteq tracked /\ me \notin nbrs
  BY DEF Timeout, SetNewTimeout, TypeOK
<1> QED
  BY <1>1, <1>2, <1>3 DEF SilenceInv, DropIsLate

\* A packet forgives its sender's misses before the others' are counted.
LEMMA UpdateRoutingTableSilence ==
  ASSUME TypeOK, SilenceInv, NEW s \in nbrs, NEW vec \in Vectors[s],
         UpdateRoutingTable(s, vec)
  PROVE  SilenceInv' /\ DropIsLate
<1> DEFINE d == [due EXCEPT ![s] = After(now, Interval)]
           m == [missed EXCEPT ![s] = 0]
           l == [lastHeard EXCEPT ![s] = now.sec]
<1>1. /\ flag_init = 1 /\ flag_init' = flag_init
      /\ SetNewTimeout(d, m) /\ now' = now /\ lastHeard' = l
  BY DEF UpdateRoutingTable
<1>2. s \in Routers /\ now.sec \in Nat /\ Interval \in Nat
  BY IntervalAssumption DEF TypeOK, Time
<1>3. /\ d \in [Routers -> Time]
      /\ m \in [Routers -> Nat]
      /\ l \in [Routers -> Int]
  BY <1>2, AfterType DEF TypeOK
<1>4. ASSUME NEW r \in tracked \ {me}
      PROVE  /\ m[r] \in 0 .. 2
             /\ \/ l[r] + (m[r] + 1) * Interval <= now.sec
                \/ l[r] + (m[r] + 1) * Interval <= d[r].sec
  <2>1. r \in Routers /\ MissesCounted(r)
    BY <1>1 DEF TypeOK, SilenceInv
  <2>2. CASE r # s
    <3>1. m[r] = missed[r] /\ l[r] = lastHeard[r] /\ d[r] = due[r]
      BY <2>1, <2>2 DEF TypeOK
    <3> QED
      BY <2>1, <3>1 DEF MissesCounted
  <2>3. CASE r = s
    <3>1. m[r] = 0 /\ l[r] = now.sec /\ d[r] = After(now, Interval)
      BY <1>2, <2>3 DEF TypeOK
    <3>2. d[r].sec = now.sec + Interval
      BY <3>1 DEF After, TypeOK, Time
    <3> QED
      BY <1>2, <3>1, <3>2
  <2> QED
    BY <2>2, <2>3
<1> HIDE DEF d, m, l
<1>5. ASSUME NEW r \in tracked \ {me}
      PROVE  /\ r \in tracked' => MissesCounted(r)'
             /\ r \notin tracked' => now.sec >= l[r] + 3 * Interval
  BY <1>1, <1>3, <1>4, SetNewTimeoutSilence
<1>6. tracked' \subseteq tracked /\ me \notin nbrs
  BY <1>1 DEF SetNewTimeout, TypeOK
<1> QED
  BY <1>1, <1>5, <1>6 DEF SilenceInv, DropIsLate

\* Every step keeps the count, and drops only the silent.
LEMMA NextSilence ==
  TypeOK /\ SilenceInv /\ [Next]_vars => SilenceInv' /\ (DropIsLate \/ UNCHANGED vars)
<1> SUFFICES ASSUME TypeOK, SilenceInv, [Next]_vars
             PROVE  SilenceInv' /\ (DropIsLate \/ UNCHANGED vars)
  OBVIOUS
<1>1. CASE InitResponse
  <2>1. nbrs = {} /\ flag_init' = 1
    BY <1>1 DEF InitResponse, SilenceInv
  <2>2. ASSUME NEW r \in tracked' \ {me}
        PROVE  MissesCounted(r)'
    <3>1. r \in Routers
      BY <1>1, InitResponseTypeOK, MeAssumption DEF TypeOK
    <3>2. /\ missed'[r] = 0
          /\ lastHeard'[r] = now.sec - Interval
          /\ now' = now
      BY <1>1, <3>1 DEF InitResponse
    <3>3. now.sec \in Nat /\ Interval \in Nat
      BY IntervalAssumption DEF TypeOK, Time
    <3> QED
      BY <3>2, <3>3 DEF MissesCounted
  <2> QED
    BY <2>1, <2>2 DEF SilenceInv, DropIsLate
<1>2. CASE Timeout
  BY <1>2, TimeoutSilence
<1>3. ASSUME NEW s \in nbrs, NEW vec \in Vectors[s], UpdateRoutingTable(s, vec)
      PROVE  SilenceInv' /\ DropIsLate
  BY <1>3, UpdateRoutingTableSilence
<1>4. ASSUME NEW r \in nbrs, NEW c \in NewCosts, UpdateResponse(r, c)
      PROVE  SilenceInv' /\ DropIsLate
  BY <1>4 DEF UpdateResponse, timers, history, SilenceInv, MissesCounted, DropIsLate
<1>5. CASE Tick
  <2>1. now.sec <= now'.sec
    BY <1>5 DEF Tick, TypeOK, Time
  <2>2. UNCHANGED <<flag_init, nbrs, tracked, missed, due, lastHeard>>
    BY <1>5 DEF Tick, timers, history
  <2>3. DropIsLate
    BY <2>2 DEF DropIsLate
  <2>4. ASSUME flag_init = 1, NEW r \in tracked \ {me}
        PROVE  MissesCounted(r)'
    <3>1. r \in Routers /\ MissesCounted(r)
      BY <2>4, MeAssumption DEF SilenceInv, TypeOK
    <3>2. now.sec \in Nat /\ now'.sec \in Nat /\ lastHeard[r] \in Int
      BY <1>5, <3>1, NextTypeOK DEF Next, TypeOK, Time
    <3>3. (missed[r] + 1) * Interval \in Int
      BY <3>1, IntervalAssumption DEF MissesCounted
    <3>4. \/ lastHeard[r] + (missed[r] + 1) * Interval <= now'.sec
          \/ lastHeard[r] + (missed[r] + 1) * Interval <= due[r].sec
      BY <2>1, <3>1, <3>2, <3>3 DEF MissesCounted
    <3> QED
      BY <2>2, <3>1, <3>4 DEF MissesCounted
  <2> QED
    BY <2>2, <2>3, <2>4 DEF SilenceInv
<1>6. CASE UNCHANGED vars
  BY <1>6 DEF vars, timers, history, SilenceInv, MissesCounted
<1> QED
  BY <1>1, <1>2, <1>3, <1>4, <1>5, <1>6 DEF Next

\* A neighbour is given up on only after three full intervals without a packet
\* from it, whatever the other neighbours and the controller do in between.
THEOREM DropsOnlyTheSilent == Spec => DropOnlyAfterSilence
<1>1. Init => SilenceInv
  BY DEF Init, SilenceInv
<1>2. TypeOK /\ SilenceInv /\ [Next]_vars => SilenceInv'
  BY NextSilence
<1>3. TypeOK /\ SilenceInv /\ [Next]_vars => [DropIsLate]_vars
  BY NextSilence
<1>4. [DropIsLate]_vars
        <=> [\A r \in nbrs : r \in tracked /\ r \notin tracked'
                               => now.sec >= lastHeard'[r] + 3 * Interval]_vars
  BY DEF DropIsLate
<1> QED
  BY TypeCorrect, <1>1, <1>2, <1>3, <1>4, PTL DEF Spec, DropOnlyAfterSilence
=============================================================================
