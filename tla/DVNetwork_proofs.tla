-------------------------- MODULE DVNetwork_proofs --------------------------
(***************************************************************************)
(* Theorems about DVNetwork, for every topology, any link costs, and any   *)
(* number of datagrams and disturbances.                                   *)
(***************************************************************************)
EXTENDS DVNetwork, DistanceVector_proofs, SequenceTheorems

-----------------------------------------------------------------------------
(* Type correctness *)

\* Nobody is its own neighbour, and the links have costs.
LEMMA LinkProperties ==
  ASSUME NEW n \in Routers
  PROVE  /\ Nbrs(n) \in SUBSET (Routers \ {n})
         /\ Nbrs(n) \in SUBSET Routers
         /\ Link[n] \in CostVector
         /\ Watched(Link[n]) \in SUBSET (Nbrs(n) \cup {n})
         /\ FirstHop(Link[n]) \in [Routers -> Routers \cup {NoHop}]
BY LinkAssumption DEF Nbrs, Neighbours, Watched, FirstHop

\* Queues of vectors stay queues of vectors.
LEMMA QueueTypes ==
  ASSUME NEW q \in Seq(CostVector), NEW v \in CostVector
  PROVE  /\ Append(q, v) \in Seq(CostVector)
         /\ q # << >> => /\ Head(q) \in CostVector
                         /\ Tail(q) \in Seq(CostVector)
                         /\ <<Head(q)>> \o q \in Seq(CostVector)
                         /\ Append(Tail(q), Head(q)) \in Seq(CostVector)
<1>1. ASSUME q # << >>
      PROVE  Head(q) \in CostVector /\ Tail(q) \in Seq(CostVector)
  BY <1>1, HeadTailProperties
<1>2. ASSUME q # << >>
      PROVE  <<Head(q)>> \o q \in Seq(CostVector)
  <2>1. <<Head(q)>> \in Seq(CostVector)
    BY <1>1, <1>2
  <2> QED
    BY <2>1, ConcatProperties
<1> QED
  BY <1>1, <1>2, AppendProperties

\* An announcement is a vector in some queues of its sender.
LEMMA AnnounceType ==
  ASSUME NEW q \in [Routers -> [Routers -> Seq(CostVector)]], NEW n \in Routers,
         NEW vec \in CostVector
  PROVE  Announce(q, n, vec) \in [Routers -> [Routers -> Seq(CostVector)]]
<1>1. \A r \in Routers : /\ q[n][r] \in Seq(CostVector)
                         /\ Append(q[n][r], vec) \in Seq(CostVector)
  BY QueueTypes
<1> QED
  BY <1>1 DEF Announce

\* set_new_timeout keeps the types of what it writes.
LEMMA SetNewTimeoutKeepsTypes ==
  ASSUME TypeOK, NEW n \in Routers, NEW D \in SUBSET Nbrs(n),
         NEW announces \in BOOLEAN,
         NEW q \in [Routers -> [Routers -> Seq(CostVector)]],
         SetNewTimeout(n, D, announces, q)
  PROVE  /\ tracked' \in [Routers -> SUBSET Routers]
         /\ \A r \in Routers : tracked'[r] \subseteq Nbrs(r) \cup {r}
         /\ net' \in [Routers -> [Routers -> Seq(CostVector)]]
         /\ faults' \in 0 .. MaxFaults
         /\ UNCHANGED <<status, floor>>
<1>1. Nbrs(n) \in SUBSET Routers
  BY LinkProperties
<1> DEFINE E == {d \in D : d < n}
           vec == CostAfterLoss(n, Nbrs(n), orig[n], cost[n], E)
<1>2. vec \in CostVector
  <2>1. E \in SUBSET Routers
    BY <1>1
  <2>2. orig[n] \in Table /\ cost[n] \in CostVector
    BY DEF TypeOK, Table
  <2>3. hop[n] \in [Routers -> Routers \cup {NoHop}]
    BY DEF TypeOK
  <2> HIDE DEF E
  <2> QED
    BY <1>1, <2>1, <2>2, <2>3, AfterLossType
<1>3. net' = IF announces THEN Announce(q, n, vec) ELSE q
  BY DEF SetNewTimeout
<1> HIDE DEF vec
<1>4. net' \in [Routers -> [Routers -> Seq(CostVector)]]
  BY <1>2, <1>3, AnnounceType
<1>5. tracked' = [tracked EXCEPT ![n] = tracked[n] \ D]
  BY DEF SetNewTimeout
<1>6. faults' \in 0 .. MaxFaults
  BY BoundAssumption DEF SetNewTimeout, TypeOK
<1>7. /\ tracked' \in [Routers -> SUBSET Routers]
      /\ \A r \in Routers : tracked'[r] \subseteq Nbrs(r) \cup {r}
  BY <1>5 DEF TypeOK
<1> QED
  BY <1>4, <1>6, <1>7 DEF SetNewTimeout

\* Nothing is known before INIT.
LEMMA InitTypeOK == Init => TypeOK
<1> SUFFICES ASSUME Init PROVE TypeOK
  OBVIOUS
<1>1. 0 \in Cost /\ 0 \in Routers
  BY InfAssumption, NAssumption DEF Cost, Routers
<1>2. << >> \in Seq(CostVector)
  OBVIOUS
<1> QED
  BY <1>1, <1>2, LinkAssumption, BoundAssumption DEF Init, TypeOK, CostVector

\* INIT at n.
LEMMA InitResponseTypeOK ==
  ASSUME TypeOK, NEW n \in Routers, InitResponse(n) PROVE TypeOK'
<1>1. net' \in [Routers -> [Routers -> Seq(CostVector)]]
  BY LinkProperties, AnnounceType DEF InitResponse, TypeOK
<1>2. [i \in Routers |-> Inf] \in CostVector
  BY InfAssumption DEF CostVector, Cost
<1>3. orig' \in [Routers -> [Routers -> CostVector]]
  BY <1>2, LinkProperties DEF InitResponse, TypeOK
<1>4. /\ cost' \in [Routers -> CostVector]
      /\ hop' \in [Routers -> [Routers -> Routers \cup {NoHop}]]
      /\ status' \in [Routers -> {"idle", "up", "dead"}]
  BY LinkProperties DEF InitResponse, TypeOK
<1>5. /\ tracked' \in [Routers -> SUBSET Routers]
      /\ \A r \in Routers : tracked'[r] \subseteq Nbrs(r) \cup {r}
  BY LinkProperties DEF InitResponse, TypeOK
<1> QED
  BY <1>1, <1>3, <1>4, <1>5 DEF InitResponse, TypeOK

\* The timer at n.
LEMMA TimeoutTypeOK ==
  ASSUME TypeOK, NEW n \in Routers, NEW D \in SUBSET Nbrs(n),
         NEW announces \in BOOLEAN, Timeout(n, D, announces)
  PROVE  TypeOK'
<1>1. /\ Nbrs(n) \in SUBSET Routers /\ D \in SUBSET Routers
      /\ orig[n] \in Table /\ cost[n] \in CostVector
      /\ hop[n] \in [Routers -> Routers \cup {NoHop}]
  BY LinkProperties DEF TypeOK, Table
<1>2. /\ WithoutLinks(n, orig[n], D) \in [Routers -> CostVector]
      /\ CostAfterLoss(n, Nbrs(n), orig[n], cost[n], D) \in CostVector
      /\ HopAfterLoss(n, Nbrs(n), orig[n], hop[n], D) \in [Routers -> Routers \cup {NoHop}]
  BY <1>1, WithoutLinksType, AfterLossType DEF Table
<1>3. /\ orig' \in [Routers -> [Routers -> CostVector]]
      /\ cost' \in [Routers -> CostVector]
      /\ hop' \in [Routers -> [Routers -> Routers \cup {NoHop}]]
  BY <1>2 DEF Timeout, TypeOK
<1>4. net \in [Routers -> [Routers -> Seq(CostVector)]]
  BY DEF TypeOK
<1>5. /\ tracked' \in [Routers -> SUBSET Routers]
      /\ \A r \in Routers : tracked'[r] \subseteq Nbrs(r) \cup {r}
      /\ net' \in [Routers -> [Routers -> Seq(CostVector)]]
      /\ faults' \in 0 .. MaxFaults
      /\ UNCHANGED <<status, floor>>
  BY <1>4, SetNewTimeoutKeepsTypes DEF Timeout
<1> QED
  BY <1>3, <1>5 DEF TypeOK

\* A datagram from s at n.
LEMMA UpdateRoutingTableTypeOK ==
  ASSUME TypeOK, NEW n \in Routers, NEW s \in Nbrs(n), NEW D \in SUBSET Nbrs(n),
         NEW announces \in BOOLEAN, UpdateRoutingTable(n, s, D, announces)
  PROVE  TypeOK'
<1> DEFINE o == [WithoutLinks(n, orig[n], D) EXCEPT ![s] = Head(net[s][n])]
           c == CostAfterLoss(n, Nbrs(n), orig[n], cost[n], D)
           h == HopAfterLoss(n, Nbrs(n), orig[n], hop[n], D)
           q == [net EXCEPT ![s][n] = Tail(@)]
<1>1. /\ Nbrs(n) \in SUBSET Routers /\ D \in SUBSET Routers /\ s \in Routers
      /\ orig[n] \in Table /\ cost[n] \in CostVector
      /\ hop[n] \in [Routers -> Routers \cup {NoHop}]
  BY LinkProperties DEF TypeOK, Table
<1>2. Head(net[s][n]) \in CostVector /\ Tail(net[s][n]) \in Seq(CostVector)
  <2>1. net[s][n] \in Seq(CostVector) /\ net[s][n] # << >>
    BY <1>1 DEF TypeOK, UpdateRoutingTable
  <2>2. cost[n] \in CostVector
    BY <1>1
  <2> QED
    BY <2>1, <2>2, QueueTypes
<1>3. q \in [Routers -> [Routers -> Seq(CostVector)]]
  BY <1>2 DEF TypeOK
<1>4. /\ SetNewTimeout(n, D, announces, q)
      /\ orig' = [orig EXCEPT ![n] = o]
      /\ cost' = [cost EXCEPT ![n] = RecalculatedCost(n, Nbrs(n), o, c)]
      /\ hop' = [hop EXCEPT ![n] = RecalculatedHop(n, Nbrs(n), o, h)]
  BY DEF UpdateRoutingTable
<1>5. o \in Table
  BY <1>1, <1>2, WithoutLinksType DEF Table
<1>6. c \in CostVector /\ h \in [Routers -> Routers \cup {NoHop}]
  BY <1>1, AfterLossType
<1> HIDE DEF o, c, h, q
<1>7. /\ RecalculatedCost(n, Nbrs(n), o, c) \in CostVector
      /\ RecalculatedHop(n, Nbrs(n), o, h) \in [Routers -> Routers \cup {NoHop}]
  BY <1>1, <1>5, <1>6, RecalculatedCostType, RecalculatedHopType
<1>8. /\ orig' \in [Routers -> [Routers -> CostVector]]
      /\ cost' \in [Routers -> CostVector]
      /\ hop' \in [Routers -> [Routers -> Routers \cup {NoHop}]]
  BY <1>4, <1>5, <1>7 DEF TypeOK, Table
<1>9. /\ tracked' \in [Routers -> SUBSET Routers]
      /\ \A r \in Routers : tracked'[r] \subseteq Nbrs(r) \cup {r}
      /\ net' \in [Routers -> [Routers -> Seq(CostVector)]]
      /\ faults' \in 0 .. MaxFaults
      /\ UNCHANGED <<status, floor>>
  BY <1>3, <1>4, SetNewTimeoutKeepsTypes
<1> QED
  BY <1>8, <1>9 DEF TypeOK

\* UPDATE at n.
LEMMA UpdateResponseTypeOK ==
  ASSUME TypeOK, NEW n \in Routers, NEW r \in Nbrs(n), NEW c \in NewCosts,
         UpdateResponse(n, r, c)
  PROVE  TypeOK'
<1> DEFINE o == [orig[n] EXCEPT ![n][r] = c, ![r][n] = c]
           c1 == [cost[n] EXCEPT ![r] = c]
<1>1. /\ Nbrs(n) \in SUBSET Routers /\ r \in Routers /\ c \in Cost
      /\ orig[n] \in Table /\ cost[n] \in CostVector
      /\ hop[n] \in [Routers -> Routers \cup {NoHop}]
  BY LinkProperties, BoundAssumption DEF TypeOK, Table, Cost
<1>2. o \in Table /\ c1 \in CostVector
  BY <1>1 DEF Table, CostVector
<1>3. /\ orig' = [orig EXCEPT ![n] = o]
      /\ cost' = [cost EXCEPT ![n] = RecalculatedCost(n, Nbrs(n), o, c1)]
      /\ hop' = [hop EXCEPT ![n] = RecalculatedHop(n, Nbrs(n), o, hop[n])]
      /\ floor' = [floor EXCEPT ![n][r] = Min({floor[n][r], c})]
      /\ faults < MaxFaults /\ faults' = faults + 1
      /\ UNCHANGED <<status, tracked, net>>
  BY DEF UpdateResponse
<1> HIDE DEF o, c1
<1>4. /\ RecalculatedCost(n, Nbrs(n), o, c1) \in CostVector
      /\ RecalculatedHop(n, Nbrs(n), o, hop[n]) \in [Routers -> Routers \cup {NoHop}]
  BY <1>1, <1>2, RecalculatedCostType, RecalculatedHopType
<1>5. Min({floor[n][r], c}) \in Cost
  <2>1. floor[n][r] \in Cost
    BY <1>1 DEF TypeOK, CostVector
  <2>2. Min({floor[n][r], c}) \in {floor[n][r], c}
    BY <1>1, <2>1, MinProperty, IdsAndCostsAreNaturals
  <2> QED
    BY <1>1, <2>1, <2>2
<1>6. floor' \in [Routers -> CostVector]
  BY <1>1, <1>3, <1>5 DEF TypeOK, CostVector
<1>7. faults' \in 0 .. MaxFaults
  BY <1>3, BoundAssumption DEF TypeOK
<1> QED
  BY <1>2, <1>3, <1>4, <1>6, <1>7 DEF TypeOK, Table

\* CRASH at n, and what the network does to a datagram.
LEMMA NetworkTypeOK ==
  ASSUME TypeOK, NEW n \in Routers, NEW s \in Routers,
         \/ CrashResponse(n)
         \/ Lose(s, n) \/ Duplicate(s, n) \/ Reorder(s, n)
  PROVE  TypeOK'
<1>1. net \in [Routers -> [Routers -> Seq(CostVector)]]
  BY DEF TypeOK
<1>2. net[s][n] # << >> =>
        /\ Tail(net[s][n]) \in Seq(CostVector)
        /\ <<Head(net[s][n])>> \o net[s][n] \in Seq(CostVector)
        /\ Append(Tail(net[s][n]), Head(net[s][n])) \in Seq(CostVector)
  <2>1. cost[n] \in CostVector /\ net[s][n] \in Seq(CostVector)
    BY <1>1 DEF TypeOK
  <2> QED
    BY <2>1, QueueTypes
<1>3. CASE CrashResponse(n)
  <2>1. net' \in [Routers -> [Routers -> Seq(CostVector)]]
    BY <1>1, <1>3 DEF CrashResponse
  <2> QED
    BY <1>3, <2>1 DEF CrashResponse, TypeOK, tables
<1>4. CASE Lose(s, n)
  <2>1. net' \in [Routers -> [Routers -> Seq(CostVector)]]
    BY <1>1, <1>2, <1>4 DEF Lose
  <2> QED
    BY <1>4, <2>1 DEF Lose, TypeOK, tables
<1>5. CASE Duplicate(s, n)
  <2>1. net' \in [Routers -> [Routers -> Seq(CostVector)]]
    BY <1>1, <1>2, <1>5 DEF Duplicate
  <2> QED
    BY <1>5, <2>1 DEF Duplicate, TypeOK, tables
<1>6. CASE Reorder(s, n)
  <2>1. net[s][n] # << >>
    BY <1>6 DEF Reorder
  <2>2. net' \in [Routers -> [Routers -> Seq(CostVector)]]
    BY <1>1, <1>2, <1>6, <2>1 DEF Reorder
  <2>3. faults' \in 0 .. MaxFaults
    BY <1>6, BoundAssumption DEF Reorder, TypeOK
  <2> QED
    BY <1>6, <2>2, <2>3 DEF Reorder, TypeOK, tables
<1> QED
  BY <1>3, <1>4, <1>5, <1>6

\* Every step keeps the types.
LEMMA NextTypeOK == TypeOK /\ [Next]_vars => TypeOK'
<1> SUFFICES ASSUME TypeOK, [Next]_vars PROVE TypeOK'
  OBVIOUS
<1>1. ASSUME NEW n \in Routers, InitResponse(n)
      PROVE  TypeOK'
  BY <1>1, InitResponseTypeOK
<1>2. ASSUME NEW n \in Routers, NEW D \in SUBSET Nbrs(n),
             NEW announces \in BOOLEAN, Timeout(n, D, announces)
      PROVE  TypeOK'
  BY <1>2, TimeoutTypeOK
<1>3. ASSUME NEW n \in Routers, NEW s \in Nbrs(n), NEW D \in SUBSET Nbrs(n),
             NEW announces \in BOOLEAN, UpdateRoutingTable(n, s, D, announces)
      PROVE  TypeOK'
  BY <1>3, UpdateRoutingTableTypeOK
<1>4. ASSUME NEW n \in Routers, NEW r \in Nbrs(n), NEW c \in NewCosts,
             UpdateResponse(n, r, c)
      PROVE  TypeOK'
  BY <1>4, UpdateResponseTypeOK
<1>5. ASSUME NEW n \in Routers, NEW s \in Nbrs(n),
             Lose(s, n) \/ Duplicate(s, n) \/ Reorder(s, n)
      PROVE  TypeOK'
  BY <1>5, LinkProperties, NetworkTypeOK
<1>6. ASSUME NEW n \in Routers, CrashResponse(n)
      PROVE  TypeOK'
  BY <1>6, NetworkTypeOK
<1>7. CASE UNCHANGED vars
  BY <1>7 DEF vars, tables, TypeOK
<1> QED
  BY <1>1, <1>2, <1>3, <1>4, <1>5, <1>6, <1>7 DEF Next

\* In every reachable state of the network every variable has its type.
THEOREM TypeCorrect == Spec => []TypeOK
BY InitTypeOK, NextTypeOK, PTL DEF Spec

-----------------------------------------------------------------------------
(* Loops.  HopsDescend compares a table with its neighbours' tables; what    *)
(* the router computed from are older vectors.  The inductive invariant      *)
(* follows a vector on its way: as long as nothing disturbs the network,     *)
(* costs only fall, so what n has heard from s, then the datagrams on the    *)
(* way from s to n in their order, then the table of s, are each no worse    *)
(* than the one before.                                                      *)

\* Vector w is nowhere worse than v.
NoWorse(w, v) == \A i \in Routers : w[i] <= v[i]

NothingHeard == [i \in Routers |-> Inf]

\* The columns c and h of n are what its links and the rows of o give.
Current(n, o, c, h) ==
  /\ o[n] = Link[n]
  /\ \A i \in Routers :
       IF ShorterVia(n, Nbrs(n), o, i)
       THEN c[i] = MinCost(n, Nbrs(n), o, i) /\ h[i] = HopTo(n, Nbrs(n), o, i)
       ELSE c[i] = Link[n][i] /\ h[i] = FirstHop(Link[n])[i]

\* The queue q gets only better, from first on, and ends no better than last.
Falling(first, q, last) ==
  /\ \A k \in 1 .. Len(q) : NoWorse(q[k], first) /\ NoWorse(last, q[k])
  /\ \A j, k \in 1 .. Len(q) : j <= k => NoWorse(q[k], q[j])

\* What n has heard from s is not better than the table of s ...
Heard(s, n) ==
  \/ orig[n][s] = NothingHeard
  \/ status[s] # "idle" /\ NoWorse(cost[s], orig[n][s])

\* ... and what is on the way lies between the two.
OnTheWay(s, n) ==
  /\ net[s][n] # << >> => status[n] = "up" /\ status[s] # "idle"
  /\ Falling(orig[n][s], net[s][n], cost[s])

CalmInv ==
  Calm =>
    /\ \A n \in Routers : status[n] # "idle" =>
         /\ Current(n, orig[n], cost[n], hop[n])
         /\ \A s \in Nbrs(n) : Heard(s, n)
    /\ \A s, n \in Routers : OnTheWay(s, n)

\* In a calm network every step along next hops lowers the cost: the next hop's
\* table is no worse than what was heard from it, and the link costs something.
LEMMA CalmInvDescends == TypeOK /\ CalmInv => HopsDescend
<1> SUFFICES ASSUME TypeOK, CalmInv, Calm, NEW n \in Routers, NEW i \in Routers,
                    status[n] # "idle", hop[n][i] \notin {i, NoHop}
             PROVE  status[hop[n][i]] # "idle" /\ cost[hop[n][i]][i] < cost[n][i]
  BY DEF HopsDescend
<1> DEFINE h == hop[n][i]
           o == orig[n]
<1>1. o \in Table /\ Nbrs(n) \in SUBSET (Routers \ {n}) /\ Nbrs(n) \in SUBSET Routers
  BY LinkProperties DEF TypeOK, Table
<1>2. Current(n, o, cost[n], hop[n]) /\ \A s \in Nbrs(n) : Heard(s, n)
  BY DEF CalmInv
<1>3. ShorterVia(n, Nbrs(n), o, i)
  <2> SUFFICES ASSUME ~ ShorterVia(n, Nbrs(n), o, i) PROVE FALSE
    OBVIOUS
  <2>1. h = FirstHop(Link[n])[i]
    BY <1>2 DEF Current
  <2> QED
    BY <2>1 DEF FirstHop
<1>4. h \in Nbrs(n) /\ Via(n, o, h, i) = MinCost(n, Nbrs(n), o, i)
      /\ cost[n][i] = MinCost(n, Nbrs(n), o, i)
  BY <1>1, <1>2, <1>3, HopToProperty DEF Current
<1>5. o[n][h] \in Nat /\ o[h][i] \in Nat /\ o[n][i] \in Nat /\ o[n][i] <= Inf
  BY <1>1, <1>4, TableEntries, InfAssumption DEF Cost
<1>6. o[n][h] # 0
  BY <1>1, <1>2, <1>4, LinkAssumption DEF Current
<1>7. cost[n][i] = o[n][h] + o[h][i] /\ cost[n][i] < o[n][i]
  BY <1>3, <1>4, <1>5 DEF Via, ShorterVia
<1>8. o[h][i] < Inf /\ o[h][i] < cost[n][i]
  BY <1>5, <1>6, <1>7, InfAssumption
<1>9. status[h] # "idle" /\ cost[h][i] <= o[h][i]
  <2>1. o[h] # NothingHeard
    BY <1>5, <1>8, InfAssumption DEF NothingHeard
  <2> QED
    BY <1>2, <1>4, <2>1 DEF Heard, NoWorse
<1>10. cost[h][i] \in Nat
  <2>1. cost[h] \in CostVector
    BY <1>1, <1>4 DEF TypeOK
  <2> QED
    BY <2>1, IdsAndCostsAreNaturals DEF CostVector
<1> QED
  BY <1>5, <1>7, <1>8, <1>9, <1>10

-----------------------------------------------------------------------------
(* What the steps of a calm network do to vectors and queues *)

\* No vector is worse than none, and what is no worse than one no worse is no worse.
LEMMA NoWorseProperties ==
  ASSUME NEW u \in CostVector, NEW v \in CostVector, NEW w \in CostVector
  PROVE  /\ NoWorse(u, u)
         /\ NoWorse(u, NothingHeard)
         /\ NoWorse(u, v) /\ NoWorse(v, w) => NoWorse(u, w)
<1>1. \A i \in Routers : /\ u[i] \in Nat /\ v[i] \in Nat /\ w[i] \in Nat
                         /\ u[i] <= Inf
  BY InfAssumption DEF CostVector, Cost
<1> QED
  BY <1>1 DEF NoWorse, NothingHeard

\* A recomputation with a vector no worse than the one it replaces: the table stays
\* current, and gets no worse.
LEMMA RecalculationFalls ==
  ASSUME NEW n \in Routers, NEW o \in Table, NEW c \in CostVector,
         NEW h \in [Routers -> Routers \cup {NoHop}], Current(n, o, c, h),
         NEW s \in Nbrs(n), NEW v \in CostVector, NoWorse(v, o[s]),
         NEW o1, o1 = [o EXCEPT ![s] = v]
  PROVE  /\ Current(n, o1, RecalculatedCost(n, Nbrs(n), o1, c),
                    RecalculatedHop(n, Nbrs(n), o1, h))
         /\ NoWorse(RecalculatedCost(n, Nbrs(n), o1, c), c)
<1> DEFINE nb == Nbrs(n)
<1>1. nb \in SUBSET (Routers \ {n}) /\ nb \in SUBSET Routers /\ s # n /\ s \in Routers
  BY LinkProperties
<1>2. o1 \in Table /\ o1[n] = o[n]
  BY <1>1 DEF Table
<1>3. ASSUME NEW i \in Routers
      PROVE  /\ MinCost(n, nb, o1, i) <= MinCost(n, nb, o, i)
             /\ MinCost(n, nb, o1, i) \in Nat /\ MinCost(n, nb, o, i) \in Nat
             /\ o[n][i] \in Nat /\ c[i] \in Nat
  <2>1. \A r \in nb : o1[r][i] <= o[r][i]
    <3> TAKE r \in nb
    <3>1. r \in Routers /\ o[r][i] \in Nat
      BY <1>1, TableEntries, IdsAndCostsAreNaturals
    <3> QED
      BY <1>1, <3>1 DEF NoWorse, Table
  <2>2. MinCost(n, nb, o1, i) <= MinCost(n, nb, o, i)
    BY <1>1, <1>2, <2>1, MinCostMonotone
  <2>3. c[i] \in Nat
    BY IdsAndCostsAreNaturals DEF CostVector
  <2> QED
    BY <1>1, <1>2, <2>2, <2>3, MinCostProperty, TableEntries, IdsAndCostsAreNaturals
<1>4. ASSUME NEW i \in Routers
      PROVE  /\ ShorterVia(n, nb, o, i) <=> o[n][i] > MinCost(n, nb, o, i)
             /\ ShorterVia(n, nb, o1, i) <=> o[n][i] > MinCost(n, nb, o1, i)
             /\ ShorterVia(n, nb, o, i) => ShorterVia(n, nb, o1, i)
  <2>1. /\ ShorterVia(n, nb, o, i) <=> o[n][i] > MinCost(n, nb, o, i)
        /\ ShorterVia(n, nb, o1, i) <=> o[n][i] > MinCost(n, nb, o1, i)
    BY <1>2 DEF ShorterVia
  <2>2. /\ MinCost(n, nb, o1, i) <= MinCost(n, nb, o, i)
        /\ MinCost(n, nb, o1, i) \in Nat /\ MinCost(n, nb, o, i) \in Nat
        /\ o[n][i] \in Nat
    BY <1>3
  <2> QED
    BY <2>1, <2>2
<1>5. ASSUME NEW i \in Routers
      PROVE  /\ IF ShorterVia(n, nb, o1, i)
                THEN /\ RecalculatedCost(n, nb, o1, c)[i] = MinCost(n, nb, o1, i)
                     /\ RecalculatedHop(n, nb, o1, h)[i] = HopTo(n, nb, o1, i)
                ELSE /\ RecalculatedCost(n, nb, o1, c)[i] = Link[n][i]
                     /\ RecalculatedHop(n, nb, o1, h)[i] = FirstHop(Link[n])[i]
             /\ RecalculatedCost(n, nb, o1, c)[i] <= c[i]
  <2>1. CASE ShorterVia(n, nb, o1, i)
    <3>1. HopTo(n, nb, o1, i) # n
      BY <1>1, <1>2, <2>1, HopToProperty
    <3>2. /\ RecalculatedCost(n, nb, o1, c)[i] = MinCost(n, nb, o1, i)
          /\ RecalculatedHop(n, nb, o1, h)[i] = HopTo(n, nb, o1, i)
      BY <2>1, <3>1 DEF RecalculatedCost, RecalculatedHop
    <3>3. MinCost(n, nb, o1, i) <= c[i]
      <4>1. c[i] = MinCost(n, nb, o, i) \/ c[i] = o[n][i]
        BY DEF Current
      <4>2. o[n][i] > MinCost(n, nb, o1, i)
        BY <1>4, <2>1
      <4>3. /\ MinCost(n, nb, o1, i) <= MinCost(n, nb, o, i)
            /\ MinCost(n, nb, o1, i) \in Nat /\ MinCost(n, nb, o, i) \in Nat
            /\ o[n][i] \in Nat
        BY <1>3
      <4> QED
        BY <4>1, <4>2, <4>3
    <3> QED
      BY <2>1, <3>2, <3>3
  <2>2. CASE ~ ShorterVia(n, nb, o1, i)
    <3>1. /\ RecalculatedCost(n, nb, o1, c)[i] = c[i]
          /\ RecalculatedHop(n, nb, o1, h)[i] = h[i]
      BY <2>2 DEF RecalculatedCost, RecalculatedHop
    <3>2. c[i] = Link[n][i] /\ h[i] = FirstHop(Link[n])[i]
      BY <1>4, <2>2 DEF Current
    <3> QED
      BY <1>3, <2>2, <3>1, <3>2
  <2> QED
    BY <2>1, <2>2
<1>6. o1[n] = Link[n]
  BY <1>2 DEF Current
<1> HIDE DEF nb
<1> QED
  BY <1>5, <1>6 DEF Current, NoWorse, nb

\* An INIT table, from which nothing has been heard, is current.
LEMMA FirstTableCurrent ==
  ASSUME NEW n \in Routers, NEW o \in Table, o[n] = Link[n],
         \A s \in Nbrs(n) : o[s] = NothingHeard
  PROVE  Current(n, o, Link[n], FirstHop(Link[n]))
<1> SUFFICES ASSUME NEW i \in Routers
             PROVE  ~ ShorterVia(n, Nbrs(n), o, i)
  BY DEF Current
<1>1. Nbrs(n) \in SUBSET Routers
  BY LinkProperties
<1>2. o[n][i] \in Nat /\ o[n][i] <= Inf
  BY TableEntries, InfAssumption DEF Cost
<1>3. MinCost(n, Nbrs(n), o, i) = Inf
  <2> SUFFICES ASSUME NEW r \in Nbrs(n),
                      Via(n, o, r, i) = MinCost(n, Nbrs(n), o, i)
               PROVE  MinCost(n, Nbrs(n), o, i) = Inf
    BY <1>1, MinCostProperty
  <2>1. o[r][i] = Inf
    BY DEF NothingHeard
  <2>2. o[n][r] \in Nat
    BY <1>1, TableEntries, IdsAndCostsAreNaturals
  <2>3. MinCost(n, Nbrs(n), o, i) \in 0 .. Inf
    BY <1>1, MinCostProperty DEF Cost
  <2> QED
    BY <2>1, <2>2, <2>3, InfAssumption DEF Via
<1> QED
  BY <1>2, <1>3, InfAssumption DEF ShorterVia

\* A queue keeps falling when its end is lowered, when the end is appended, when
\* its head is received, lost or doubled.
LEMMA FallingQueues ==
  ASSUME NEW first \in CostVector, NEW q \in Seq(CostVector), NEW last \in CostVector,
         Falling(first, q, last)
  PROVE  /\ \A w \in CostVector : NoWorse(w, last) => Falling(first, q, w)
         /\ NoWorse(last, first) => Falling(first, Append(q, last), last)
         /\ q # << >> => /\ Falling(Head(q), Tail(q), last)
                         /\ Falling(first, Tail(q), last)
                         /\ Falling(first, <<Head(q)>> \o q, last)
                         /\ NoWorse(last, Head(q))
                         /\ NoWorse(Head(q), first)
<1>1. \A k \in 1 .. Len(q) : q[k] \in CostVector
  OBVIOUS
<1>2. ASSUME NEW w \in CostVector, NoWorse(w, last)
      PROVE  Falling(first, q, w)
  BY <1>1, <1>2, NoWorseProperties DEF Falling
<1>3. ASSUME NoWorse(last, first)
      PROVE  Falling(first, Append(q, last), last)
  <2> DEFINE a == Append(q, last)
  <2>1. /\ Len(a) = Len(q) + 1 /\ a[Len(a)] = last
        /\ \A k \in 1 .. Len(q) : a[k] = q[k]
    BY AppendProperties
  <2>2. \A k \in 1 .. Len(a) : k \in 1 .. Len(q) \/ k = Len(a)
    BY <2>1
  <2> HIDE DEF a
  <2>3. NoWorse(last, last)
    BY NoWorseProperties
  <2>4. \A k \in 1 .. Len(a) : NoWorse(a[k], first) /\ NoWorse(last, a[k])
    BY <1>3, <2>1, <2>2, <2>3 DEF Falling
  <2>5. ASSUME NEW j \in 1 .. Len(a), NEW k \in 1 .. Len(a), j <= k
        PROVE  NoWorse(a[k], a[j])
    <3>1. CASE k = Len(a)
      BY <2>1, <2>4, <3>1
    <3>2. CASE k # Len(a)
      <4>1. k \in 1 .. Len(q) /\ j \in 1 .. Len(q)
        BY <2>1, <2>2, <2>5, <3>2
      <4> QED
        BY <2>1, <2>5, <4>1 DEF Falling
    <3> QED
      BY <3>1, <3>2
  <2> QED
    BY <2>4, <2>5 DEF Falling, a
<1>4. ASSUME q # << >>
      PROVE  /\ Falling(Head(q), Tail(q), last)
             /\ Falling(first, Tail(q), last)
  <2> DEFINE b == Tail(q)
  <2>1. /\ Len(b) = Len(q) - 1 /\ Head(q) = q[1] /\ 1 \in 1 .. Len(q)
        /\ \A k \in 1 .. Len(b) : b[k] = q[k + 1] /\ k + 1 \in 1 .. Len(q)
    BY <1>4
  <2> HIDE DEF b
  <2>2. ASSUME NEW k \in 1 .. Len(b)
        PROVE  /\ NoWorse(b[k], first) /\ NoWorse(last, b[k])
               /\ NoWorse(b[k], Head(q))
    BY <2>1 DEF Falling
  <2>3. ASSUME NEW j \in 1 .. Len(b), NEW k \in 1 .. Len(b), j <= k
        PROVE  NoWorse(b[k], b[j])
    <3>1. j + 1 <= k + 1
      BY <2>3
    <3> QED
      BY <2>1, <3>1 DEF Falling
  <2> QED
    BY <2>2, <2>3 DEF Falling, b
<1>5. ASSUME q # << >>
      PROVE  Falling(first, <<Head(q)>> \o q, last)
  <2> DEFINE d == <<Head(q)>> \o q
             pos(k) == IF k = 1 THEN 1 ELSE k - 1
  <2>1. \A k \in 1 .. Len(d) : pos(k) \in 1 .. Len(q) /\ d[k] = q[pos(k)]
    BY <1>5
  <2>2. \A j, k \in 1 .. Len(d) : j <= k => pos(j) <= pos(k)
    OBVIOUS
  <2> HIDE DEF d, pos
  <2> QED
    BY <2>1, <2>2 DEF Falling, d
<1>6. ASSUME q # << >>
      PROVE  NoWorse(last, Head(q)) /\ NoWorse(Head(q), first)
  <2>1. 1 \in 1 .. Len(q) /\ Head(q) = q[1]
    BY <1>6
  <2> QED
    BY <2>1 DEF Falling
<1> QED
  BY <1>2, <1>3, <1>4, <1>5, <1>6

\* Neighbours have each other.
LEMMA NeighboursMutual ==
  ASSUME NEW n \in Routers, NEW r \in Nbrs(n)
  PROVE  n \in Nbrs(r) /\ n # r /\ r \in Routers
BY LinkAssumption DEF Nbrs, Neighbours

-----------------------------------------------------------------------------
(* The steps of a calm network.  A step that computes at n leaves the table  *)
(* of n current and no worse, and may announce its old costs.                *)

\* The queues after a step at n that takes q for the old ones, where q agrees with
\* the invariant for the row that n has now heard.
LEMMA ComputationKeepsCalm ==
  ASSUME TypeOK, TypeOK', CalmInv, Calm, NEW n \in Routers, status[n] = "up",
         UNCHANGED status,
         NEW q \in [Routers -> [Routers -> Seq(CostVector)]],
         net' = q \/ net' = Announce(q, n, cost[n]),
         \A m \in Routers \ {n} : /\ orig'[m] = orig[m]
                                  /\ cost'[m] = cost[m]
                                  /\ hop'[m] = hop[m],
         Current(n, orig'[n], cost'[n], hop'[n]),
         NoWorse(cost'[n], cost[n]),
         \A s \in Nbrs(n) :
           \/ orig'[n][s] = NothingHeard
           \/ status[s] # "idle" /\ NoWorse(cost[s], orig'[n][s]),
         \A s, r \in Routers :
           /\ q[s][r] # << >> => net[s][r] # << >>
           /\ Falling(orig'[r][s], q[s][r], cost[s])
  PROVE  CalmInv'
<1>1. ASSUME NEW m \in Routers, status[m] # "idle"
      PROVE  Current(m, orig'[m], cost'[m], hop'[m])
  <2>1. CASE m = n
    BY <2>1
  <2>2. CASE m # n
    BY <1>1, <2>2 DEF CalmInv
  <2> QED
    BY <2>1, <2>2
<1>2. ASSUME NEW m \in Routers, status[m] # "idle", NEW s \in Nbrs(m)
      PROVE  Heard(s, m)'
  <2>1. s \in Routers /\ s # m
    BY <1>2, NeighboursMutual
  <2>2. \/ orig'[m][s] = NothingHeard
        \/ status[s] # "idle" /\ NoWorse(cost[s], orig'[m][s])
    <3>1. CASE m = n
      BY <1>2, <3>1
    <3>2. CASE m # n
      BY <1>2, <3>2 DEF CalmInv, Heard
    <3> QED
      BY <3>1, <3>2
  <2>3. NoWorse(cost'[s], cost[s])
    <3>1. cost[s] \in CostVector
      BY <2>1 DEF TypeOK
    <3>2. CASE s = n
      BY <3>2
    <3>3. CASE s # n
      BY <2>1, <3>1, <3>3, NoWorseProperties
    <3> QED
      BY <3>2, <3>3
  <2>4. cost'[s] \in CostVector /\ cost[s] \in CostVector /\ orig'[m][s] \in CostVector
    BY <2>1 DEF TypeOK
  <2> QED
    BY <2>2, <2>3, <2>4, NoWorseProperties DEF Heard
<1>3. ASSUME NEW s \in Routers, NEW r \in Routers
      PROVE  OnTheWay(s, r)'
  <2>1. cost'[s] \in CostVector /\ cost[s] \in CostVector /\ orig'[r][s] \in CostVector
    BY DEF TypeOK
  <2>2. q[s][r] \in Seq(CostVector)
    OBVIOUS
  <2>3. NoWorse(cost'[s], cost[s])
    <3>1. CASE s = n
      BY <3>1
    <3>2. CASE s # n
      BY <2>1, <3>2, NoWorseProperties
    <3> QED
      BY <3>1, <3>2
  <2>4. CASE net'[s][r] = q[s][r]
    <3>1. Falling(orig'[r][s], net'[s][r], cost'[s])
      BY <2>1, <2>2, <2>3, <2>4, FallingQueues
    <3>2. net'[s][r] # << >> => status[r] = "up" /\ status[s] # "idle"
      BY <2>4 DEF CalmInv, OnTheWay
    <3> QED
      BY <3>1, <3>2 DEF OnTheWay
  <2>5. CASE /\ net'[s][r] = Append(q[s][r], cost[n])
             /\ s = n /\ r \in Nbrs(n) /\ status[r] = "up"
    <3>1. s \in Nbrs(r)
      BY <2>5, NeighboursMutual
    <3>2. Heard(s, r)'
      BY <1>2, <2>5, <3>1
    <3>3. NoWorse(cost[s], orig'[r][s])
      <4>1. r # n
        BY <2>5, NeighboursMutual
      <4>2. Heard(s, r)
        BY <2>5, <3>1 DEF CalmInv
      <4> QED
        BY <2>1, <4>1, <4>2, NoWorseProperties DEF Heard
    <3>4. /\ Falling(orig'[r][s], Append(q[s][r], cost[s]), cost[s])
          /\ Append(q[s][r], cost[s]) \in Seq(CostVector)
      BY <2>1, <2>2, <3>3, FallingQueues, QueueTypes
    <3>5. Falling(orig'[r][s], net'[s][r], cost'[s])
      <4>1. net'[s][r] = Append(q[s][r], cost[s])
        BY <2>5
      <4>2. Falling(orig'[r][s], Append(q[s][r], cost[s]), cost'[s])
        BY <2>1, <2>3, <3>4, FallingQueues
      <4> QED
        BY <4>1, <4>2
    <3> QED
      BY <2>5, <3>5 DEF OnTheWay
  <2>6. \/ Announce(q, n, cost[n])[s][r] = q[s][r]
        \/ /\ Announce(q, n, cost[n])[s][r] = Append(q[s][r], cost[n])
           /\ s = n /\ r \in Nbrs(n) /\ status[r] = "up"
    <3>1. cost[n] \in CostVector
      BY DEF TypeOK
    <3> QED
      BY <3>1 DEF Announce
  <2> QED
    BY <2>4, <2>5, <2>6
<1> QED
  BY <1>1, <1>2, <1>3 DEF CalmInv

\* The timer at n: nobody is given up on.
LEMMA TimeoutCalm ==
  ASSUME TypeOK, CalmInv, Calm, NEW n \in Routers, NEW announces \in BOOLEAN,
         Timeout(n, {}, announces)
  PROVE  CalmInv'
<1>1. TypeOK'
  BY TimeoutTypeOK
<1>2. /\ orig[n] \in Table /\ cost[n] \in CostVector
      /\ hop[n] \in [Routers -> Routers \cup {NoHop}]
      /\ net \in [Routers -> [Routers -> Seq(CostVector)]]
  BY DEF TypeOK, Table
<1>3. orig' = orig /\ cost' = cost /\ hop' = hop
  BY <1>2, NoLoss DEF Timeout, TypeOK
<1>4. /\ status[n] = "up" /\ UNCHANGED status
      /\ net' = net \/ net' = Announce(net, n, cost[n])
  <2>1. {d \in {} : d < n} = {}
    OBVIOUS
  <2>2. CostAfterLoss(n, Nbrs(n), orig[n], cost[n], {d \in {} : d < n}) = cost[n]
    <3>1. /\ WithoutLinks(n, orig[n], {}) = orig[n]
          /\ CostAfterLoss(n, Nbrs(n), orig[n], cost[n], {}) = cost[n]
          /\ HopAfterLoss(n, Nbrs(n), orig[n], hop[n], {}) = hop[n]
      BY <1>2, NoLoss
    <3> QED
      BY <2>1, <3>1, Zenon
  <2>3. SetNewTimeout(n, {}, announces, net) /\ status[n] = "up"
    BY DEF Timeout
  <2> QED
    BY <2>2, <2>3 DEF SetNewTimeout
<1>5. /\ Current(n, orig[n], cost[n], hop[n])
      /\ \A s \in Nbrs(n) : Heard(s, n)
      /\ \A s, r \in Routers : OnTheWay(s, r)
  BY <1>4 DEF CalmInv
<1>6. NoWorse(cost[n], cost[n])
  BY <1>2, NoWorseProperties
<1> QED
  BY <1>1, <1>2, <1>3, <1>4, <1>5, <1>6, ComputationKeepsCalm DEF Heard, OnTheWay

\* A datagram at n: the vector is no worse than the one it replaces.
LEMMA UpdateRoutingTableCalm ==
  ASSUME TypeOK, CalmInv, Calm, NEW n \in Routers, NEW s \in Nbrs(n),
         NEW announces \in BOOLEAN, UpdateRoutingTable(n, s, {}, announces)
  PROVE  CalmInv'
<1> DEFINE v == Head(net[s][n])
           o == [orig[n] EXCEPT ![s] = v]
           q == [net EXCEPT ![s][n] = Tail(@)]
<1>1. TypeOK'
  BY UpdateRoutingTableTypeOK
<1>2. /\ orig[n] \in Table /\ cost[n] \in CostVector
      /\ hop[n] \in [Routers -> Routers \cup {NoHop}]
      /\ net \in [Routers -> [Routers -> Seq(CostVector)]]
      /\ s \in Routers /\ s # n
  BY NeighboursMutual DEF TypeOK, Table
<1>3. /\ status[n] = "up" /\ UNCHANGED status /\ net[s][n] # << >>
      /\ orig' = [orig EXCEPT ![n] = o]
      /\ cost' = [cost EXCEPT ![n] = RecalculatedCost(n, Nbrs(n), o, cost[n])]
      /\ hop' = [hop EXCEPT ![n] = RecalculatedHop(n, Nbrs(n), o, hop[n])]
      /\ net' = q \/ net' = Announce(q, n, cost[n])
  <2>1. {d \in {} : d < n} = {}
    OBVIOUS
  <2>2. /\ WithoutLinks(n, orig[n], {}) = orig[n]
        /\ CostAfterLoss(n, Nbrs(n), orig[n], cost[n], {}) = cost[n]
        /\ HopAfterLoss(n, Nbrs(n), orig[n], hop[n], {}) = hop[n]
    BY <1>2, NoLoss
  <2> QED
    BY <2>1, <2>2 DEF UpdateRoutingTable, SetNewTimeout
<1>4. net[s][n] \in Seq(CostVector) /\ orig[n][s] \in CostVector /\ cost[s] \in CostVector
  BY <1>2 DEF TypeOK
<1>5. /\ Falling(v, Tail(net[s][n]), cost[s])
      /\ NoWorse(cost[s], v) /\ NoWorse(v, orig[n][s])
      /\ status[s] # "idle"
  <2>1. OnTheWay(s, n)
    BY <1>2 DEF CalmInv
  <2> QED
    BY <1>3, <1>4, <2>1, FallingQueues DEF OnTheWay
<1>6. v \in CostVector /\ Tail(net[s][n]) \in Seq(CostVector)
  BY <1>3, <1>4, QueueTypes
<1>7. Current(n, orig[n], cost[n], hop[n]) /\ \A r \in Nbrs(n) : Heard(r, n)
  BY <1>3 DEF CalmInv
<1>8. /\ Current(n, o, RecalculatedCost(n, Nbrs(n), o, cost[n]),
                 RecalculatedHop(n, Nbrs(n), o, hop[n]))
      /\ NoWorse(RecalculatedCost(n, Nbrs(n), o, cost[n]), cost[n])
  BY <1>2, <1>5, <1>6, <1>7, RecalculationFalls
<1>9. /\ orig'[n] = o
      /\ Current(n, orig'[n], cost'[n], hop'[n])
      /\ NoWorse(cost'[n], cost[n])
      /\ \A m \in Routers \ {n} : /\ orig'[m] = orig[m]
                                  /\ cost'[m] = cost[m]
                                  /\ hop'[m] = hop[m]
  BY <1>3, <1>8 DEF TypeOK
<1>10. \A r \in Nbrs(n) :
         \/ orig'[n][r] = NothingHeard
         \/ status[r] # "idle" /\ NoWorse(cost[r], orig'[n][r])
  <2> TAKE r \in Nbrs(n)
  <2>1. CASE r = s
    <3>1. orig'[n][s] = v
      BY <1>2, <1>9 DEF Table
    <3> QED
      BY <1>5, <2>1, <3>1
  <2>2. CASE r # s
    <3>1. orig'[n][r] = orig[n][r]
      BY <1>2, <1>9, <2>2, NeighboursMutual DEF Table
    <3> QED
      BY <1>7, <3>1 DEF Heard
  <2> QED
    BY <2>1, <2>2
<1>11. q \in [Routers -> [Routers -> Seq(CostVector)]]
  BY <1>2, <1>6
<1>12. \A a, b \in Routers :
         /\ q[a][b] # << >> => net[a][b] # << >>
         /\ Falling(orig'[b][a], q[a][b], cost[a])
  <2> TAKE a, b \in Routers
  <2>1. Falling(orig[b][a], net[a][b], cost[a])
    BY DEF CalmInv, OnTheWay
  <2>2. CASE a = s /\ b = n
    <3>1. orig'[n][s] = v /\ q[s][n] = Tail(net[s][n])
      BY <1>2, <1>9 DEF Table
    <3> QED
      BY <1>3, <1>5, <2>2, <3>1
  <2>3. CASE ~ (a = s /\ b = n)
    <3>1. q[a][b] = net[a][b]
      BY <1>2, <2>3
    <3>2. orig'[b][a] = orig[b][a]
      BY <1>2, <1>9, <2>3 DEF Table
    <3> QED
      BY <2>1, <3>1, <3>2
  <2> QED
    BY <2>2, <2>3
<1> HIDE DEF q
<1> QED
  BY <1>1, <1>3, <1>9, <1>10, <1>11, <1>12, ComputationKeepsCalm

\* INIT at n: nobody has heard of it, and it announces what its links cost.
LEMMA InitResponseCalm ==
  ASSUME TypeOK, CalmInv, Calm, NEW n \in Routers, InitResponse(n)
  PROVE  CalmInv'
<1>1. TypeOK'
  BY InitResponseTypeOK
<1>2. /\ status[n] = "idle"
      /\ status'[n] = "up"
      /\ orig'[n] = [j \in Routers |-> IF j = n THEN Link[n] ELSE NothingHeard]
      /\ cost'[n] = Link[n]
      /\ hop'[n] = FirstHop(Link[n])
      /\ net' = Announce(net, n, Link[n])
      /\ \A m \in Routers \ {n} : /\ status'[m] = status[m]
                                  /\ orig'[m] = orig[m]
                                  /\ cost'[m] = cost[m]
                                  /\ hop'[m] = hop[m]
  BY DEF InitResponse, TypeOK, NothingHeard
<1>3. ASSUME NEW m \in Routers, status'[m] # "idle"
      PROVE  Current(m, orig'[m], cost'[m], hop'[m])
  <2>1. CASE m = n
    <3>1. /\ orig'[n] \in Table /\ orig'[n][n] = Link[n]
          /\ \A s \in Nbrs(n) : orig'[n][s] = NothingHeard
      <4>1. orig'[n] \in Table
        BY <1>1 DEF TypeOK, Table
      <4>2. \A s \in Nbrs(n) : s \in Routers /\ s # n
        BY NeighboursMutual
      <4> QED
        BY <4>1, <4>2, <1>2
    <3> QED
      BY <1>2, <2>1, <3>1, FirstTableCurrent
  <2>2. CASE m # n
    BY <1>2, <1>3, <2>2 DEF CalmInv
  <2> QED
    BY <2>1, <2>2
<1>4. ASSUME NEW m \in Routers, status'[m] # "idle", NEW s \in Nbrs(m)
      PROVE  Heard(s, m)'
  <2>1. s \in Routers /\ s # m
    BY NeighboursMutual
  <2>2. CASE m = n
    BY <1>2, <2>1, <2>2 DEF Heard
  <2>3. CASE m # n
    <3>1. Heard(s, m) /\ orig'[m] = orig[m]
      BY <1>2, <1>4, <2>3 DEF CalmInv
    <3>2. s = n \/ (status'[s] = status[s] /\ cost'[s] = cost[s])
      BY <1>2, <2>1
    <3> QED
      BY <1>2, <3>1, <3>2 DEF Heard
  <2> QED
    BY <2>2, <2>3
<1>5. ASSUME NEW s \in Routers, NEW r \in Routers
      PROVE  OnTheWay(s, r)'
  <2>1. OnTheWay(s, r)
    BY DEF CalmInv
  <2>2. CASE s # n
    <3>1. net'[s][r] = net[s][r] /\ cost'[s] = cost[s] /\ status'[s] = status[s]
      BY <1>2, <2>2 DEF Announce, TypeOK
    <3>2. CASE r = n
      <4>1. net'[s][r] = << >>
        BY <1>2, <2>1, <3>1, <3>2 DEF OnTheWay
      <4> QED
        BY <4>1 DEF OnTheWay, Falling
    <3>3. CASE r # n
      BY <1>2, <2>1, <3>1, <3>3 DEF OnTheWay
    <3> QED
      BY <3>2, <3>3
  <2>3. CASE s = n
    <3>1. net[n][r] = << >>
      BY <1>2, <2>1, <2>3 DEF OnTheWay
    <3>2. CASE net'[n][r] = << >>
      BY <2>3, <3>2 DEF OnTheWay, Falling
    <3>3. CASE net'[n][r] # << >>
      <4>1. r \in Nbrs(n) /\ status[r] = "up" /\ net'[n][r] = Append(net[n][r], Link[n])
        BY <1>2, <3>1, <3>3 DEF Announce, TypeOK
      <4>2. r # n /\ n \in Nbrs(r)
        BY <4>1, NeighboursMutual
      <4>3. orig'[r][n] = NothingHeard
        <5>1. Heard(n, r)
          BY <4>1, <4>2 DEF CalmInv
        <5> QED
          BY <1>2, <4>2, <5>1 DEF Heard
      <4>4. net[n][r] \in Seq(CostVector) /\ NothingHeard \in CostVector /\ Link[n] \in CostVector
        <5>1. NothingHeard \in CostVector
          BY InfAssumption DEF NothingHeard, CostVector, Cost
        <5>2. Link[n] \in CostVector
          BY LinkAssumption
        <5> QED
          BY <5>1, <5>2 DEF TypeOK
      <4>5. Falling(NothingHeard, net[n][r], Link[n]) /\ NoWorse(Link[n], NothingHeard)
        BY <3>1, <4>4, NoWorseProperties DEF Falling
      <4>6. Falling(NothingHeard, Append(net[n][r], Link[n]), Link[n])
        BY <4>4, <4>5, FallingQueues
      <4>7. status'[r] = "up" /\ status'[n] = "up"
        BY <1>2, <4>1, <4>2
      <4> QED
        BY <1>2, <2>3, <4>1, <4>3, <4>6, <4>7 DEF OnTheWay
    <3> QED
      BY <3>2, <3>3
  <2> QED
    BY <2>2, <2>3
<1> QED
  BY <1>3, <1>4, <1>5 DEF CalmInv

\* A datagram is lost or doubled.
LEMMA NetworkCalm ==
  ASSUME TypeOK, CalmInv, Calm, NEW n \in Routers, NEW s \in Routers,
         Lose(s, n) \/ Duplicate(s, n)
  PROVE  CalmInv'
<1> DEFINE q == net[s][n]
<1>1. UNCHANGED <<status, orig, cost, hop>> /\ q # << >>
  BY DEF Lose, Duplicate, tables
<1>2. PICK q1 \in {Tail(q), <<Head(q)>> \o q} : net' = [net EXCEPT ![s][n] = q1]
  BY DEF Lose, Duplicate
<1>3. /\ net'[s][n] = q1
      /\ \A a, b \in Routers : ~ (a = s /\ b = n) => net'[a][b] = net[a][b]
  BY <1>2 DEF TypeOK
<1>4. ASSUME NEW a \in Routers, NEW b \in Routers
      PROVE  OnTheWay(a, b)'
  <2>1. OnTheWay(a, b)
    BY DEF CalmInv
  <2>2. CASE a = s /\ b = n
    <3>1. /\ orig[n][s] \in CostVector /\ net[s][n] \in Seq(CostVector)
          /\ cost[s] \in CostVector
      BY DEF TypeOK
    <3>2. /\ Falling(orig[n][s], Tail(q), cost[s])
          /\ Falling(orig[n][s], <<Head(q)>> \o q, cost[s])
      BY <1>1, <2>1, <2>2, <3>1, FallingQueues DEF OnTheWay
    <3>3. Falling(orig[n][s], net'[s][n], cost[s])
      BY <1>3, <3>2
    <3> QED
      BY <1>1, <2>1, <2>2, <3>3 DEF OnTheWay
  <2>3. CASE ~ (a = s /\ b = n)
    BY <1>1, <1>3, <2>1, <2>3 DEF OnTheWay
  <2> QED
    BY <2>2, <2>3
<1> QED
  BY <1>1, <1>4 DEF CalmInv, Heard

\* A crash: nothing is on the way to n any more, and it computes no more.
LEMMA CrashCalm ==
  ASSUME TypeOK, CalmInv, Calm, NEW n \in Routers, CrashResponse(n)
  PROVE  CalmInv'
<1>1. /\ UNCHANGED <<orig, cost, hop>>
      /\ status[n] = "up" /\ status'[n] = "dead"
      /\ \A m \in Routers \ {n} : status'[m] = status[m]
      /\ \A m \in Routers : status'[m] # "idle" <=> status[m] # "idle"
  BY DEF CrashResponse, tables, TypeOK
<1>2. ASSUME NEW a \in Routers, NEW b \in Routers
      PROVE  OnTheWay(a, b)'
  <2>1. OnTheWay(a, b)
    BY DEF CalmInv
  <2>2. CASE b = n
    <3>1. net'[a][b] = << >>
      BY <2>2 DEF CrashResponse, TypeOK
    <3> QED
      BY <3>1 DEF OnTheWay, Falling
  <2>3. CASE b # n
    <3>1. net'[a][b] = net[a][b]
      BY <2>3 DEF CrashResponse, TypeOK
    <3> QED
      BY <1>1, <2>1, <2>3, <3>1 DEF OnTheWay
  <2> QED
    BY <2>2, <2>3
<1>3. ASSUME NEW m \in Routers, status'[m] # "idle"
      PROVE  /\ Current(m, orig'[m], cost'[m], hop'[m])
             /\ \A s \in Nbrs(m) : Heard(s, m)'
  <2>1. Current(m, orig[m], cost[m], hop[m]) /\ \A s \in Nbrs(m) : Heard(s, m)
    BY <1>1, <1>3 DEF CalmInv
  <2>2. ASSUME NEW s \in Nbrs(m)
        PROVE  Heard(s, m)'
    <3>1. s \in Routers /\ Heard(s, m)
      BY <2>1, NeighboursMutual
    <3> QED
      BY <1>1, <3>1 DEF Heard
  <2> QED
    BY <1>1, <2>1, <2>2
<1> QED
  BY <1>2, <1>3 DEF CalmInv

\* A network that is calm was calm before.
LEMMA CalmBefore ==
  ASSUME TypeOK, [Next]_vars, Calm'
  PROVE  /\ Calm
         /\ \A n \in Routers : \A r \in Nbrs(n), c \in NewCosts : ~ UpdateResponse(n, r, c)
         /\ \A n, s \in Routers : ~ Reorder(s, n)
         /\ \A n \in Routers : \A D \in SUBSET Nbrs(n), announces \in BOOLEAN :
              /\ Timeout(n, D, announces) => D = {}
              /\ \A s \in Nbrs(n) : UpdateRoutingTable(n, s, D, announces) => D = {}
<1>1. faults \in Nat /\ faults' = 0
  BY BoundAssumption DEF TypeOK, Calm
<1>2. \A n \in Routers : \A r \in Nbrs(n), c \in NewCosts : ~ UpdateResponse(n, r, c)
  BY <1>1 DEF UpdateResponse
<1>3. \A n, s \in Routers : ~ Reorder(s, n)
  BY <1>1 DEF Reorder
<1>4. ASSUME NEW n, NEW D, NEW announces, NEW q, SetNewTimeout(n, D, announces, q)
      PROVE  D = {} /\ faults' = faults
  BY <1>1, <1>4 DEF SetNewTimeout
<1>5. \A n \in Routers : \A D \in SUBSET Nbrs(n), announces \in BOOLEAN :
        /\ Timeout(n, D, announces) => D = {} /\ faults' = faults
        /\ \A s \in Nbrs(n) :
             UpdateRoutingTable(n, s, D, announces) => D = {} /\ faults' = faults
  BY <1>4 DEF Timeout, UpdateRoutingTable
<1>6. faults' = faults
  <2>1. CASE UNCHANGED vars
    BY <2>1 DEF vars
  <2>2. CASE Next
    <3>1. \A n \in Routers : Nbrs(n) \subseteq Routers
      BY LinkProperties
    <3>2. \A n, s \in Routers : /\ InitResponse(n) => faults' = faults
                                /\ CrashResponse(n) => faults' = faults
                                /\ Lose(s, n) => faults' = faults
                                /\ Duplicate(s, n) => faults' = faults
      BY DEF InitResponse, CrashResponse, Lose, Duplicate
    <3> QED
      BY <1>2, <1>3, <1>5, <2>2, <3>1, <3>2 DEF Next
  <2> QED
    BY <2>1, <2>2
<1> QED
  BY <1>1, <1>2, <1>3, <1>5, <1>6 DEF Calm

\* Every step keeps the invariant: in a calm network costs only fall.
LEMMA NextCalm == TypeOK /\ CalmInv /\ [Next]_vars => CalmInv'
<1> SUFFICES ASSUME TypeOK, CalmInv, [Next]_vars, Calm' PROVE CalmInv'
  BY DEF CalmInv
<1>1. Calm
  BY CalmBefore
<1>2. ASSUME NEW n \in Routers, InitResponse(n)
      PROVE  CalmInv'
  BY <1>1, <1>2, InitResponseCalm
<1>3. ASSUME NEW n \in Routers, NEW D \in SUBSET Nbrs(n),
             NEW announces \in BOOLEAN, Timeout(n, D, announces)
      PROVE  CalmInv'
  <2>1. D = {}
    BY <1>3, CalmBefore
  <2> QED
    BY <1>1, <1>3, <2>1, TimeoutCalm
<1>4. ASSUME NEW n \in Routers, NEW s \in Nbrs(n), NEW D \in SUBSET Nbrs(n),
             NEW announces \in BOOLEAN, UpdateRoutingTable(n, s, D, announces)
      PROVE  CalmInv'
  <2>1. D = {}
    BY <1>4, CalmBefore
  <2> QED
    BY <1>1, <1>4, <2>1, UpdateRoutingTableCalm
<1>5. ASSUME NEW n \in Routers, NEW s \in Nbrs(n), Lose(s, n) \/ Duplicate(s, n)
      PROVE  CalmInv'
  BY <1>1, <1>5, LinkProperties, NetworkCalm
<1>6. ASSUME NEW n \in Routers, CrashResponse(n)
      PROVE  CalmInv'
  BY <1>1, <1>6, CrashCalm
<1>7. CASE UNCHANGED vars
  <2>1. UNCHANGED <<status, orig, cost, hop, net>>
    BY <1>7 DEF vars, tables
  <2> QED
    BY <1>1, <2>1 DEF CalmInv, Heard, OnTheWay
<1>8. \A n \in Routers : Nbrs(n) \subseteq Routers
  BY LinkProperties
<1> QED
  BY <1>2, <1>3, <1>4, <1>5, <1>6, <1>7, <1>8, CalmBefore DEF Next

\* In every topology, as long as nothing but loss, duplication, delay and crashes
\* happens, following next hops never loops: each step lowers the remaining cost,
\* although every router computes from vectors of different ages.
THEOREM NoLoops == Spec => []HopsDescend
<1>1. Init => CalmInv
  <2> SUFFICES ASSUME Init PROVE CalmInv
    OBVIOUS
  <2>1. \A n \in Routers : status[n] = "idle"
    BY DEF Init
  <2>2. \A s, n \in Routers : net[s][n] = << >>
    BY DEF Init
  <2>3. \A s, n \in Routers : OnTheWay(s, n)
    BY <2>2 DEF OnTheWay, Falling
  <2> QED
    BY <2>1, <2>3 DEF CalmInv
<1>2. TypeOK /\ CalmInv /\ [Next]_vars => CalmInv'
  BY NextCalm
<1>3. TypeOK /\ CalmInv => HopsDescend
  BY CalmInvDescends
<1> QED
  BY TypeCorrect, <1>1, <1>2, <1>3, PTL DEF Spec
=============================================================================
