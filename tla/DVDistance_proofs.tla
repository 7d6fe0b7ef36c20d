------------------------- MODULE DVDistance_proofs -------------------------
(***************************************************************************)
(* That no table of DVNetwork ever claims a path shorter than the shortest *)
(* one, for every topology and whatever is lost, doubled, reordered,       *)
(* updated or given up on.                                                 *)
(*                                                                         *)
(* The proof has two halves.  A lower bound is any assignment of costs     *)
(* that respects the links; no step of the protocol goes below one.  And   *)
(* Distance is one: the recursion over the number of links is complete     *)
(* after N-1 steps.                                                        *)
(***************************************************************************)
EXTENDS DVNetwork_proofs

-----------------------------------------------------------------------------
(* Lower bounds *)

\* p claims no more than the links L give.
LowerBound(p, L) ==
  /\ p \in [Routers -> CostVector]
  /\ \A i \in Routers : p[i][i] = 0
  /\ \A n \in Routers : \A r \in Nbrs(n), i \in Routers : p[n][i] <= L[n][r] + p[r][i]

\* The table o of n is above p: its links are, and what it has heard of others is.
\* (UPDATE writes the cost of the link into what a neighbour says of n itself.)
Above(n, o, p, L) ==
  \A r \in Nbrs(n) : /\ L[n][r] <= o[n][r]
                     /\ \A i \in Routers \ {n} : p[r][i] <= o[r][i]

\* The least costs of the links are above zero, and no more than INIT's.
FloorInv ==
  \A n, r \in Routers : /\ floor[n][r] <= Link[n][r]
                        /\ n # r => floor[n][r] # 0

\* Queues in which every vector is above p.
AllAbove(p, q) == \A s, n \in Routers : \A k \in 1 .. Len(q[s][n]) : NoWorse(p[s], q[s][n][k])

\* Every table and every datagram is above p.
Bounded(p) ==
  /\ \A n \in Routers : status[n] # "idle" =>
       /\ NoWorse(p[n], cost[n])
       /\ Above(n, orig[n], p, floor)
  /\ AllAbove(p, net)

AboveInv == \A p \in [Routers -> CostVector] : LowerBound(p, floor) => Bounded(p)

\* What a recomputation finds is above the bound.
LEMMA MinCostAbove ==
  ASSUME NEW L \in Table, NEW p, LowerBound(p, L), NEW n \in Routers,
         NEW o \in Table, Above(n, o, p, L), NEW i \in Routers
  PROVE  p[n][i] <= MinCost(n, Nbrs(n), o, i)
<1>1. Nbrs(n) \in SUBSET Routers
  BY LinkProperties
<1>2. p[n][i] \in Nat /\ p[n][i] <= Inf /\ MinCost(n, Nbrs(n), o, i) \in Nat
  <2>1. p[n][i] \in Cost
    BY DEF LowerBound, CostVector
  <2> QED
    BY <1>1, <2>1, MinCostProperty, InfAssumption DEF Cost
<1>3. CASE i = n
  <2>1. p[n][i] = 0
    BY <1>3 DEF LowerBound
  <2> QED
    BY <1>2, <2>1
<1>4. ASSUME i # n, NEW r \in Nbrs(n), Via(n, o, r, i) = MinCost(n, Nbrs(n), o, i)
      PROVE  p[n][i] <= MinCost(n, Nbrs(n), o, i)
  <2>1. L[n][r] <= o[n][r] /\ p[r][i] <= o[r][i] /\ p[n][i] <= L[n][r] + p[r][i]
    BY <1>4 DEF Above, LowerBound
  <2>2. p[r][i] \in Nat
    BY <1>1, IdsAndCostsAreNaturals DEF LowerBound, CostVector
  <2>3. L[n][r] \in Nat /\ o[n][r] \in Nat /\ o[r][i] \in Nat
    BY <1>1, TableEntries, IdsAndCostsAreNaturals
  <2> QED
    BY <1>2, <1>4, <2>1, <2>2, <2>3 DEF Via
<1> QED
  BY <1>1, <1>2, <1>3, <1>4, MinCostProperty

\* A recomputed column is above the bound ...
LEMMA RecalculationAbove ==
  ASSUME NEW L \in Table, NEW p, LowerBound(p, L), NEW n \in Routers,
         NEW o \in Table, Above(n, o, p, L), NEW c \in CostVector, NoWorse(p[n], c)
  PROVE  NoWorse(p[n], RecalculatedCost(n, Nbrs(n), o, c))
BY MinCostAbove DEF NoWorse, RecalculatedCost

\* ... a table with links cut, too ...
LEMMA CutAbove ==
  ASSUME NEW L \in Table, NEW p, LowerBound(p, L), NEW n \in Routers,
         NEW o \in Table, Above(n, o, p, L), NEW D \in SUBSET Routers
  PROVE  Above(n, WithoutLinks(n, o, D), p, L)
<1> DEFINE w == WithoutLinks(n, o, D)
<1> SUFFICES ASSUME NEW r \in Nbrs(n)
             PROVE  /\ L[n][r] <= w[n][r]
                    /\ \A i \in Routers \ {n} : p[r][i] <= w[r][i]
  BY DEF Above
<1>1. r \in Routers /\ r # n
  BY NeighboursMutual
<1>2. w[r] = o[r] /\ w[n][r] = IF r \in D THEN Inf ELSE o[n][r]
  BY <1>1 DEF WithoutLinks, Table, CostVector
<1>3. L[n][r] <= Inf
  BY <1>1, TableEntries, InfAssumption DEF Cost
<1> QED
  BY <1>2, <1>3 DEF Above

\* ... and a column after losses.
LEMMA LossAbove ==
  ASSUME NEW L \in Table, NEW p, LowerBound(p, L), NEW n \in Routers,
         NEW o \in Table, Above(n, o, p, L), NEW c \in CostVector, NoWorse(p[n], c),
         NEW D \in SUBSET Routers
  PROVE  NoWorse(p[n], CostAfterLoss(n, Nbrs(n), o, c, D))
<1> SUFFICES ASSUME NEW i \in Routers
             PROVE  p[n][i] <= CostAfterLoss(n, Nbrs(n), o, c, D)[i]
  BY DEF NoWorse
<1> DEFINE S == OverwritingStages(n, Nbrs(n), o, D, i)
<1>1. CASE S = {}
  BY <1>1 DEF CostAfterLoss, NoWorse
<1>2. CASE S # {}
  <2>1. S \in SUBSET D
    BY DEF OverwritingStages
  <2>2. Max(S) \in D
    BY <1>2, <2>1, MaxProperty
  <2> DEFINE stage == LossStage(n, o, D, Max(S))
  <2>3. stage \in Table
    BY <2>2, LossStageType
  <2>4. Above(n, stage, p, L)
    <3>1. {e \in D : e <= Max(S)} \in SUBSET Routers
      OBVIOUS
    <3> QED
      BY <3>1, CutAbove DEF LossStage
  <2>5. CostAfterLoss(n, Nbrs(n), o, c, D)[i] = MinCost(n, Nbrs(n), stage, i)
    BY <1>2 DEF CostAfterLoss
  <2> HIDE DEF stage
  <2> QED
    BY <2>3, <2>4, <2>5, MinCostAbove
<1> QED
  BY <1>1, <1>2

\* A bound over lower links is one over higher links.
LEMMA BoundsFall ==
  ASSUME NEW L \in Table, NEW M \in Table, \A n, r \in Routers : M[n][r] <= L[n][r],
         NEW p, LowerBound(p, M)
  PROVE  LowerBound(p, L)
<1> SUFFICES ASSUME NEW n \in Routers, NEW r \in Nbrs(n), NEW i \in Routers
             PROVE  p[n][i] <= L[n][r] + p[r][i]
  BY DEF LowerBound
<1>1. r \in Routers
  BY NeighboursMutual
<1>2. p[n][i] <= M[n][r] + p[r][i] /\ M[n][r] <= L[n][r]
  BY <1>1 DEF LowerBound
<1>3. L[n][r] \in Nat /\ M[n][r] \in Nat
  BY <1>1, TableEntries, IdsAndCostsAreNaturals
<1>4. p[n][i] \in Nat /\ p[r][i] \in Nat
  BY <1>1, IdsAndCostsAreNaturals DEF LowerBound, CostVector
<1> QED
  BY <1>2, <1>3, <1>4

-----------------------------------------------------------------------------
(* The steps *)

\* An announcement of a vector above p.
LEMMA AnnounceAbove ==
  ASSUME NEW q \in [Routers -> [Routers -> Seq(CostVector)]], NEW p,
         NEW n \in Routers, NEW vec \in CostVector,
         AllAbove(p, q), NoWorse(p[n], vec)
  PROVE  AllAbove(p, Announce(q, n, vec))
<1> SUFFICES ASSUME NEW s \in Routers, NEW r \in Routers,
                    NEW k \in 1 .. Len(Announce(q, n, vec)[s][r])
             PROVE  NoWorse(p[s], Announce(q, n, vec)[s][r][k])
  BY DEF AllAbove
<1> DEFINE a == Announce(q, n, vec)[s][r]
<1>1. a = q[s][r] \/ (a = Append(q[s][r], vec) /\ s = n)
  BY DEF Announce
<1>2. CASE a = q[s][r]
  BY <1>2 DEF AllAbove
<1>3. CASE a = Append(q[s][r], vec) /\ s = n
  <2>1. /\ Len(a) = Len(q[s][r]) + 1 /\ a[Len(a)] = vec
        /\ \A j \in 1 .. Len(q[s][r]) : a[j] = q[s][r][j]
    BY <1>3, AppendProperties
  <2>2. k = Len(a) \/ k \in 1 .. Len(q[s][r])
    BY <2>1
  <2> HIDE DEF a
  <2>3. NoWorse(p[s], a[k])
    BY <1>3, <2>1, <2>2 DEF AllAbove
  <2> QED
    BY <2>3 DEF a
<1> QED
  BY <1>1, <1>2, <1>3

\* Queues from which vectors are taken, or in which they are doubled or moved.
LEMMA QueueStepAbove ==
  ASSUME NEW q \in Seq(CostVector), q # << >>, NEW v,
         \A k \in 1 .. Len(q) : NoWorse(v, q[k]),
         NEW t \in {Tail(q), <<Head(q)>> \o q, Append(Tail(q), Head(q))},
         NEW k \in 1 .. Len(t)
  PROVE  NoWorse(v, t[k])
<1>1. \E j \in 1 .. Len(q) : t[k] = q[j]
  <2>1. CASE t = Tail(q)
    <3>1. k + 1 \in 1 .. Len(q) /\ t[k] = q[k + 1]
      BY <2>1
    <3> QED
      BY <3>1
  <2>2. CASE t = <<Head(q)>> \o q
    <3>1. \/ k = 1 /\ t[k] = q[1]
          \/ k - 1 \in 1 .. Len(q) /\ t[k] = q[k - 1]
      BY <2>2
    <3>2. 1 \in 1 .. Len(q)
      OBVIOUS
    <3> QED
      BY <3>1, <3>2
  <2>3. CASE t = Append(Tail(q), Head(q))
    <3>1. \/ k = Len(q) /\ t[k] = q[1]
          \/ k + 1 \in 1 .. Len(q) /\ t[k] = q[k + 1]
      BY <2>3
    <3>2. 1 \in 1 .. Len(q)
      OBVIOUS
    <3> QED
      BY <3>1, <3>2
  <2> QED
    BY <2>1, <2>2, <2>3
<1> QED
  BY <1>1

\* The first table of a router: its links, and INF for what it has not heard.
LEMMA InitResponseAbove ==
  ASSUME TypeOK, FloorInv, NEW p, LowerBound(p, floor), Bounded(p),
         NEW n \in Routers, InitResponse(n)
  PROVE  Bounded(p)'
<1>1. /\ p \in [Routers -> CostVector] /\ p[n] \in CostVector
      /\ Link[n] \in CostVector /\ floor[n] \in CostVector
  BY LinkProperties DEF LowerBound, TypeOK
<1>2. NoWorse(p[n], Link[n])
  <2> SUFFICES ASSUME NEW i \in Routers PROVE p[n][i] <= Link[n][i]
    BY DEF NoWorse
  <2>1. p[n][i] \in Nat /\ p[n][i] <= Inf /\ Link[n][i] \in Nat /\ floor[n][i] \in Nat
    BY <1>1, InfAssumption DEF CostVector, Cost
  <2>2. CASE i \in Nbrs(n)
    <3>1. p[n][i] <= floor[n][i] + p[i][i] /\ p[i][i] = 0
      BY <2>2 DEF LowerBound
    <3>2. floor[n][i] <= Link[n][i]
      BY DEF FloorInv
    <3> QED
      BY <2>1, <3>1, <3>2
  <2>3. CASE i \notin Nbrs(n)
    <3>1. Link[n][i] = 0 \/ Link[n][i] = Inf
      BY <2>3 DEF Nbrs, Neighbours
    <3>2. Link[n][i] = 0 => p[n][i] = 0
      BY LinkAssumption DEF LowerBound
    <3> QED
      BY <2>1, <3>1, <3>2
  <2> QED
    BY <2>2, <2>3
<1>3. Above(n, orig'[n], p, floor)
  <2> SUFFICES ASSUME NEW r \in Nbrs(n)
               PROVE  /\ floor[n][r] <= orig'[n][n][r]
                      /\ \A i \in Routers \ {n} : p[r][i] <= orig'[n][r][i]
    BY DEF Above
  <2>1. r \in Routers /\ r # n
    BY NeighboursMutual
  <2>2. orig'[n][n] = Link[n] /\ orig'[n][r] = [i \in Routers |-> Inf]
    BY <2>1 DEF InitResponse, TypeOK
  <2>3. \A i \in Routers : p[r][i] <= Inf
    BY <2>1, InfAssumption DEF LowerBound, CostVector, Cost
  <2> QED
    BY <2>1, <2>2, <2>3 DEF FloorInv
<1>4. AllAbove(p, net')
  <2>1. net' = Announce(net, n, Link[n]) /\ AllAbove(p, net)
    BY DEF InitResponse, Bounded
  <2> QED
    BY <1>1, <1>2, <2>1, AnnounceAbove DEF TypeOK
<1>5. /\ cost' = [cost EXCEPT ![n] = Link[n]]
      /\ \A m \in Routers \ {n} : /\ status'[m] = status[m]
                                 /\ orig'[m] = orig[m]
      /\ floor' = floor
  BY DEF InitResponse, TypeOK
<1>6. ASSUME NEW m \in Routers, status'[m] # "idle"
      PROVE  NoWorse(p[m], cost'[m]) /\ Above(m, orig'[m], p, floor')
  <2>1. CASE m = n
    BY <1>2, <1>3, <1>5, <2>1 DEF TypeOK
  <2>2. CASE m # n
    BY <1>5, <1>6, <2>2 DEF Bounded, TypeOK
  <2> QED
    BY <2>1, <2>2
<1> QED
  BY <1>4, <1>6 DEF Bounded

\* set_new_timeout announces a column after losses.
LEMMA SetNewTimeoutAbove ==
  ASSUME TypeOK, NEW p, LowerBound(p, floor), Bounded(p),
         NEW n \in Routers, status[n] # "idle", NEW D \in SUBSET Nbrs(n),
         NEW announces \in BOOLEAN,
         NEW q \in [Routers -> [Routers -> Seq(CostVector)]], AllAbove(p, q),
         SetNewTimeout(n, D, announces, q)
  PROVE  AllAbove(p, net')
<1> DEFINE E == {d \in D : d < n}
           vec == CostAfterLoss(n, Nbrs(n), orig[n], cost[n], E)
<1>1. /\ Nbrs(n) \in SUBSET Routers /\ E \in SUBSET Routers
      /\ orig[n] \in Table /\ cost[n] \in CostVector
      /\ hop[n] \in [Routers -> Routers \cup {NoHop}]
      /\ floor \in Table
  BY LinkProperties DEF TypeOK, Table
<1>2. net' = IF announces THEN Announce(q, n, vec) ELSE q
  BY DEF SetNewTimeout
<1>3. NoWorse(p[n], cost[n]) /\ Above(n, orig[n], p, floor)
  BY DEF Bounded
<1> HIDE DEF E
<1>4. vec \in CostVector /\ NoWorse(p[n], vec)
  BY <1>1, <1>3, AfterLossType, LossAbove
<1> HIDE DEF vec
<1> QED
  BY <1>2, <1>4, AnnounceAbove

\* The timer at n.
LEMMA TimeoutAbove ==
  ASSUME TypeOK, NEW p, LowerBound(p, floor), Bounded(p),
         NEW n \in Routers, NEW D \in SUBSET Nbrs(n), NEW announces \in BOOLEAN,
         Timeout(n, D, announces)
  PROVE  Bounded(p)'
<1>1. /\ Nbrs(n) \in SUBSET Routers /\ D \in SUBSET Routers
      /\ orig[n] \in Table /\ cost[n] \in CostVector /\ floor \in Table
      /\ net \in [Routers -> [Routers -> Seq(CostVector)]]
  BY LinkProperties DEF TypeOK, Table
<1>2. /\ NoWorse(p[n], cost[n]) /\ Above(n, orig[n], p, floor)
      /\ AllAbove(p, net) /\ status[n] # "idle"
  BY DEF Bounded, Timeout
<1>3. /\ Above(n, WithoutLinks(n, orig[n], D), p, floor)
      /\ NoWorse(p[n], CostAfterLoss(n, Nbrs(n), orig[n], cost[n], D))
  BY <1>1, <1>2, CutAbove, LossAbove
<1>4. SetNewTimeout(n, D, announces, net)
  BY DEF Timeout
<1>5. AllAbove(p, net')
  BY <1>1, <1>2, <1>4, SetNewTimeoutAbove
<1>6. status' = status /\ floor' = floor
  BY <1>4 DEF SetNewTimeout
<1>7. /\ orig' = [orig EXCEPT ![n] = WithoutLinks(n, orig[n], D)]
      /\ cost' = [cost EXCEPT ![n] = CostAfterLoss(n, Nbrs(n), orig[n], cost[n], D)]
  BY DEF Timeout
<1>8. ASSUME NEW m \in Routers, status'[m] # "idle"
      PROVE  NoWorse(p[m], cost'[m]) /\ Above(m, orig'[m], p, floor')
  <2>1. CASE m = n
    BY <1>3, <1>6, <1>7, <2>1 DEF TypeOK
  <2>2. CASE m # n
    BY <1>6, <1>7, <1>8, <2>2 DEF Bounded, TypeOK
  <2> QED
    BY <2>1, <2>2
<1> QED
  BY <1>5, <1>8 DEF Bounded

\* A datagram from s at n.
LEMMA UpdateRoutingTableAbove ==
  ASSUME TypeOK, NEW p, LowerBound(p, floor), Bounded(p),
         NEW n \in Routers, NEW s \in Nbrs(n), NEW D \in SUBSET Nbrs(n),
         NEW announces \in BOOLEAN, UpdateRoutingTable(n, s, D, announces)
  PROVE  Bounded(p)'
<1> DEFINE w == WithoutLinks(n, orig[n], D)
           o == [w EXCEPT ![s] = Head(net[s][n])]
           c == CostAfterLoss(n, Nbrs(n), orig[n], cost[n], D)
           q == [net EXCEPT ![s][n] = Tail(@)]
<1>1. /\ Nbrs(n) \in SUBSET Routers /\ D \in SUBSET Routers
      /\ s \in Routers /\ s # n
      /\ orig[n] \in Table /\ cost[n] \in CostVector /\ floor \in Table
      /\ hop[n] \in [Routers -> Routers \cup {NoHop}]
      /\ net[s][n] \in Seq(CostVector) /\ net[s][n] # << >>
  BY LinkProperties, NeighboursMutual DEF TypeOK, Table, UpdateRoutingTable
<1>2. /\ NoWorse(p[n], cost[n]) /\ Above(n, orig[n], p, floor)
      /\ AllAbove(p, net) /\ status[n] # "idle"
  BY DEF Bounded, UpdateRoutingTable
<1>3. /\ SetNewTimeout(n, D, announces, q)
      /\ orig' = [orig EXCEPT ![n] = o]
      /\ cost' = [cost EXCEPT ![n] = RecalculatedCost(n, Nbrs(n), o, c)]
  BY DEF UpdateRoutingTable
<1>4. /\ Head(net[s][n]) \in CostVector /\ Tail(net[s][n]) \in Seq(CostVector)
      /\ NoWorse(p[s], Head(net[s][n]))
  <2>1. Head(net[s][n]) \in CostVector /\ Tail(net[s][n]) \in Seq(CostVector)
    BY <1>1, QueueTypes
  <2>2. 1 \in 1 .. Len(net[s][n]) /\ Head(net[s][n]) = net[s][n][1]
    BY <1>1
  <2> QED
    BY <1>1, <1>2, <2>1, <2>2 DEF AllAbove
<1>5. q \in [Routers -> [Routers -> Seq(CostVector)]] /\ AllAbove(p, q)
  <2>1. q \in [Routers -> [Routers -> Seq(CostVector)]]
    BY <1>1, <1>4 DEF TypeOK
  <2>2. ASSUME NEW a \in Routers, NEW b \in Routers, NEW k \in 1 .. Len(q[a][b])
        PROVE  NoWorse(p[a], q[a][b][k])
    <3>1. q[a][b] = IF a = s /\ b = n THEN Tail(net[s][n]) ELSE net[a][b]
      BY <1>1 DEF TypeOK
    <3>2. CASE a = s /\ b = n
      <4>1. \A j \in 1 .. Len(net[s][n]) : NoWorse(p[s], net[s][n][j])
        BY <1>1, <1>2 DEF AllAbove
      <4>2. k \in 1 .. Len(Tail(net[s][n]))
        BY <3>1, <3>2, <2>2
      <4> QED
        BY <1>1, <3>1, <3>2, <4>1, <4>2, QueueStepAbove
    <3>3. CASE ~ (a = s /\ b = n)
      BY <1>2, <2>2, <3>1, <3>3 DEF AllAbove
    <3> QED
      BY <3>2, <3>3
  <2> QED
    BY <2>1, <2>2 DEF AllAbove
<1>6. w \in Table /\ Above(n, w, p, floor)
  BY <1>1, <1>2, WithoutLinksType, CutAbove
<1>7. c \in CostVector /\ NoWorse(p[n], c)
  BY <1>1, <1>2, AfterLossType, LossAbove
<1> HIDE DEF w
<1>8. o \in Table /\ Above(n, o, p, floor)
  <2>1. o \in Table
    BY <1>1, <1>4, <1>6 DEF Table
  <2> SUFFICES ASSUME NEW r \in Nbrs(n)
               PROVE  /\ floor[n][r] <= o[n][r]
                      /\ \A i \in Routers \ {n} : p[r][i] <= o[r][i]
    BY <2>1 DEF Above
  <2>2. o[n] = w[n] /\ o[r] = IF r = s THEN Head(net[s][n]) ELSE w[r]
    BY <1>1, <1>6 DEF Table
  <2> QED
    BY <1>4, <1>6, <2>2 DEF Above, NoWorse
<1> HIDE DEF o, c, q
<1>9. NoWorse(p[n], RecalculatedCost(n, Nbrs(n), o, c))
  BY <1>1, <1>7, <1>8, RecalculationAbove
<1>10. AllAbove(p, net')
  BY <1>2, <1>3, <1>5, SetNewTimeoutAbove
<1>11. status' = status /\ floor' = floor
  BY <1>3 DEF SetNewTimeout
<1>12. ASSUME NEW m \in Routers, status'[m] # "idle"
       PROVE  NoWorse(p[m], cost'[m]) /\ Above(m, orig'[m], p, floor')
  <2>1. CASE m = n
    BY <1>3, <1>8, <1>9, <1>11, <2>1 DEF TypeOK
  <2>2. CASE m # n
    BY <1>3, <1>11, <1>12, <2>2 DEF Bounded, TypeOK
  <2> QED
    BY <2>1, <2>2
<1> QED
  BY <1>10, <1>12 DEF Bounded

\* UPDATE lowers the floor to the new cost, at most.
LEMMA UpdateResponseFloor ==
  ASSUME TypeOK, NEW n \in Routers, NEW r \in Nbrs(n), NEW c \in NewCosts,
         UpdateResponse(n, r, c)
  PROVE  /\ r \in Routers /\ r # n /\ c \in Cost /\ c # 0
         /\ floor'[n][r] <= c
         /\ floor'[n][r] \in {floor[n][r], c}
         /\ \A a, b \in Routers : /\ floor'[a][b] <= floor[a][b]
                                  /\ a # n \/ b # r => floor'[a][b] = floor[a][b]
<1>1. r \in Routers /\ r # n /\ c \in Cost /\ c # 0
  BY NeighboursMutual, BoundAssumption DEF Cost
<1> DEFINE least == Min({floor[n][r], c})
<1>2. \A a, b \in Routers : floor[a][b] \in Nat
  BY TableEntries, IdsAndCostsAreNaturals DEF TypeOK, Table
<1>3. least \in {floor[n][r], c} /\ least <= floor[n][r] /\ least <= c
  <2>1. {floor[n][r], c} \in SUBSET Nat
    BY <1>1, <1>2, IdsAndCostsAreNaturals
  <2> QED
    BY <2>1, MinProperty
<1>4. floor' = [floor EXCEPT ![n][r] = least]
  BY DEF UpdateResponse
<1> HIDE DEF least
<1>5. \A a, b \in Routers : floor'[a][b] = IF a = n /\ b = r THEN least ELSE floor[a][b]
  BY <1>1, <1>4 DEF TypeOK, CostVector
<1> QED
  BY <1>1, <1>2, <1>3, <1>5

\* UPDATE at n.
LEMMA UpdateResponseAbove ==
  ASSUME TypeOK, TypeOK', NEW p, LowerBound(p, floor'), Bounded(p),
         NEW n \in Routers, NEW r \in Nbrs(n), NEW c \in NewCosts,
         UpdateResponse(n, r, c)
  PROVE  Bounded(p)'
<1> DEFINE o == [orig[n] EXCEPT ![n][r] = c, ![r][n] = c]
           c1 == [cost[n] EXCEPT ![r] = c]
<1>1. /\ Nbrs(n) \in SUBSET Routers /\ r \in Routers /\ r # n /\ c \in Cost
      /\ orig[n] \in Table /\ cost[n] \in CostVector
      /\ floor \in Table /\ floor' \in Table
  BY LinkProperties, UpdateResponseFloor DEF TypeOK, Table
<1>2. /\ orig' = [orig EXCEPT ![n] = o]
      /\ cost' = [cost EXCEPT ![n] = RecalculatedCost(n, Nbrs(n), o, c1)]
      /\ UNCHANGED <<status, net>> /\ status[n] # "idle"
  BY DEF UpdateResponse
<1>3. /\ floor'[n][r] <= c
      /\ \A a, b \in Routers : floor'[a][b] <= floor[a][b]
      /\ \A a, b \in Routers : a # n \/ b # r => floor'[a][b] = floor[a][b]
  BY UpdateResponseFloor
<1>4. NoWorse(p[n], cost[n]) /\ Above(n, orig[n], p, floor) /\ AllAbove(p, net)
  BY <1>2 DEF Bounded
<1>5. c1 \in CostVector /\ NoWorse(p[n], c1)
  <2>1. c1 \in CostVector
    BY <1>1 DEF CostVector
  <2>2. p[n][r] <= floor'[n][r] + p[r][r] /\ p[r][r] = 0
    BY <1>1 DEF LowerBound
  <2>3. p[n][r] \in Nat /\ floor'[n][r] \in Nat /\ c \in Nat
    BY <1>1, TableEntries, IdsAndCostsAreNaturals DEF LowerBound, CostVector
  <2>4. p[n][r] <= c
    BY <1>3, <2>2, <2>3
  <2>5. \A i \in Routers : c1[i] = IF i = r THEN c ELSE cost[n][i]
    BY <1>1 DEF CostVector
  <2> QED
    BY <1>4, <2>1, <2>4, <2>5 DEF NoWorse
<1>6. o \in Table /\ Above(n, o, p, floor')
  <2>1. o \in Table
    BY <1>1 DEF Table, CostVector
  <2> SUFFICES ASSUME NEW s \in Nbrs(n)
               PROVE  /\ floor'[n][s] <= o[n][s]
                      /\ \A i \in Routers \ {n} : p[s][i] <= o[s][i]
    BY <2>1 DEF Above
  <2>2. s \in Routers /\ s # n
    BY NeighboursMutual
  <2>3. /\ o[n][s] = IF s = r THEN c ELSE orig[n][n][s]
        /\ \A i \in Routers \ {n} : o[s][i] = orig[n][s][i]
    BY <1>1, <2>2 DEF Table, CostVector
  <2> QED
    BY <1>3, <1>4, <2>2, <2>3 DEF Above
<1> HIDE DEF o, c1
<1>7. NoWorse(p[n], RecalculatedCost(n, Nbrs(n), o, c1))
  BY <1>1, <1>5, <1>6, RecalculationAbove
<1>8. ASSUME NEW m \in Routers, status'[m] # "idle"
      PROVE  NoWorse(p[m], cost'[m]) /\ Above(m, orig'[m], p, floor')
  <2>1. CASE m = n
    BY <1>2, <1>6, <1>7, <2>1 DEF TypeOK
  <2>2. CASE m # n
    <3>1. NoWorse(p[m], cost[m]) /\ Above(m, orig[m], p, floor)
      BY <1>2, <1>8 DEF Bounded
    <3>2. \A b \in Routers : floor'[m][b] = floor[m][b]
      BY <1>3, <2>2
    <3>3. Above(m, orig[m], p, floor')
      BY <3>1, <3>2, LinkProperties DEF Above
    <3> QED
      BY <1>2, <2>2, <3>1, <3>3 DEF TypeOK
  <2> QED
    BY <2>1, <2>2
<1> QED
  BY <1>2, <1>4, <1>8 DEF Bounded

\* CRASH empties queues; the network moves what is in them.
LEMMA NetworkAbove ==
  ASSUME TypeOK, NEW p, Bounded(p), NEW n \in Routers, NEW s \in Routers,
         \/ CrashResponse(n)
         \/ Lose(s, n) \/ Duplicate(s, n) \/ Reorder(s, n)
  PROVE  Bounded(p)'
<1>1. /\ UNCHANGED <<orig, cost, floor>>
      /\ \A m \in Routers : status'[m] # "idle" => status[m] # "idle"
  BY DEF CrashResponse, Lose, Duplicate, Reorder, tables, TypeOK
<1>2. AllAbove(p, net')
  <2> SUFFICES ASSUME NEW a \in Routers, NEW b \in Routers, NEW k \in 1 .. Len(net'[a][b])
               PROVE  NoWorse(p[a], net'[a][b][k])
    BY DEF AllAbove
  <2>1. net[a][b] \in Seq(CostVector)
    BY DEF TypeOK
  <2>2. \/ net'[a][b] = << >>
        \/ net'[a][b] = net[a][b]
        \/ /\ net[a][b] # << >>
           /\ net'[a][b] \in {Tail(net[a][b]), <<Head(net[a][b])>> \o net[a][b],
                              Append(Tail(net[a][b]), Head(net[a][b]))}
    <3>1. CASE CrashResponse(n)
      BY <3>1 DEF CrashResponse, TypeOK
    <3>2. CASE Lose(s, n)
      BY <3>2 DEF Lose, TypeOK
    <3>3. CASE Duplicate(s, n)
      BY <3>3 DEF Duplicate, TypeOK
    <3>4. CASE Reorder(s, n)
      <4>1. /\ net' = [net EXCEPT ![s][n] = Append(Tail(@), Head(@))] /\ Len(net[s][n]) > 1
            /\ net \in [Routers -> [Routers -> Seq(CostVector)]]
        BY <3>4 DEF Reorder, TypeOK
      <4>2. CASE a = s /\ b = n
        <5>1. net'[a][b] = Append(Tail(net[a][b]), Head(net[a][b]))
          BY <4>1, <4>2
        <5>2. Len(net[a][b]) > 1
          BY <4>1, <4>2
        <5>3. net[a][b] # << >>
          BY <5>2, <2>1, EmptySeq
        <5> QED
          BY <5>1, <5>3
      <4>3. CASE ~ (a = s /\ b = n)
        BY <4>1, <4>3
      <4> QED
        BY <4>2, <4>3
    <3> QED
      BY <3>1, <3>2, <3>3, <3>4
  <2>3. \A j \in 1 .. Len(net[a][b]) : NoWorse(p[a], net[a][b][j])
    BY DEF Bounded, AllAbove
  <2>4. net'[a][b] # << >>
    OBVIOUS
  <2> QED
    BY <2>1, <2>2, <2>3, <2>4, QueueStepAbove
<1> QED
  BY <1>1, <1>2 DEF Bounded

-----------------------------------------------------------------------------
(* The invariant *)

LEMMA InitAbove == Init => FloorInv /\ AboveInv
<1> SUFFICES ASSUME Init PROVE FloorInv /\ AboveInv
  OBVIOUS
<1>1. FloorInv
  <2>1. \A a, b \in Routers : Link[a][b] \in Nat
    BY LinkAssumption, TableEntries, IdsAndCostsAreNaturals DEF Table
  <2> QED
    BY <2>1, LinkAssumption DEF Init, FloorInv
<1>2. \A p \in [Routers -> CostVector] : Bounded(p)
  BY DEF Init, Bounded, AllAbove
<1> QED
  BY <1>1, <1>2 DEF AboveInv

\* The floor never rises.
LEMMA NextFloor ==
  ASSUME TypeOK, FloorInv, [Next]_vars
  PROVE  /\ FloorInv'
         /\ \A a, b \in Routers : floor'[a][b] <= floor[a][b]
<1>1. \A a, b \in Routers : floor[a][b] \in Nat /\ Link[a][b] \in Nat
  BY LinkAssumption, TableEntries, IdsAndCostsAreNaturals DEF TypeOK, Table, CostVector
<1>2. CASE floor' = floor
  BY <1>1, <1>2 DEF FloorInv
<1>3. ASSUME NEW n \in Routers, NEW r \in Nbrs(n), NEW c \in NewCosts,
             UpdateResponse(n, r, c)
      PROVE  /\ FloorInv'
             /\ \A a, b \in Routers : floor'[a][b] <= floor[a][b]
  <2>1. /\ c # 0 /\ floor'[n][r] \in {floor[n][r], c} /\ c \in Nat
        /\ \A a, b \in Routers : /\ floor'[a][b] <= floor[a][b]
                                 /\ a # n \/ b # r => floor'[a][b] = floor[a][b]
    BY <1>3, UpdateResponseFloor, IdsAndCostsAreNaturals
  <2>2. ASSUME NEW a \in Routers, NEW b \in Routers
        PROVE  floor'[a][b] <= Link[a][b] /\ (a # b => floor'[a][b] # 0)
    <3>1. floor[a][b] <= Link[a][b] /\ (a # b => floor[a][b] # 0)
      BY DEF FloorInv
    <3>2. floor'[a][b] \in {floor[a][b], c} /\ floor'[a][b] <= floor[a][b]
      BY <2>1
    <3> QED
      BY <1>1, <2>1, <3>1, <3>2
  <2> QED
    BY <2>1, <2>2 DEF FloorInv
<1>4. \/ floor' = floor
      \/ \E n \in Routers : \E r \in Nbrs(n), c \in NewCosts : UpdateResponse(n, r, c)
  <2>1. ASSUME NEW n \in Routers, NEW s \in Nbrs(n), NEW D \in SUBSET Nbrs(n),
               NEW announces \in BOOLEAN, UpdateRoutingTable(n, s, D, announces)
        PROVE  floor' = floor
    BY <2>1 DEF UpdateRoutingTable, SetNewTimeout
  <2>2. ASSUME NEW n \in Routers, NEW D \in SUBSET Nbrs(n),
               NEW announces \in BOOLEAN, Timeout(n, D, announces)
        PROVE  floor' = floor
    BY <2>2 DEF Timeout, SetNewTimeout
  <2>3. ASSUME NEW n \in Routers, InitResponse(n) \/ CrashResponse(n)
        PROVE  floor' = floor
    BY <2>3 DEF InitResponse, CrashResponse
  <2>4. ASSUME NEW n \in Routers, NEW s \in Nbrs(n),
               Lose(s, n) \/ Duplicate(s, n) \/ Reorder(s, n)
        PROVE  floor' = floor
    BY <2>4 DEF Lose, Duplicate, Reorder
  <2>5. CASE UNCHANGED vars
    BY <2>5 DEF vars
  <2> QED
    BY <2>1, <2>2, <2>3, <2>4, <2>5 DEF Next
<1> QED
  BY <1>2, <1>3, <1>4

LEMMA NextAbove == TypeOK /\ FloorInv /\ AboveInv /\ [Next]_vars => AboveInv'
<1> SUFFICES ASSUME TypeOK, FloorInv, AboveInv, [Next]_vars,
                    NEW p \in [Routers -> CostVector], LowerBound(p, floor')
             PROVE  Bounded(p)'
  BY DEF AboveInv
<1>1. TypeOK'
  BY NextTypeOK
<1>2. LowerBound(p, floor)
  BY <1>1, NextFloor, BoundsFall DEF TypeOK, Table
<1>3. Bounded(p)
  BY <1>2 DEF AboveInv
<1>4. ASSUME NEW n \in Routers, InitResponse(n)
      PROVE  Bounded(p)'
  BY <1>2, <1>3, <1>4, InitResponseAbove
<1>5. ASSUME NEW n \in Routers, NEW D \in SUBSET Nbrs(n),
             NEW announces \in BOOLEAN, Timeout(n, D, announces)
      PROVE  Bounded(p)'
  BY <1>2, <1>3, <1>5, TimeoutAbove
<1>6. ASSUME NEW n \in Routers, NEW s \in Nbrs(n), NEW D \in SUBSET Nbrs(n),
             NEW announces \in BOOLEAN, UpdateRoutingTable(n, s, D, announces)
      PROVE  Bounded(p)'
  BY <1>2, <1>3, <1>6, UpdateRoutingTableAbove
<1>7. ASSUME NEW n \in Routers, NEW r \in Nbrs(n), NEW c \in NewCosts,
             UpdateResponse(n, r, c)
      PROVE  Bounded(p)'
  BY <1>1, <1>3, <1>7, UpdateResponseAbove
<1>8. ASSUME NEW n \in Routers, NEW s \in Nbrs(n),
             Lose(s, n) \/ Duplicate(s, n) \/ Reorder(s, n)
      PROVE  Bounded(p)'
  BY <1>3, <1>8, LinkProperties, NetworkAbove
<1>9. ASSUME NEW n \in Routers, CrashResponse(n)
      PROVE  Bounded(p)'
  BY <1>3, <1>9, NetworkAbove
<1>10. CASE UNCHANGED vars
  BY <1>3, <1>10 DEF vars, tables, Bounded
<1> QED
  BY <1>4, <1>5, <1>6, <1>7, <1>8, <1>9, <1>10 DEF Next

-----------------------------------------------------------------------------
(* Distance.  The recursion is a sequence of tables; it falls, and once no   *)
(* entry falls any more it respects the links.  Each step before that makes  *)
(* at least one more entry of a column final: the least of those that are    *)
(* not.                                                                      *)

\* Induction, for a set.
LEMMA SetInduction ==
  ASSUME NEW S \in SUBSET Nat, 0 \in S, \A k \in S : k + 1 \in S
  PROVE  S = Nat
<1> DEFINE B == Nat \ S
<1> SUFFICES ASSUME B # {} PROVE FALSE
  OBVIOUS
<1>1. B \in SUBSET Nat
  OBVIOUS
<1>2. Min(B) \in B /\ \A x \in B : Min(B) <= x
  BY <1>1, MinProperty
<1>3. Min(B) - 1 \in Nat /\ Min(B) - 1 \notin B
  BY <1>2
<1> QED
  BY <1>2, <1>3

\* A sequence of costs that falls at every step falls.
LEMMA FallingSequence ==
  ASSUME NEW e \in [Nat -> Nat], \A k \in Nat : e[k + 1] <= e[k],
         NEW j \in Nat, NEW k \in Nat, j <= k
  PROVE  e[k] <= e[j]
<1> DEFINE S == {m \in Nat : e[j + m] <= e[j]}
<1>1. 0 \in S
  OBVIOUS
<1>2. ASSUME NEW m \in S PROVE m + 1 \in S
  <2>1. m \in Nat /\ e[j + m] <= e[j] /\ e[(j + m) + 1] <= e[j + m]
    OBVIOUS
  <2>2. e[j + m] \in Nat /\ e[(j + m) + 1] \in Nat /\ e[j] \in Nat
    BY <2>1
  <2> QED
    BY <2>1, <2>2
<1>3. S \in SUBSET Nat
  OBVIOUS
<1> HIDE DEF S
<1>4. k - j \in S
  BY <1>1, <1>2, <1>3, SetInduction
<1> QED
  BY <1>4 DEF S

\* The costs e[k] of the routers after k steps: each is the best of the one before and
\* of what the links L give from there.
Relaxes(e, L) ==
  \A k \in Nat : \A n \in Routers :
    /\ e[k + 1][n] <= e[k][n]
    /\ \A r \in Nbrs(n) : e[k + 1][n] <= L[n][r] + e[k][r]
    /\ \/ e[k + 1][n] = e[k][n]
       \/ \E r \in Nbrs(n) : e[k + 1][n] = L[n][r] + e[k][r]

\* After N-1 steps they respect the links.
LEMMA Saturation ==
  ASSUME NEW L \in Table,
         \A n \in Routers : \A r \in Nbrs(n) : L[n][r] # 0,
         NEW e \in [Nat -> CostVector], Relaxes(e, L),
         NEW i \in Routers, e[0][i] = 0
  PROVE  \A n \in Routers : \A r \in Nbrs(n) : e[N - 1][n] <= L[n][r] + e[N - 1][r]
<1> DEFINE least == [n \in Routers |-> Min({e[k][n] : k \in Nat})]
           T == [k \in Nat |-> {n \in Routers : e[k][n] = least[n]}]
<1>1. \A k \in Nat, n \in Routers : e[k][n] \in Nat
  BY IdsAndCostsAreNaturals DEF CostVector
<1>2. \A n \in Routers : Nbrs(n) \in SUBSET Routers /\ \A r \in Nbrs(n) : L[n][r] \in Nat
  BY LinkProperties, TableEntries, IdsAndCostsAreNaturals
<1>3. ASSUME NEW n \in Routers
      PROVE  /\ \E k \in Nat : e[k][n] = least[n]
             /\ \A k \in Nat : least[n] <= e[k][n]
             /\ least[n] \in Nat
  <2> DEFINE S == {e[k][n] : k \in Nat}
  <2>1. S \in SUBSET Nat /\ e[0][n] \in S
    BY <1>1
  <2>2. Min(S) \in S /\ \A x \in S : Min(S) <= x
    BY <2>1, MinProperty
  <2>3. least[n] = Min(S)
    OBVIOUS
  <2> HIDE DEF least
  <2> QED
    BY <2>1, <2>2, <2>3
<1> HIDE DEF least
<1>4. ASSUME NEW k \in Nat
       PROVE  /\ \A n \in T[k] : n \in Routers /\ e[k][n] = least[n]
              /\ \A n \in Routers \ T[k] : e[k][n] # least[n]
              /\ T[k] \in SUBSET Routers
  OBVIOUS
<1> HIDE DEF T
<1>5. ASSUME NEW j \in Nat, NEW k \in Nat, j <= k, NEW n \in Routers
      PROVE  e[k][n] <= e[j][n]
  <2> DEFINE f == [m \in Nat |-> e[m][n]]
  <2>1. f \in [Nat -> Nat] /\ \A m \in Nat : f[m + 1] <= f[m]
    BY <1>1 DEF Relaxes
  <2>2. f[k] <= f[j]
    <3> HIDE DEF f
    <3> QED
      BY <1>5, <2>1, FallingSequence
  <2> QED
    BY <2>2
<1>6. ASSUME NEW k \in Nat, T[k] # Routers
      PROVE  \E n \in Routers : n \notin T[k] /\ n \in T[k + 1]
  <2> DEFINE U == {least[n] : n \in Routers \ T[k]}
  <2>1. U \in SUBSET Nat /\ U # {}
    <3>1. Routers \ T[k] # {}
      BY <1>6, <1>4
    <3> QED
      BY <1>3, <3>1
  <2>2. Min(U) \in U /\ \A x \in U : Min(U) <= x
    BY <2>1, MinProperty
  <2>3. PICK n \in Routers \ T[k] : least[n] = Min(U)
    BY <2>2
  <2>4. ASSUME NEW r \in Routers, least[r] < least[n]
        PROVE  r \in T[k]
    <3> SUFFICES ASSUME r \notin T[k] PROVE FALSE
      OBVIOUS
    <3>1. Min(U) <= least[r]
      BY <2>2
    <3>2. least[r] \in Nat /\ least[n] \in Nat
      BY <1>3
    <3> QED
      BY <2>3, <2>4, <3>1, <3>2
  <2> HIDE DEF U
  <2> DEFINE K == {m \in Nat : e[m][n] = least[n]}
  <2>5. K \in SUBSET Nat /\ K # {}
    BY <1>3
  <2>6. Min(K) \in K /\ \A x \in K : Min(K) <= x
    BY <2>5, MinProperty
  <2>7. PICK m \in Nat : m = Min(K)
    BY <2>6
  <2>8. e[m][n] = least[n] /\ \A x \in Nat : e[x][n] = least[n] => m <= x
    BY <2>6, <2>7
  <2> HIDE DEF K
  <2>9. m > k
    <3> SUFFICES ASSUME m <= k PROVE FALSE
      BY <2>7
    <3>1. e[k][n] <= e[m][n] /\ least[n] <= e[k][n]
      BY <1>3, <1>5, <2>7
    <3>2. e[k][n] = least[n]
      <4>1. e[k][n] \in Nat /\ least[n] \in Nat /\ e[m][n] = least[n]
        BY <1>1, <1>3, <2>8
      <4> QED
        BY <4>1, <3>1
    <3> QED
      BY <1>4, <2>3, <3>2
  <2>10. m - 1 \in Nat /\ m = (m - 1) + 1
    BY <2>7, <2>9
  <2>11. e[m][n] # e[m - 1][n]
    BY <2>8, <2>10
  <2>12. PICK r \in Nbrs(n) : e[m][n] = L[n][r] + e[m - 1][r]
    BY <2>10, <2>11 DEF Relaxes
  <2>13. r \in Routers /\ L[n][r] \in Nat /\ L[n][r] # 0 /\ e[m - 1][r] \in Nat
    BY <1>1, <1>2, <2>10
  <2>14. least[r] \in Nat /\ least[r] <= e[m - 1][r] /\ least[n] \in Nat
    BY <1>3, <2>10, <2>13
  <2>15. least[r] < least[n]
    <3>1. least[n] = L[n][r] + e[m - 1][r]
      BY <2>8, <2>12
    <3> QED
      BY <2>13, <2>14, <3>1
  <2>16. e[k][r] = least[r]
    BY <1>4, <2>4, <2>13, <2>15
  <2>17. e[k + 1][n] <= L[n][r] + least[r]
    BY <2>16 DEF Relaxes
  <2>18. least[n] <= e[k + 1][n] /\ e[k + 1][n] \in Nat
    BY <1>1, <1>3
  <2>19. e[k + 1][n] = least[n]
    <3>1. least[n] = L[n][r] + e[m - 1][r]
      BY <2>8, <2>12
    <3> QED
      BY <2>13, <2>14, <2>17, <2>18, <3>1
  <2> QED
    BY <1>4, <2>3, <2>19
<1>7. ASSUME NEW k \in Nat
      PROVE  T[k] \in SUBSET T[k + 1] /\ T[k] \in SUBSET Routers
  <2> SUFFICES ASSUME NEW n \in T[k] PROVE e[k + 1][n] = least[n]
    BY <1>4
  <2>1. /\ e[k + 1][n] <= e[k][n] /\ e[k][n] = least[n]
        /\ n \in Routers /\ least[n] <= e[k + 1][n]
    BY <1>3, <1>4 DEF Relaxes
  <2>2. e[k + 1][n] \in Nat /\ e[k][n] \in Nat
    BY <1>1, <2>1
  <2> QED
    BY <2>1, <2>2
<1>8. IsFiniteSet(Routers) /\ Cardinality(Routers) = N
  <2>1. N - 1 - 0 + 1 = N /\ 0 <= N - 1 /\ N - 1 \in Int
    BY NAssumption
  <2> QED
    BY <2>1, FS_Interval DEF Routers
<1>9. \A k \in Nat : IsFiniteSet(T[k]) /\ Cardinality(T[k]) \in Nat /\ Cardinality(T[k]) <= N
  BY <1>7, <1>8, FS_Subset, FS_CardinalityType
<1> DEFINE G == {k \in Nat : T[k] = Routers \/ Cardinality(T[k]) >= k + 1}
<1>10. 0 \in G
  <2>1. i \in T[0]
    <3>1. least[i] <= e[0][i] /\ least[i] \in Nat
      BY <1>3
    <3>2. e[0][i] = least[i]
      BY <3>1
    <3> QED
      BY <1>4, <3>2
  <2>2. Cardinality(T[0]) # 0
    BY <1>9, <2>1, FS_EmptySet
  <2> QED
    BY <1>9, <2>2
<1>11. ASSUME NEW k \in Nat, k \in G PROVE k + 1 \in G
  <2>1. k + 1 \in Nat
    OBVIOUS
  <2>2. CASE T[k] = Routers
    <3>1. T[k] \in SUBSET T[k + 1] /\ T[k + 1] \in SUBSET Routers
      BY <1>7, <1>4, <2>1
    <3>2. T[k + 1] = Routers
      BY <2>1, <2>2, <3>1
    <3> QED
      BY <2>1, <3>2
  <2>3. CASE T[k] # Routers
    <3>1. PICK n \in Routers : n \notin T[k] /\ n \in T[k + 1]
      BY <1>6, <2>1, <2>3
    <3>2. Cardinality(T[k] \cup {n}) = Cardinality(T[k]) + 1 /\ IsFiniteSet(T[k] \cup {n})
      BY <1>9, <2>1, <3>1, FS_AddElement
    <3>3. T[k] \cup {n} \in SUBSET T[k + 1]
      BY <1>7, <2>1, <3>1
    <3>4. Cardinality(T[k] \cup {n}) <= Cardinality(T[k + 1])
      BY <1>9, <2>1, <3>3, FS_Subset
    <3>5. Cardinality(T[k]) >= k + 1
      BY <1>11, <2>3
    <3> QED
      BY <1>9, <2>1, <3>2, <3>4, <3>5
  <2> QED
    BY <2>2, <2>3
<1>12. N - 1 \in G
  <2>1. G \in SUBSET Nat
    OBVIOUS
  <2>2. N - 1 \in Nat
    BY NAssumption
  <2> HIDE DEF G
  <2> QED
    BY <1>10, <1>11, <2>1, <2>2, SetInduction
<1>13. T[N - 1] = Routers
  <2>1. N - 1 \in Nat /\ (N - 1) + 1 = N
    BY NAssumption
  <2>2. CASE Cardinality(T[N - 1]) >= (N - 1) + 1
    <3>1. Cardinality(T[N - 1]) = Cardinality(Routers)
      BY <1>8, <1>9, <2>1, <2>2
    <3> QED
      BY <1>7, <1>8, <2>1, <3>1, FS_Subset
  <2> QED
    BY <1>12, <2>2
<1> SUFFICES ASSUME NEW n \in Routers, NEW r \in Nbrs(n)
             PROVE  e[N - 1][n] <= L[n][r] + e[N - 1][r]
  OBVIOUS
<1>14. N - 1 \in Nat /\ r \in Routers
  BY <1>2, NAssumption
<1>15. e[N - 1][n] <= e[(N - 1) + 1][n]
  BY <1>3, <1>13, <1>14, <1>4
<1>16. e[(N - 1) + 1][n] <= L[n][r] + e[N - 1][r]
  BY <1>14 DEF Relaxes
<1> QED
  BY <1>1, <1>2, <1>14, <1>15, <1>16

\* A sequence in which every element is found from the one before exists.
LEMMA Iteration ==
  ASSUME NEW S, NEW b \in S, NEW f \in [S -> S]
  PROVE  \E d \in [Nat -> S] : /\ d[0] = b
                              /\ \A k \in Nat : d[k + 1] = f[d[k]]
\* Its first k steps ...
<1> DEFINE Begins(g, k) == /\ g \in [Nat -> S]
                           /\ g[0] = b
                           /\ \A j \in Nat : j < k => g[j + 1] = f[g[j]]
           K == {k \in Nat : \E g : Begins(g, k)}
\* ... exist for every k ...
<1>1. K = Nat
  <2>1. 0 \in K
    <3>1. Begins([k \in Nat |-> b], 0)
      OBVIOUS
    <3> QED
      BY <3>1
  <2>2. ASSUME NEW k \in Nat, k \in K PROVE k + 1 \in K
    <3>1. PICK g : Begins(g, k)
      BY <2>2
    <3> DEFINE h == [j \in Nat |-> IF j = k + 1 THEN f[g[k]] ELSE g[j]]
    <3>2. h \in [Nat -> S] /\ h[0] = b
      BY <3>1
    <3>3. ASSUME NEW j \in Nat, j < k + 1 PROVE h[j + 1] = f[h[j]]
      <4>1. h[j] = g[j]
        BY <3>3
      <4>2. CASE j = k
        BY <4>1, <4>2
      <4>3. CASE j # k
        <5>1. j < k /\ h[j + 1] = g[j + 1]
          BY <3>3, <4>3
        <5> QED
          BY <3>1, <4>1, <5>1
      <4> QED
        BY <4>2, <4>3
    <3> HIDE DEF h
    <3>4. Begins(h, k + 1)
      BY <3>2, <3>3
    <3> QED
      BY <3>4
  <2>3. K \in SUBSET Nat
    OBVIOUS
  <2> HIDE DEF K
  <2> QED
    BY <2>1, <2>2, <2>3, SetInduction
<1> DEFINE Part(k) == CHOOSE g : Begins(g, k)
<1>2. \A k \in Nat : Begins(Part(k), k)
  BY <1>1
<1> HIDE DEF Part, K
\* ... and agree where they overlap ...
<1>3. ASSUME NEW k \in Nat, NEW l \in Nat, k <= l
      PROVE  Part(k)[k] = Part(l)[k]
  <2> DEFINE A == {j \in Nat : j <= k => Part(k)[j] = Part(l)[j]}
  <2>1. 0 \in A
    BY <1>2
  <2>2. ASSUME NEW j \in Nat, j \in A PROVE j + 1 \in A
    <3> SUFFICES ASSUME j + 1 <= k PROVE Part(k)[j + 1] = Part(l)[j + 1]
      OBVIOUS
    <3>1. j < k /\ j < l /\ Part(k)[j] = Part(l)[j]
      BY <1>3, <2>2
    <3> QED
      BY <1>2, <3>1
  <2>3. A \in SUBSET Nat
    OBVIOUS
  <2> HIDE DEF A
  <2>4. k \in A
    BY <2>1, <2>2, <2>3, SetInduction
  <2> QED
    BY <2>4 DEF A
\* ... so their last elements are the sequence.
<1> DEFINE d == [k \in Nat |-> Part(k)[k]]
<1>4. d \in [Nat -> S] /\ d[0] = b
  BY <1>2
<1>5. ASSUME NEW k \in Nat PROVE d[k + 1] = f[d[k]]
  <2>1. Part(k + 1)[k + 1] = f[Part(k + 1)[k]]
    BY <1>2
  <2>2. Part(k + 1)[k] = Part(k)[k]
    BY <1>3
  <2> QED
    BY <2>1, <2>2
<1> QED
  BY <1>4, <1>5

\* Distance claims no more than the links give.
LEMMA DistanceIsLowerBound ==
  ASSUME NEW L \in Table, \A n, r \in Routers : n # r => L[n][r] # 0
  PROVE  LowerBound(Distance(L), L)
<1> DEFINE Start == [n \in Routers |-> [i \in Routers |-> IF n = i THEN 0 ELSE Inf]]
           Offers(v, n, i) == {v[n][i]} \cup {L[n][r] + v[r][i] : r \in Nbrs(n)}
           Relaxed(v) == [n \in Routers |-> [i \in Routers |-> Min(Offers(v, n, i))]]
           Unfolds(d) == d = [k \in Nat |-> IF k = 0 THEN Start ELSE Relaxed(d[k - 1])]
           d == CHOOSE dd : Unfolds(dd)
<1>1. Distance(L) = d[N - 1]
  BY DEF Distance
<1>2. Start \in Table
  BY InfAssumption DEF Table, CostVector, Cost
<1>3. ASSUME NEW v \in Table
      PROVE  /\ Relaxed(v) \in Table
             /\ \A n, i \in Routers :
                  /\ Relaxed(v)[n][i] <= v[n][i]
                  /\ \A r \in Nbrs(n) : Relaxed(v)[n][i] <= L[n][r] + v[r][i]
                  /\ \/ Relaxed(v)[n][i] = v[n][i]
                     \/ \E r \in Nbrs(n) : Relaxed(v)[n][i] = L[n][r] + v[r][i]
  <2>1. ASSUME NEW n \in Routers, NEW i \in Routers
        PROVE  /\ Min(Offers(v, n, i)) \in Offers(v, n, i)
               /\ \A x \in Offers(v, n, i) : Min(Offers(v, n, i)) <= x
               /\ Min(Offers(v, n, i)) \in Cost
    <3>1. v[n][i] \in Nat /\ v[n][i] <= Inf
      BY TableEntries, InfAssumption DEF Cost
    <3>2. \A r \in Nbrs(n) : L[n][r] \in Nat /\ v[r][i] \in Nat
      BY LinkProperties, TableEntries, IdsAndCostsAreNaturals
    <3>3. Offers(v, n, i) \in SUBSET Nat /\ v[n][i] \in Offers(v, n, i)
      BY <3>1, <3>2
    <3> HIDE DEF Offers
    <3>4. /\ Min(Offers(v, n, i)) \in Offers(v, n, i)
          /\ \A x \in Offers(v, n, i) : Min(Offers(v, n, i)) <= x
      BY <3>3, MinProperty
    <3>5. Min(Offers(v, n, i)) \in Nat /\ Min(Offers(v, n, i)) <= v[n][i]
      BY <3>3, <3>4
    <3> QED
      BY <3>1, <3>4, <3>5, InfAssumption DEF Cost
  <2>2. \A n, i \in Routers : Relaxed(v)[n][i] = Min(Offers(v, n, i))
    OBVIOUS
  <2>3. Relaxed(v) \in Table
    BY <2>1 DEF Table, CostVector
  <2> HIDE DEF Relaxed
  <2>4. ASSUME NEW n \in Routers, NEW i \in Routers
        PROVE  /\ Relaxed(v)[n][i] <= v[n][i]
               /\ \A r \in Nbrs(n) : Relaxed(v)[n][i] <= L[n][r] + v[r][i]
               /\ \/ Relaxed(v)[n][i] = v[n][i]
                  \/ \E r \in Nbrs(n) : Relaxed(v)[n][i] = L[n][r] + v[r][i]
    <3>1. /\ Relaxed(v)[n][i] \in Offers(v, n, i)
          /\ \A x \in Offers(v, n, i) : Relaxed(v)[n][i] <= x
      <4> HIDE DEF Offers
      <4>1. Relaxed(v)[n][i] = Min(Offers(v, n, i))
        BY <2>2
      <4>2. /\ Min(Offers(v, n, i)) \in Offers(v, n, i)
            /\ \A x \in Offers(v, n, i) : Min(Offers(v, n, i)) <= x
        BY <2>1
      <4> QED
        BY <4>1, <4>2
    <3> QED
      BY <3>1
  <2> QED
    BY <2>3, <2>4
<1>4. Unfolds(d)
  <2> HIDE DEF Start, Relaxed
  <2> DEFINE f == [v \in Table |-> Relaxed(v)]
  <2>1. f \in [Table -> Table]
    BY <1>3
  <2>2. PICK e \in [Nat -> Table] : e[0] = Start /\ \A k \in Nat : e[k + 1] = f[e[k]]
    <3> HIDE DEF f
    <3> QED
      BY <1>2, <2>1, Iteration, SMTT(30)
  <2>3. ASSUME NEW k \in Nat
        PROVE  e[k] = IF k = 0 THEN Start ELSE Relaxed(e[k - 1])
    <3>1. CASE k = 0
      BY <2>2, <3>1
    <3>2. CASE k # 0
      <4>1. k - 1 \in Nat /\ (k - 1) + 1 = k
        BY <3>2
      <4>2. e[(k - 1) + 1] = f[e[k - 1]] /\ e[k - 1] \in Table
        BY <2>2, <4>1
      <4> QED
        BY <3>2, <4>1, <4>2
    <3> QED
      BY <3>1, <3>2
  <2>4. Unfolds(e)
    BY <2>2, <2>3
  <2> HIDE DEF Unfolds
  <2> QED
    BY <2>4
<1> HIDE DEF d, Start, Relaxed
<1>5. d[0] = Start /\ \A k \in Nat : d[k + 1] = Relaxed(d[k])
  <2>1. \A k \in Nat : d[k] = IF k = 0 THEN Start ELSE Relaxed(d[k - 1])
    BY <1>4
  <2>2. ASSUME NEW k \in Nat PROVE d[k + 1] = Relaxed(d[k])
    <3>1. k + 1 \in Nat /\ k + 1 # 0 /\ (k + 1) - 1 = k
      OBVIOUS
    <3>2. d[k + 1] = Relaxed(d[(k + 1) - 1])
      BY <2>1, <3>1
    <3> QED
      BY <3>1, <3>2
  <2> QED
    BY <2>1, <2>2
<1> HIDE DEF Unfolds
<1>6. \A k \in Nat : d[k] \in Table
  <2> DEFINE S == {k \in Nat : d[k] \in Table}
  <2>1. 0 \in S
    BY <1>2, <1>5
  <2>2. ASSUME NEW k \in Nat, k \in S PROVE k + 1 \in S
    BY <1>3, <1>5, <2>2
  <2>3. S \in SUBSET Nat
    OBVIOUS
  <2> HIDE DEF S
  <2>4. S = Nat
    BY <2>1, <2>2, <2>3, SetInduction
  <2> QED
    BY <2>4 DEF S
<1>7. N - 1 \in Nat
  BY NAssumption
<1>8. ASSUME NEW i \in Routers
      PROVE  /\ d[N - 1][i][i] = 0
             /\ \A n \in Routers : \A r \in Nbrs(n) :
                  d[N - 1][n][i] <= L[n][r] + d[N - 1][r][i]
  <2> DEFINE e == [k \in Nat |-> [n \in Routers |-> d[k][n][i]]]
  <2>1. e \in [Nat -> CostVector]
    BY <1>6, TableEntries DEF CostVector
  <2>2. e[0][i] = 0
    BY <1>5 DEF Start
  <2>3. Relaxes(e, L)
    <3> SUFFICES ASSUME NEW k \in Nat, NEW n \in Routers
                 PROVE  /\ e[k + 1][n] <= e[k][n]
                        /\ \A r \in Nbrs(n) : e[k + 1][n] <= L[n][r] + e[k][r]
                        /\ \/ e[k + 1][n] = e[k][n]
                           \/ \E r \in Nbrs(n) : e[k + 1][n] = L[n][r] + e[k][r]
      BY DEF Relaxes
    <3>1. d[k] \in Table /\ d[k + 1] = Relaxed(d[k])
      BY <1>5, <1>6
    <3>2. /\ e[k + 1][n] = Relaxed(d[k])[n][i] /\ e[k][n] = d[k][n][i]
          /\ \A r \in Nbrs(n) : e[k][r] = d[k][r][i]
      BY <3>1, LinkProperties
    <3> HIDE DEF e
    <3> QED
      BY <1>3, <3>1, <3>2
  <2>4. \A n \in Routers : \A r \in Nbrs(n) : L[n][r] # 0
    BY NeighboursMutual
  <2>5. \A n \in Routers : e[N - 1][n] = d[N - 1][n][i]
    BY <1>7
  <2>6. \A k \in Nat : e[k + 1][i] <= e[k][i]
    BY <2>3 DEF Relaxes
  <2> HIDE DEF e
  <2>7. \A n \in Routers : \A r \in Nbrs(n) : e[N - 1][n] <= L[n][r] + e[N - 1][r]
    BY <2>1, <2>2, <2>3, <2>4, Saturation
  <2>8. e[N - 1][i] = 0
    <3> DEFINE f == [k \in Nat |-> e[k][i]]
    <3>1. \A k \in Nat : e[k][i] \in Cost
      BY <2>1 DEF CostVector
    <3>2. f \in [Nat -> Nat] /\ \A k \in Nat : f[k + 1] <= f[k]
      <4>1. \A k \in Nat : e[k][i] \in Nat
        BY <3>1, IdsAndCostsAreNaturals
      <4>2. \A k \in Nat : k + 1 \in Nat /\ f[k] = e[k][i]
        OBVIOUS
      <4>3. f \in [Nat -> Nat]
        BY <4>1
      <4> HIDE DEF f
      <4> QED
        BY <2>6, <4>2, <4>3
    <3>3. f[N - 1] <= f[0] /\ f[N - 1] \in Nat
      <4> HIDE DEF f
      <4>1. 0 \in Nat /\ 0 <= N - 1
        BY <1>7
      <4> QED
        BY <1>7, <3>2, <4>1, FallingSequence
    <3> QED
      BY <1>7, <2>2, <3>3
  <2> QED
    BY <2>5, <2>7, <2>8, LinkProperties
<1>9. d[N - 1] \in [Routers -> CostVector]
  BY <1>6, <1>7 DEF Table
<1> QED
  BY <1>1, <1>8, <1>9 DEF LowerBound

\* So every table stays above the distances of the least link costs.
LEMMA AboveInvNeverTooShort == TypeOK /\ FloorInv /\ AboveInv => NeverTooShort
<1> SUFFICES ASSUME TypeOK, FloorInv, AboveInv PROVE NeverTooShort
  OBVIOUS
<1> DEFINE p == Distance(floor)
<1>1. LowerBound(p, floor)
  BY DistanceIsLowerBound DEF TypeOK, Table, FloorInv
<1>2. p \in [Routers -> CostVector]
  BY <1>1 DEF LowerBound
<1> HIDE DEF p
<1>3. Bounded(p)
  BY <1>1, <1>2 DEF AboveInv
<1>4. ASSUME NEW n \in Routers, NEW i \in Routers, status[n] # "idle"
      PROVE  cost[n][i] >= p[n][i]
  <2>1. p[n][i] <= cost[n][i]
    BY <1>3, <1>4 DEF Bounded, NoWorse
  <2>2. p[n][i] \in Nat /\ cost[n][i] \in Nat
    <3>1. p[n] \in CostVector /\ cost[n] \in CostVector
      BY <1>2 DEF TypeOK
    <3> QED
      BY <3>1, IdsAndCostsAreNaturals DEF CostVector
  <2> QED
    BY <2>1, <2>2
<1> QED
  BY <1>4 DEF NeverTooShort, p

\* Whatever is lost, doubled, reordered, updated or given up on, no table of any
\* router ever claims a path shorter than the shortest one over the least costs the
\* links have ever had.
THEOREM NoPathTooShort == Spec => []NeverTooShort
<1>1. Init => TypeOK /\ FloorInv /\ AboveInv
  BY InitTypeOK, InitAbove
<1>2. TypeOK /\ FloorInv /\ AboveInv /\ [Next]_vars => TypeOK' /\ FloorInv' /\ AboveInv'
  BY NextTypeOK, NextFloor, NextAbove
<1> QED
  BY <1>1, <1>2, AboveInvNeverTooShort, PTL DEF Spec
=============================================================================
