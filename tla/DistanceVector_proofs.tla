----------------------- MODULE DistanceVector_proofs -----------------------
(***************************************************************************)
(* What the operators of DistanceVector return, for every number of        *)
(* routers and every table: the lemmas the invariance proofs rest on.      *)
(***************************************************************************)
EXTENDS DistanceVector, FiniteSetTheorems, TLAPS

\* The tables of a router.
Table == [Routers -> CostVector]

\* table_ids and costs are naturals.
LEMMA IdsAndCostsAreNaturals == Routers \subseteq Nat /\ Cost \subseteq Nat
BY NAssumption, InfAssumption DEF Routers, Cost

\* The entries of a table are costs.
LEMMA TableEntries ==
  ASSUME NEW o \in Table, NEW r \in Routers, NEW i \in Routers
  PROVE  o[r][i] \in Cost
BY DEF Table, CostVector

-----------------------------------------------------------------------------
(* Least and greatest elements *)

\* Min finds the least element of a nonempty set of naturals.
LEMMA MinProperty ==
  ASSUME NEW S \in SUBSET Nat, S # {}
  PROVE  /\ Min(S) \in S
         /\ \A x \in S : Min(S) <= x
<1> DEFINE R == {ss \in Nat \X Nat : ss[1] < ss[2]}
<1>1. IsWellFoundedOn(R, Nat)
  BY NatLessThanWellFounded, Zenon DEF OpToRel
<1>2. ASSUME NEW a \in Nat, NEW b \in Nat, a < b
      PROVE  <<a, b>> \in R
  BY <1>2
<1> HIDE DEF R
<1>3. \E x \in S : \A y \in S : ~ (<<y, x>> \in R)
  BY <1>1, WFMin, Zenon
<1>4. PICK x \in S : \A y \in S : ~ (y < x)
  BY <1>2, <1>3
<1>5. \A y \in S : x <= y
  BY <1>4
<1> QED
  BY <1>5 DEF Min

\* Max finds the greatest element of a nonempty set of routers.
LEMMA MaxProperty ==
  ASSUME NEW S \in SUBSET Routers, S # {}
  PROVE  /\ Max(S) \in S
         /\ \A x \in S : x <= Max(S)
<1> DEFINE T == {k \in Nat : \E x \in S : k = N - x}
<1>1. PICK z \in S : TRUE
  OBVIOUS
<1>2. /\ T \in SUBSET Nat
      /\ N - z \in T
  BY NAssumption DEF Routers
<1>3. /\ Min(T) \in T
      /\ \A k \in T : Min(T) <= k
  BY <1>2, MinProperty
<1>4. PICK x \in S : Min(T) = N - x
  BY <1>3
<1>5. \A y \in S : y <= x
  <2> TAKE y \in S
  <2>1. N - y \in T
    BY NAssumption DEF Routers
  <2> QED
    BY <2>1, <1>3, <1>4, NAssumption DEF Routers
<1> QED
  BY <1>5, NAssumption DEF Max, Routers

-----------------------------------------------------------------------------
(* The recomputation *)

\* The minimum over the neighbours is a cost, no worse than any neighbour's
\* offer, and INF or some neighbour's offer.
LEMMA MinCostProperty ==
  ASSUME NEW me \in Routers, NEW nb \in SUBSET Routers, NEW o \in Table,
         NEW i \in Routers
  PROVE  /\ MinCost(me, nb, o, i) \in Cost
         /\ \A r \in nb : MinCost(me, nb, o, i) <= Via(me, o, r, i)
         /\ \/ MinCost(me, nb, o, i) = Inf
            \/ \E r \in nb : Via(me, o, r, i) = MinCost(me, nb, o, i)
<1> DEFINE S == {Inf} \cup {Via(me, o, r, i) : r \in nb}
<1>1. \A r \in nb : Via(me, o, r, i) \in Nat
  <2> TAKE r \in nb
  <2>1. o[me][r] \in Cost /\ o[r][i] \in Cost
    BY DEF Table, CostVector
  <2> QED
    BY <2>1, InfAssumption DEF Via, Cost
<1>2. S \in SUBSET Nat /\ S # {} /\ Inf \in S
  BY <1>1, InfAssumption
<1>3. Min(S) \in S /\ \A x \in S : Min(S) <= x
  BY <1>2, MinProperty
<1>4. Min(S) = MinCost(me, nb, o, i)
  BY DEF MinCost
<1> HIDE DEF S
<1>5. Min(S) \in Cost
  <2>1. Min(S) \in Nat /\ Min(S) <= Inf
    BY <1>2, <1>3
  <2> QED
    BY <2>1, InfAssumption DEF Cost
<1>6. \A r \in nb : Min(S) <= Via(me, o, r, i)
  BY <1>3 DEF S
<1>7. Min(S) = Inf \/ \E r \in nb : Via(me, o, r, i) = Min(S)
  BY <1>3 DEF S
<1> QED
  BY <1>4, <1>5, <1>6, <1>7

\* Where a path via a neighbour is shorter, HopTo is a neighbour on such a path.
LEMMA HopToProperty ==
  ASSUME NEW me \in Routers, NEW nb \in SUBSET Routers, NEW o \in Table,
         NEW i \in Routers, ShorterVia(me, nb, o, i)
  PROVE  /\ HopTo(me, nb, o, i) \in nb
         /\ Via(me, o, HopTo(me, nb, o, i), i) = MinCost(me, nb, o, i)
<1> DEFINE S == {r \in nb : Via(me, o, r, i) = MinCost(me, nb, o, i)}
<1>1. o[me][i] \in 0 .. Inf
  BY DEF Table, CostVector, Cost
<1>2. MinCost(me, nb, o, i) # Inf
  BY <1>1, MinCostProperty, InfAssumption DEF ShorterVia, Cost
<1>3. S # {} /\ S \in SUBSET Nat
  <2>1. PICK r \in nb : Via(me, o, r, i) = MinCost(me, nb, o, i)
    BY <1>2, MinCostProperty
  <2>2. Routers \subseteq Nat
    BY NAssumption DEF Routers
  <2> QED
    BY <2>1, <2>2
<1>4. Min(S) \in S
  BY <1>3, MinProperty
<1> QED
  BY <1>4 DEF HopTo

\* The better the neighbours' vectors, the better the best path.
LEMMA MinCostMonotone ==
  ASSUME NEW me \in Routers, NEW nb \in SUBSET Routers, NEW o \in Table, NEW p \in Table,
         o[me] = p[me], NEW i \in Routers, \A r \in nb : o[r][i] <= p[r][i]
  PROVE  MinCost(me, nb, o, i) <= MinCost(me, nb, p, i)
<1>1. /\ MinCost(me, nb, o, i) \in Nat /\ MinCost(me, nb, o, i) <= Inf
      /\ MinCost(me, nb, p, i) \in Nat
  BY MinCostProperty, InfAssumption DEF Cost
<1>2. ASSUME NEW r \in nb, Via(me, p, r, i) = MinCost(me, nb, p, i)
      PROVE  MinCost(me, nb, o, i) <= MinCost(me, nb, p, i)
  <2>1. MinCost(me, nb, o, i) <= Via(me, o, r, i)
    BY MinCostProperty
  <2>2. o[me][r] \in Nat /\ o[r][i] \in Nat /\ p[r][i] \in Nat
    BY TableEntries, IdsAndCostsAreNaturals
  <2>3. Via(me, o, r, i) <= Via(me, p, r, i) /\ Via(me, o, r, i) \in Nat
    BY <2>2 DEF Via
  <2> QED
    BY <1>1, <1>2, <2>1, <2>3
<1> QED
  BY <1>1, <1>2, MinCostProperty

\* A recomputed cost column is one.
LEMMA RecalculatedCostType ==
  ASSUME NEW me \in Routers, NEW nb \in SUBSET Routers, NEW o \in Table,
         NEW c \in CostVector
  PROVE  RecalculatedCost(me, nb, o, c) \in CostVector
BY MinCostProperty DEF RecalculatedCost, CostVector

\* A recomputed next_hop column is one.
LEMMA RecalculatedHopType ==
  ASSUME NEW me \in Routers, NEW nb \in SUBSET Routers, NEW o \in Table,
         NEW h \in [Routers -> Routers \cup {NoHop}]
  PROVE  RecalculatedHop(me, nb, o, h) \in [Routers -> Routers \cup {NoHop}]
BY HopToProperty DEF RecalculatedHop

-----------------------------------------------------------------------------
(* Giving up on neighbours *)

\* Cutting links leaves a table.
LEMMA WithoutLinksType ==
  ASSUME NEW me \in Routers, NEW o \in Table, NEW D \in SUBSET Routers
  PROVE  WithoutLinks(me, o, D) \in Table
BY InfAssumption DEF WithoutLinks, Table, CostVector, Cost

LEMMA LossStageType ==
  ASSUME NEW me \in Routers, NEW o \in Table, NEW D \in SUBSET Routers,
         NEW d \in D
  PROVE  LossStage(me, o, D, d) \in Table
BY WithoutLinksType DEF LossStage

\* The columns after the losses are columns.
LEMMA AfterLossType ==
  ASSUME NEW me \in Routers, NEW nb \in SUBSET Routers, NEW o \in Table,
         NEW c \in CostVector, NEW h \in [Routers -> Routers \cup {NoHop}],
         NEW D \in SUBSET Routers
  PROVE  /\ CostAfterLoss(me, nb, o, c, D) \in CostVector
         /\ HopAfterLoss(me, nb, o, h, D) \in [Routers -> Routers \cup {NoHop}]
<1> DEFINE S(i) == OverwritingStages(me, nb, o, D, i)
<1>1. ASSUME NEW i \in Routers, S(i) # {}
      PROVE  /\ Max(S(i)) \in D
             /\ LossStage(me, o, D, Max(S(i))) \in Table
             /\ ShorterVia(me, nb, LossStage(me, o, D, Max(S(i))), i)
  <2>1. S(i) \in SUBSET D
    BY DEF OverwritingStages
  <2>2. Max(S(i)) \in S(i)
    BY <1>1, <2>1, MaxProperty
  <2> QED
    BY <2>2, LossStageType DEF OverwritingStages
<1>2. ASSUME NEW i \in Routers, S(i) # {}
      PROVE  /\ MinCost(me, nb, LossStage(me, o, D, Max(S(i))), i) \in Cost
             /\ HopTo(me, nb, LossStage(me, o, D, Max(S(i))), i) \in Routers
  BY <1>1, <1>2, MinCostProperty, HopToProperty
<1>3. CostAfterLoss(me, nb, o, c, D) \in CostVector
  BY <1>2 DEF CostAfterLoss, CostVector
<1>4. HopAfterLoss(me, nb, o, h, D) \in [Routers -> Routers \cup {NoHop}]
  BY <1>2 DEF HopAfterLoss
<1> QED
  BY <1>3, <1>4

\* Giving up on nobody changes nothing.
LEMMA NoLoss ==
  ASSUME NEW me \in Routers, NEW nb, NEW o \in Table,
         NEW c \in CostVector, NEW h \in [Routers -> Routers \cup {NoHop}]
  PROVE  /\ WithoutLinks(me, o, {}) = o
         /\ CostAfterLoss(me, nb, o, c, {}) = c
         /\ HopAfterLoss(me, nb, o, h, {}) = h
<1>1. WithoutLinks(me, o, {}) = o
  BY DEF WithoutLinks, Table, CostVector
<1>2. \A i : OverwritingStages(me, nb, o, {}, i) = {}
  BY DEF OverwritingStages
<1> QED
  BY <1>1, <1>2 DEF CostAfterLoss, HopAfterLoss, CostVector

-----------------------------------------------------------------------------
(* The routes between two calls of set_new_timeout *)

\* No entry is dearer than the direct link, and where a path via a neighbour is
\* cheaper the entry is that path.
Settled(me, nb, o, c, h) ==
  \A i \in Routers :
    /\ c[i] <= o[me][i]
    /\ ShorterVia(me, nb, o, i) => /\ c[i] = MinCost(me, nb, o, i)
                                  /\ h[i] = HopTo(me, nb, o, i)

\* A recomputation settles the routes if no entry was dearer than its link.
LEMMA RecalculationSettles ==
  ASSUME NEW me \in Routers, NEW nb \in SUBSET (Routers \ {me}), NEW o \in Table,
         NEW c \in CostVector, NEW h \in [Routers -> Routers \cup {NoHop}],
         \A i \in Routers : c[i] <= o[me][i]
  PROVE  Settled(me, nb, o, RecalculatedCost(me, nb, o, c),
                 RecalculatedHop(me, nb, o, h))
<1> SUFFICES ASSUME NEW i \in Routers
             PROVE  /\ RecalculatedCost(me, nb, o, c)[i] <= o[me][i]
                    /\ ShorterVia(me, nb, o, i) =>
                         /\ RecalculatedCost(me, nb, o, c)[i] = MinCost(me, nb, o, i)
                         /\ RecalculatedHop(me, nb, o, h)[i] = HopTo(me, nb, o, i)
  BY DEF Settled
<1>1. CASE ShorterVia(me, nb, o, i)
  <2>1. HopTo(me, nb, o, i) # me
    BY <1>1, HopToProperty
  <2>2. o[me][i] \in Nat /\ MinCost(me, nb, o, i) \in Nat
    BY MinCostProperty, TableEntries, IdsAndCostsAreNaturals
  <2>3. MinCost(me, nb, o, i) <= o[me][i]
    BY <1>1, <2>2 DEF ShorterVia
  <2> QED
    BY <1>1, <2>1, <2>3 DEF RecalculatedCost, RecalculatedHop
<1>2. CASE ~ ShorterVia(me, nb, o, i)
  BY <1>2 DEF RecalculatedCost
<1> QED
  BY <1>1, <1>2

\* Giving up on neighbours, one after the other, leaves the routes settled.
LEMMA LossSettles ==
  ASSUME NEW me \in Routers, NEW nb \in SUBSET (Routers \ {me}), NEW o \in Table,
         NEW c \in CostVector, NEW h \in [Routers -> Routers \cup {NoHop}],
         NEW D \in SUBSET Routers,
         Settled(me, nb, o, c, h)
  PROVE  Settled(me, nb, WithoutLinks(me, o, D), CostAfterLoss(me, nb, o, c, D),
                 HopAfterLoss(me, nb, o, h, D))
<1> DEFINE o1 == WithoutLinks(me, o, D)
           S(i) == OverwritingStages(me, nb, o, D, i)
<1>1. CASE D = {}
  <2>1. o1 = o
    BY <1>1 DEF WithoutLinks, Table, CostVector
  <2>2. \A i \in Routers : S(i) = {}
    BY <1>1 DEF OverwritingStages
  <2>3. \A i \in Routers : /\ CostAfterLoss(me, nb, o, c, D)[i] = c[i]
                           /\ HopAfterLoss(me, nb, o, h, D)[i] = h[i]
    BY <1>1, <2>2 DEF CostAfterLoss, HopAfterLoss
  <2> QED
    BY <2>1, <2>3 DEF Settled
<1>2. ASSUME D # {}, NEW i \in Routers
      PROVE  /\ CostAfterLoss(me, nb, o, c, D)[i] <= o1[me][i]
             /\ ShorterVia(me, nb, o1, i) =>
                  /\ CostAfterLoss(me, nb, o, c, D)[i] = MinCost(me, nb, o1, i)
                  /\ HopAfterLoss(me, nb, o, h, D)[i] = HopTo(me, nb, o1, i)
  <2>1. /\ Max(D) \in D
        /\ \A d \in D : d <= Max(D)
    BY <1>2, MaxProperty
  <2>2. LossStage(me, o, D, Max(D)) = o1
    <3>1. {e \in D : e <= Max(D)} = D
      BY <2>1
    <3> QED
      BY <3>1 DEF LossStage
  <2>3. S(i) \in SUBSET D
    BY DEF OverwritingStages
  <2>4. CASE ShorterVia(me, nb, o1, i)
    <3>1. Max(D) \in S(i)
      BY <2>1, <2>2, <2>4 DEF OverwritingStages
    <3>2. Max(S(i)) \in S(i) /\ \A d \in S(i) : d <= Max(S(i))
      BY <2>3, <3>1, MaxProperty
    <3>3. Max(S(i)) = Max(D)
      <4>1. Max(S(i)) \in D /\ Max(D) <= Max(S(i)) /\ Max(S(i)) <= Max(D)
        BY <2>1, <2>3, <3>1, <3>2
      <4>2. Max(S(i)) \in Nat /\ Max(D) \in Nat
        BY <2>1, <4>1, IdsAndCostsAreNaturals
      <4> QED
        BY <4>1, <4>2
    <3>4. ~ (i \in D /\ Max(S(i)) < i)
      <4>1. Max(D) \in Nat /\ i \in Nat
        BY <2>1, IdsAndCostsAreNaturals
      <4> QED
        BY <2>1, <3>3, <4>1
    <3>5. o1 \in Table
      BY WithoutLinksType
    <3>6. HopTo(me, nb, o1, i) # me
      BY <2>4, <3>5, HopToProperty
    <3>7. CostAfterLoss(me, nb, o, c, D)[i] = MinCost(me, nb, o1, i)
      BY <2>2, <3>1, <3>3 DEF CostAfterLoss
    <3>8. HopAfterLoss(me, nb, o, h, D)[i] = HopTo(me, nb, o1, i)
      BY <2>2, <3>1, <3>3, <3>4, <3>6 DEF HopAfterLoss
    <3>9. MinCost(me, nb, o1, i) <= o1[me][i]
      <4>1. o1[me][i] \in Nat /\ MinCost(me, nb, o1, i) \in Nat
        BY <3>5, MinCostProperty, TableEntries, IdsAndCostsAreNaturals
      <4> QED
        BY <2>4, <4>1 DEF ShorterVia
    <3> QED
      BY <3>7, <3>8, <3>9
  <2>5. CASE ~ ShorterVia(me, nb, o1, i)
    <3>1. o[me][i] \in 0 .. Inf /\ o1[me][i] = IF i \in D THEN Inf ELSE o[me][i]
      BY DEF WithoutLinks, Table, CostVector, Cost
    <3>2. CASE S(i) = {}
      <4>1. CostAfterLoss(me, nb, o, c, D)[i] = c[i]
        BY <3>2 DEF CostAfterLoss
      <4>2. c[i] \in Nat /\ c[i] <= o[me][i]
        BY InfAssumption DEF Settled, CostVector, Cost
      <4> QED
        BY <2>5, <3>1, <4>1, <4>2, InfAssumption
    <3>3. CASE S(i) # {}
      <4> DEFINE stage == LossStage(me, o, D, Max(S(i)))
      <4>1. Max(S(i)) \in S(i)
        BY <2>3, <3>3, MaxProperty
      <4>2. ShorterVia(me, nb, stage, i) /\ stage \in Table
        BY <4>1, LossStageType DEF OverwritingStages
      <4>3. (stage[me][i] = Inf /\ i \in D) \/ stage[me][i] = o[me][i]
        BY DEF LossStage, WithoutLinks, Table, CostVector
      <4>4. CostAfterLoss(me, nb, o, c, D)[i] = MinCost(me, nb, stage, i)
        BY <3>3 DEF CostAfterLoss
      <4>5. MinCost(me, nb, stage, i) \in Nat
        BY <4>2, MinCostProperty, InfAssumption DEF Cost
      <4> HIDE DEF stage
      <4>6. MinCost(me, nb, stage, i) < stage[me][i]
        BY <3>1, <4>2, <4>3, <4>5, InfAssumption DEF ShorterVia
      <4> QED
        BY <2>5, <3>1, <4>3, <4>4, <4>5, <4>6, InfAssumption
    <3> QED
      BY <3>2, <3>3
  <2> QED
    BY <2>4, <2>5
<1> QED
  BY <1>1, <1>2 DEF Settled

-----------------------------------------------------------------------------
(* The shape of the entries *)

\* An entry without next hop is INF, except for the routers in G; a next hop is the
\* router itself for its own entry, and a neighbour for every other.  The neighbours
\* outside G have a next hop.
Shaped(me, nb, G, c, h) ==
  /\ \A i \in Routers :
       /\ h[i] = NoHop => c[i] = Inf \/ i \in G
       /\ h[i] # NoHop => h[i] \in (IF i = me THEN {me} ELSE nb)
  /\ \A i \in nb \ G : h[i] # NoHop

\* A recomputation keeps the shape: what it writes is a neighbour.
LEMMA RecalculationShapes ==
  ASSUME NEW me \in Routers, NEW nb \in SUBSET (Routers \ {me}), NEW o \in Table,
         NEW c \in CostVector, NEW h \in [Routers -> Routers \cup {NoHop}],
         NEW G \in SUBSET nb, o[me][me] = 0, Shaped(me, nb, G, c, h)
  PROVE  Shaped(me, nb, G, RecalculatedCost(me, nb, o, c), RecalculatedHop(me, nb, o, h))
<1> DEFINE c1 == RecalculatedCost(me, nb, o, c)
           h1 == RecalculatedHop(me, nb, o, h)
<1>1. ASSUME NEW i \in Routers, ShorterVia(me, nb, o, i)
      PROVE  h1[i] \in nb /\ h1[i] # NoHop /\ i # me
  <2>1. HopTo(me, nb, o, i) \in nb
    BY <1>1, HopToProperty
  <2>2. h1[i] = HopTo(me, nb, o, i)
    BY <1>1, <2>1 DEF RecalculatedHop
  <2>3. h1[i] # NoHop
    BY <2>1, <2>2, NAssumption DEF Routers, NoHop
  <2>4. MinCost(me, nb, o, i) \in Nat
    BY MinCostProperty, IdsAndCostsAreNaturals
  <2>5. i # me
    BY <1>1, <2>4 DEF ShorterVia
  <2> QED
    BY <2>1, <2>2, <2>3, <2>5
<1>2. ASSUME NEW i \in Routers, ~ ShorterVia(me, nb, o, i)
      PROVE  c1[i] = c[i] /\ h1[i] = h[i]
  BY <1>2 DEF RecalculatedCost, RecalculatedHop
<1> QED
  BY <1>1, <1>2 DEF Shaped

\* Giving up on neighbours adds them to G.
LEMMA LossShapes ==
  ASSUME NEW me \in Routers, NEW nb \in SUBSET (Routers \ {me}), NEW o \in Table,
         NEW c \in CostVector, NEW h \in [Routers -> Routers \cup {NoHop}],
         NEW G \in SUBSET nb, NEW D \in SUBSET nb,
         o[me][me] = 0, Shaped(me, nb, G, c, h)
  PROVE  Shaped(me, nb, G \cup D, CostAfterLoss(me, nb, o, c, D),
                HopAfterLoss(me, nb, o, h, D))
<1> DEFINE S(i) == OverwritingStages(me, nb, o, D, i)
           c1 == CostAfterLoss(me, nb, o, c, D)
           h1 == HopAfterLoss(me, nb, o, h, D)
<1>1. ASSUME NEW i \in Routers, S(i) # {}
      PROVE  i # me /\ (h1[i] \in nb \/ (h1[i] = NoHop /\ i \in D))
  <2> DEFINE stage == LossStage(me, o, D, Max(S(i)))
  <2>1. S(i) \in SUBSET D
    BY DEF OverwritingStages
  <2>2. Max(S(i)) \in S(i)
    BY <1>1, <2>1, MaxProperty
  <2>3. stage \in Table /\ ShorterVia(me, nb, stage, i)
    BY <2>1, <2>2, LossStageType DEF OverwritingStages
  <2>4. HopTo(me, nb, stage, i) \in nb /\ MinCost(me, nb, stage, i) \in Nat
    BY <2>3, HopToProperty, MinCostProperty, IdsAndCostsAreNaturals
  <2>5. stage[me][me] = 0
    BY DEF LossStage, WithoutLinks, Table, CostVector
  <2> HIDE DEF stage
  <2>6. i # me
    BY <2>3, <2>4, <2>5 DEF ShorterVia
  <2>7. h1[i] = HopTo(me, nb, stage, i) \/ (h1[i] = NoHop /\ i \in D)
    BY <1>1, <2>4 DEF HopAfterLoss, stage
  <2> QED
    BY <2>4, <2>6, <2>7
<1>2. ASSUME NEW i \in Routers, S(i) = {}
      PROVE  c1[i] = c[i] /\ h1[i] = IF i \in D THEN NoHop ELSE h[i]
  BY <1>2 DEF CostAfterLoss, HopAfterLoss
<1>3. NoHop \notin Routers
  BY NAssumption DEF Routers, NoHop
<1> HIDE DEF S
<1> QED
  BY <1>1, <1>2, <1>3 DEF Shaped

-----------------------------------------------------------------------------
(* The bookkeeping *)

\* The extra delay is a number of seconds.
LEMMA ExtraDelayType ==
  ASSUME NEW X \in SUBSET Routers, NEW i \in Routers
  PROVE  ExtraDelay(X, i) \in Nat
<1> DEFINE B == {j \in X : j < i}
<1>1. IsFiniteSet(0 .. N-1)
  BY FS_Interval, NAssumption
<1>2. IsFiniteSet(B)
  BY <1>1, FS_Subset, Zenon DEF Routers
<1>3. Rank(X, i) \in Nat
  BY <1>2, FS_CardinalityType DEF Rank
<1> QED
  BY <1>3 DEF ExtraDelay

\* The more entries have expired, the longer the extra delay of each.
LEMMA ExtraDelayMonotone ==
  ASSUME NEW Y \in SUBSET Routers, NEW X \in SUBSET Y, NEW i \in Routers
  PROVE  ExtraDelay(X, i) <= ExtraDelay(Y, i)
<1> DEFINE B == {j \in X : j < i}
           C == {j \in Y : j < i}
<1>1. IsFiniteSet(0 .. N-1)
  BY FS_Interval, NAssumption
<1>2. IsFiniteSet(C)
  BY <1>1, FS_Subset, Zenon DEF Routers
<1>3. B \in SUBSET C
  OBVIOUS
<1>4. /\ IsFiniteSet(B)
      /\ Cardinality(B) <= Cardinality(C)
  BY <1>2, <1>3, FS_Subset
<1>5. /\ Cardinality(B) \in Nat
      /\ Cardinality(C) \in Nat
  BY <1>2, <1>4, FS_CardinalityType
<1>6. \A a, b \in Nat : a <= b => a * (a + 1) <= b * (b + 1)
  <2> SUFFICES ASSUME NEW a \in Nat, NEW b \in Nat, a <= b
               PROVE  a * (a + 1) <= b * (b + 1)
    OBVIOUS
  <2>1. a * (a + 1) <= b * (a + 1)
    OBVIOUS
  <2>2. b * (a + 1) <= b * (b + 1)
    OBVIOUS
  <2>3. a * (a + 1) \in Nat /\ b * (a + 1) \in Nat /\ b * (b + 1) \in Nat
    OBVIOUS
  <2> QED
    BY <2>1, <2>2, <2>3
<1> QED
  BY <1>4, <1>5, <1>6 DEF ExtraDelay, Rank
=============================================================================
