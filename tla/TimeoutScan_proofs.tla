------------------------- MODULE TimeoutScan_proofs -------------------------
(***************************************************************************)
(* The walk of set_new_timeout through track_update_list and the operators *)
(* by which Router and DVNetwork take it in one step agree, for every list,*)
(* every table and every set of late entries.                              *)
(*                                                                         *)
(* The walk visits ascending table_ids.  So the invariant knows that all   *)
(* it has visited are smaller than all that is left; the next neighbour it *)
(* drops is the greatest of the dropped, the last stage of CostAfterLoss.  *)
(***************************************************************************)
EXTENDS TimeoutScan, DistanceVector_proofs

-----------------------------------------------------------------------------
(* Dropping one more neighbour, listed after those dropped before *)

\* The tables after D and d are one recomputation away from those after D.
LossStep(m, nb, o, c, h, D, d) ==
  LET o1 == WithoutLinks(m, o, D \cup {d})
  IN  /\ o1 = [WithoutLinks(m, o, D) EXCEPT ![m][d] = Inf]
      /\ CostAfterLoss(m, nb, o, c, D \cup {d}) =
           RecalculatedCost(m, nb, o1, CostAfterLoss(m, nb, o, c, D))
      /\ HopAfterLoss(m, nb, o, h, D \cup {d}) =
           RecalculatedHop(m, nb, o1, [HopAfterLoss(m, nb, o, h, D) EXCEPT ![d] = NoHop])

\* So they are if d is listed after the routers of D.
LEMMA OneMoreLoss ==
  ASSUME NEW m \in Routers, NEW nb \in SUBSET Routers, NEW o \in Table,
         NEW c \in CostVector, NEW h \in [Routers -> Routers \cup {NoHop}],
         NEW D \in SUBSET Routers, NEW d \in Routers, \A e \in D : e < d
  PROVE  LossStep(m, nb, o, c, h, D, d)
<1> DEFINE E == D \cup {d}
           o1 == WithoutLinks(m, o, E)
           S(i) == OverwritingStages(m, nb, o, D, i)
           T(i) == OverwritingStages(m, nb, o, E, i)
           c1 == CostAfterLoss(m, nb, o, c, D)
           h1 == HopAfterLoss(m, nb, o, h, D)
<1>1. E \in SUBSET Routers /\ d \in Nat /\ d \notin D
      /\ \A e \in E : e \in Nat /\ e <= d
  BY IdsAndCostsAreNaturals
<1>2. o1 = [WithoutLinks(m, o, D) EXCEPT ![m][d] = Inf]
  BY DEF WithoutLinks, Table, CostVector
<1>3. ASSUME NEW e \in D
      PROVE  LossStage(m, o, E, e) = LossStage(m, o, D, e)
  <2>1. {x \in E : x <= e} = {x \in D : x <= e}
    BY <1>1
  <2> QED
    BY <2>1 DEF LossStage
<1>4. LossStage(m, o, E, d) = o1
  <2>1. {x \in E : x <= d} = E
    BY <1>1
  <2> QED
    BY <2>1 DEF LossStage
<1>5. ASSUME NEW i \in Routers
      PROVE  /\ S(i) \in SUBSET D /\ T(i) \in SUBSET E
             /\ ShorterVia(m, nb, o1, i) => T(i) # {} /\ Max(T(i)) = d
             /\ ~ ShorterVia(m, nb, o1, i) => T(i) = S(i)
  <2>1. S(i) \in SUBSET D /\ T(i) \in SUBSET E
    BY DEF OverwritingStages
  <2>2. CASE ShorterVia(m, nb, o1, i)
    <3>1. d \in T(i)
      BY <1>4, <2>2 DEF OverwritingStages
    <3>2. Max(T(i)) \in T(i) /\ d <= Max(T(i))
      BY <1>1, <2>1, <3>1, MaxProperty
    <3>3. Max(T(i)) \in Nat /\ Max(T(i)) <= d
      BY <1>1, <2>1, <3>2
    <3> QED
      BY <1>1, <2>1, <2>2, <3>1, <3>2, <3>3
  <2>3. CASE ~ ShorterVia(m, nb, o1, i)
    <3>1. T(i) = S(i)
      BY <1>3, <1>4, <2>3 DEF OverwritingStages
    <3> QED
      BY <2>1, <2>3, <3>1
  <2> QED
    BY <2>2, <2>3
<1> HIDE DEF S, T, o1, E
<1>6. ASSUME NEW i \in Routers
      PROVE  CostAfterLoss(m, nb, o, c, E)[i] = RecalculatedCost(m, nb, o1, c1)[i]
  <2>1. CASE ShorterVia(m, nb, o1, i)
    <3>1. CostAfterLoss(m, nb, o, c, E)[i] = MinCost(m, nb, o1, i)
      BY <1>4, <1>5, <2>1 DEF CostAfterLoss, T
    <3> QED
      BY <2>1, <3>1 DEF RecalculatedCost
  <2>2. CASE ~ ShorterVia(m, nb, o1, i)
    <3>1. T(i) = S(i)
      BY <1>5, <2>2
    <3>2. S(i) # {} => Max(S(i)) \in D
      BY <1>5, MaxProperty
    <3>3. CostAfterLoss(m, nb, o, c, E)[i] = c1[i]
      BY <1>3, <3>1, <3>2 DEF CostAfterLoss, S, T
    <3> QED
      BY <2>2, <3>3 DEF RecalculatedCost
  <2> QED
    BY <2>1, <2>2
<1>7. ASSUME NEW i \in Routers
      PROVE  HopAfterLoss(m, nb, o, h, E)[i] =
               RecalculatedHop(m, nb, o1, [h1 EXCEPT ![d] = NoHop])[i]
  <2>1. CASE ShorterVia(m, nb, o1, i)
    <3>1. ~ (i \in E /\ d < i)
      BY <1>1, IdsAndCostsAreNaturals
    <3>2. HopAfterLoss(m, nb, o, h, E)[i] =
            IF HopTo(m, nb, o1, i) = m THEN i ELSE HopTo(m, nb, o1, i)
      BY <1>4, <1>5, <2>1, <3>1 DEF HopAfterLoss, T
    <3> QED
      BY <2>1, <3>2 DEF RecalculatedHop
  <2>2. CASE ~ ShorterVia(m, nb, o1, i)
    <3>1. T(i) = S(i)
      BY <1>5, <2>2
    <3>2. S(i) # {} => Max(S(i)) \in D
      BY <1>5, MaxProperty
    <3>3. RecalculatedHop(m, nb, o1, [h1 EXCEPT ![d] = NoHop])[i] = IF i = d THEN NoHop ELSE h1[i]
      BY <2>2 DEF RecalculatedHop, HopAfterLoss
    <3>4. CASE i = d
      <4>1. S(i) = {} \/ (i \in E /\ Max(S(i)) < i)
        BY <3>2, <3>4 DEF E
      <4> QED
        BY <3>1, <3>3, <3>4, <4>1 DEF HopAfterLoss, T, E
    <3>5. CASE i # d
      <4>1. i \in E <=> i \in D
        BY <3>5 DEF E
      <4> QED
        BY <1>3, <3>1, <3>2, <3>3, <3>5, <4>1 DEF HopAfterLoss, S, T
    <3> QED
      BY <3>4, <3>5
  <2> QED
    BY <2>1, <2>2
<1>8. CostAfterLoss(m, nb, o, c, E) = RecalculatedCost(m, nb, o1, c1)
  BY <1>6 DEF CostAfterLoss, RecalculatedCost
<1>9. HopAfterLoss(m, nb, o, h, E) = RecalculatedHop(m, nb, o1, [h1 EXCEPT ![d] = NoHop])
  BY <1>7 DEF HopAfterLoss, RecalculatedHop
<1> QED
  BY <1>2, <1>8, <1>9 DEF E, o1, LossStep

-----------------------------------------------------------------------------
(* The invariant of the walk *)

WalkTypes ==
  /\ start.tracked \in SUBSET Routers
  /\ start.orig \in Table
  /\ start.cost \in CostVector
  /\ start.hop \in [Routers -> Routers \cup {NoHop}]
  /\ start.missed \in [Routers -> Nat]
  /\ rearmed \in [Routers -> Int]

\* What is left of the list comes after what was visited.
InOrder ==
  /\ list \subseteq start.tracked
  /\ \A r \in start.tracked \ list, q \in list : r < q

\* How often the entries reached have moved next_time and delay.
DelaysGrow ==
  LET k == Cardinality(Reached)
  IN  /\ delay = 2 * k
      /\ next_time = Interval + k * (k - 1)

\* The vector announced: that of the losses listed before this router.
Announced == CostAfterLoss(me, nbrs, start.orig, start.cost, {d \in Dropped : d < me})

SentInv == sent = IF me \in Reached THEN Packet(router_list, me, Announced) ELSE NotSent

WalkInv ==
  /\ WalkTypes /\ InOrder
  /\ TablesAgree /\ TimersAgree
  /\ DelaysGrow /\ SentInv

\* The neighbours dropped are among the entries reached, and these in the list.
LEMMA ReachedTypes ==
  ASSUME WalkTypes
  PROVE  /\ Reached \in SUBSET Routers /\ Dropped \in SUBSET Routers
         /\ Dropped \in SUBSET Reached
         /\ IsFiniteSet(Reached) /\ Cardinality(Reached) \in Nat
<1>1. Reached \in SUBSET Routers /\ Dropped \in SUBSET Reached
  BY DEF WalkTypes, Reached, Dropped, GivenUp
<1>2. IsFiniteSet(Routers)
  <2>1. IsFiniteSet(0 .. N-1)
    BY FS_Interval, NAssumption
  <2> QED
    BY <2>1 DEF Routers
<1> QED
  BY <1>1, <1>2, FS_Subset, FS_CardinalityType

\* The tables of the walk have their types, since they agree.
LEMMA WalkTables ==
  ASSUME WalkTypes, TablesAgree
  PROVE  /\ me \in Routers /\ nbrs \in SUBSET Routers
         /\ orig \in Table /\ cost \in CostVector
         /\ hop \in [Routers -> Routers \cup {NoHop}]
<1>1. me \in Routers /\ nbrs \in SUBSET Routers /\ Dropped \in SUBSET Routers
  BY MeAssumption, NbrsAssumption, ReachedTypes
<1> QED
  BY <1>1, WithoutLinksType, AfterLossType DEF TablesAgree, WalkTypes

\* Nothing is reached before the walk.
LEMMA InitWalk == Init => WalkInv
<1> SUFFICES ASSUME Init PROVE WalkInv
  OBVIOUS
<1>1. start = [orig |-> orig, cost |-> cost, hop |-> hop, missed |-> missed,
               tracked |-> tracked]
  BY DEF Init
<1>2. /\ orig \in Table /\ cost \in CostVector
      /\ hop \in [Routers -> Routers \cup {NoHop}]
      /\ missed \in [Routers -> Nat]
      /\ tracked \in SUBSET Routers /\ list = tracked
  BY StartAssumption, MeAssumption, NbrsAssumption DEF Init, Table, MissLimit
<1>3. rearmed \in [Routers -> Int]
  BY DEF Init
<1>4. WalkTypes /\ InOrder
  BY <1>1, <1>2, <1>3 DEF WalkTypes, InOrder
<1>5. Reached = {} /\ Dropped = {}
  BY <1>1, <1>2 DEF Reached, Dropped, GivenUp
<1>6. TablesAgree
  <2>1. me \in Routers /\ nbrs \in SUBSET Routers
    BY MeAssumption, NbrsAssumption
  <2>2. /\ WithoutLinks(me, orig, {}) = orig
        /\ CostAfterLoss(me, nbrs, orig, cost, {}) = cost
        /\ HopAfterLoss(me, nbrs, orig, hop, {}) = hop
    BY <1>2, <2>1, NoLoss
  <2> QED
    BY <1>1, <1>5, <2>2 DEF TablesAgree
<1>7. TimersAgree
  BY <1>1, <1>2, <1>5 DEF TimersAgree, MissedAfter
<1>8. DelaysGrow
  <2>1. Cardinality(Reached) = 0
    BY <1>5, FS_EmptySet
  <2> QED
    BY <2>1, IntervalAssumption DEF Init, DelaysGrow
<1>9. SentInv
  BY <1>5 DEF Init, SentInv
<1> QED
  BY <1>4, <1>6, <1>7, <1>8, <1>9 DEF WalkInv

\* Every step reaches the least entry of the rest.
LEMMA StepReaches ==
  ASSUME WalkTypes, InOrder, Next
  PROVE  /\ Here \in Routers /\ Here \notin Reached
         /\ \A r \in Reached : r < Here
         /\ Reached' = IF late[Here] THEN Reached \cup {Here} ELSE Reached
         /\ InOrder'
         /\ UNCHANGED <<late, start>>
<1>1. list # {} /\ list' = list \ {Here} /\ UNCHANGED <<late, start>>
  BY DEF Next
<1>2. list \in SUBSET Routers /\ list \in SUBSET Nat
  BY IdsAndCostsAreNaturals DEF InOrder, WalkTypes
<1>3. Here \in list /\ \A q \in list : Here <= q
  BY <1>1, <1>2, MinProperty DEF Here
<1>4. Here \in Routers /\ Here \notin Reached /\ \A r \in Reached : r < Here
  BY <1>2, <1>3 DEF Reached, InOrder
<1>5. start'.tracked \ list' = (start.tracked \ list) \cup {Here}
  BY <1>1, <1>3 DEF InOrder
<1>6. Reached' = IF late[Here] THEN Reached \cup {Here} ELSE Reached
  BY <1>1, <1>5 DEF Reached
<1>7. InOrder'
  <2>1. \A q \in list' : Here < q
    BY <1>1, <1>2, <1>3
  <2> QED
    BY <1>1, <1>3, <1>5, <2>1 DEF InOrder
<1> QED
  BY <1>1, <1>4, <1>6, <1>7

\* The neighbours dropped are those whose third miss the step has seen.
LEMMA StepDrops ==
  ASSUME WalkTypes, InOrder, TimersAgree, Next
  PROVE  /\ missed[Here] = start.missed[Here] /\ missed[Here] \in Nat
         /\ Dropped' = IF late[Here] /\ Here # me /\ missed[Here] + 1 >= MissLimit
                       THEN Dropped \cup {Here} ELSE Dropped
         /\ Here \notin Dropped /\ \A d \in Dropped : d < Here
<1>1. /\ Here \in Routers /\ Here \notin Reached
      /\ \A r \in Reached : r < Here
      /\ Reached' = IF late[Here] THEN Reached \cup {Here} ELSE Reached
      /\ start' = start
  BY StepReaches
<1>2. missed[Here] = start.missed[Here] /\ missed[Here] \in Nat
  BY <1>1 DEF TimersAgree, MissedAfter, WalkTypes
<1> QED
  BY <1>1, <1>2, ReachedTypes DEF Dropped, GivenUp

\* An entry that expired is re-armed, later than the one before.
LEMMA RearmAgrees ==
  ASSUME WalkTypes, InOrder, TimersAgree, DelaysGrow, Next, late[Here], Rearm
  PROVE  /\ rearmed' \in [Routers -> Int]
         /\ \A r \in Reached' : rearmed'[r] = Interval + ExtraDelay(Reached', r)
         /\ DelaysGrow'
<1>1. /\ Here \in Routers /\ Here \notin Reached
      /\ \A r \in Reached : r < Here
      /\ Reached' = Reached \cup {Here}
  BY StepReaches
<1>2. Reached \in SUBSET Routers /\ IsFiniteSet(Reached) /\ Cardinality(Reached) \in Nat
  BY ReachedTypes
<1> DEFINE k == Cardinality(Reached)
<1>3. k \in Nat /\ Cardinality(Reached') = k + 1
  BY <1>1, <1>2, FS_AddElement
<1>4. delay = 2 * k /\ next_time = Interval + k * (k - 1)
  BY DEF DelaysGrow
<1>5. /\ next_time' = next_time + delay /\ delay' = delay + 2
      /\ rearmed' = [rearmed EXCEPT ![Here] = next_time + delay]
  BY DEF Rearm
<1>6. Interval \in Nat
  BY IntervalAssumption
<1>7. \A r \in Routers : r \in Nat
  BY IdsAndCostsAreNaturals
<1>8. Rank(Reached', Here) = k
  <2>1. {j \in Reached' : j < Here} = Reached
    BY <1>1, <1>2, <1>7
  <2> QED
    BY <2>1 DEF Rank
<1>9. ASSUME NEW r \in Reached
      PROVE  Rank(Reached', r) = Rank(Reached, r)
  <2>1. {j \in Reached' : j < r} = {j \in Reached : j < r}
    <3>1. ~ (Here < r)
      BY <1>1, <1>2, <1>7
    <3> QED
      BY <1>1, <3>1
  <2> QED
    BY <2>1 DEF Rank
<1> HIDE DEF k
<1>10. k * (k - 1) + 2 * k = k * (k + 1) /\ k * (k - 1) \in Int /\ k * (k + 1) \in Nat
  BY <1>3
<1>11. next_time + delay = Interval + k * (k + 1) /\ next_time + delay \in Int
  BY <1>4, <1>6, <1>10
<1>12. DelaysGrow'
  <2>1. delay' = 2 * (k + 1)
    BY <1>3, <1>4, <1>5
  <2>2. next_time' = Interval + (k + 1) * ((k + 1) - 1)
    <3>1. (k + 1) - 1 = k /\ (k + 1) * k = k * (k + 1)
      BY <1>3
    <3> QED
      BY <1>5, <1>11, <3>1
  <2>3. Interval' = Interval
    OBVIOUS
  <2> QED
    BY <1>3, <2>1, <2>2 DEF DelaysGrow
<1>13. rearmed' \in [Routers -> Int]
  BY <1>5, <1>11 DEF WalkTypes
<1>14. ASSUME NEW r \in Reached'
       PROVE  rearmed'[r] = Interval + ExtraDelay(Reached', r)
  <2>1. CASE r = Here
    <3>1. rearmed'[r] = next_time + delay
      BY <1>1, <1>5, <2>1 DEF WalkTypes
    <3> QED
      BY <1>8, <1>11, <2>1, <3>1 DEF ExtraDelay
  <2>2. CASE r # Here
    <3>1. r \in Reached /\ rearmed'[r] = rearmed[r]
      BY <1>1, <1>2, <1>5, <1>14, <2>2 DEF WalkTypes
    <3>2. rearmed[r] = Interval + ExtraDelay(Reached, r)
      BY <3>1 DEF TimersAgree
    <3> QED
      BY <1>9, <3>1, <3>2 DEF ExtraDelay
  <2> QED
    BY <2>1, <2>2
<1> QED
  BY <1>12, <1>13, <1>14

\* An entry in time changes nothing.
LEMMA InTimeWalk ==
  ASSUME WalkInv, Next, InTime
  PROVE  WalkInv'
<1>1. /\ ~ late[Here]
      /\ UNCHANGED <<tracked, orig, cost, hop, missed, next_time, delay, rearmed, sent>>
  BY DEF InTime, tables
<1>2. WalkTypes /\ InOrder /\ TablesAgree /\ TimersAgree /\ DelaysGrow /\ SentInv
  BY DEF WalkInv
<1>3. UNCHANGED <<Reached, late, start>> /\ InOrder'
  BY <1>1, <1>2, StepReaches
<1>4. UNCHANGED Dropped
  BY <1>3 DEF Dropped
<1>5. WalkTypes'
  BY <1>1, <1>2, <1>3 DEF WalkTypes
<1>6. TablesAgree'
  BY <1>1, <1>2, <1>3, <1>4 DEF TablesAgree
<1>7. TimersAgree'
  BY <1>1, <1>2, <1>3, <1>4 DEF TimersAgree
<1>8. DelaysGrow' /\ SentInv'
  BY <1>1, <1>2, <1>3, <1>4 DEF DelaysGrow, SentInv, Announced
<1> QED
  BY <1>3, <1>5, <1>6, <1>7, <1>8 DEF WalkInv

\* This router's own entry announces what the walk has found so far.
LEMMA AnnounceSelfWalk ==
  ASSUME WalkInv, Next, AnnounceSelf
  PROVE  WalkInv'
<1>1. /\ late[Here] /\ Here = me /\ Rearm
      /\ sent' = Packet(router_list, me, cost)
      /\ UNCHANGED <<tracked, orig, cost, hop, missed>>
  BY DEF AnnounceSelf, tables
<1>2. WalkTypes /\ InOrder /\ TablesAgree /\ TimersAgree /\ DelaysGrow /\ SentInv
  BY DEF WalkInv
<1>3. /\ Reached' = Reached \cup {me} /\ me \in Routers /\ me \notin Reached
      /\ UNCHANGED <<late, start>> /\ InOrder'
  BY <1>1, <1>2, StepReaches
<1>4. Dropped' = Dropped /\ \A d \in Dropped : d < me
  BY <1>1, <1>2, StepDrops
<1>5. /\ rearmed' \in [Routers -> Int]
      /\ \A r \in Reached' : rearmed'[r] = Interval + ExtraDelay(Reached', r)
      /\ DelaysGrow'
  BY <1>1, <1>2, RearmAgrees
<1>6. WalkTypes'
  BY <1>2, <1>3, <1>5 DEF WalkTypes
<1>7. TablesAgree'
  BY <1>1, <1>2, <1>3, <1>4 DEF TablesAgree
<1>8. TimersAgree'
  <2>1. missed = MissedAfter(me, Reached, start.missed) /\ tracked = start.tracked \ Dropped
    BY <1>2 DEF TimersAgree
  <2>2. MissedAfter(me, Reached', start.missed) = MissedAfter(me, Reached, start.missed)
    BY <1>3 DEF MissedAfter
  <2> QED
    BY <1>1, <1>3, <1>4, <1>5, <2>1, <2>2 DEF TimersAgree
<1>9. SentInv'
  <2>1. {d \in Dropped : d < me} = Dropped
    BY <1>4
  <2>2. Announced' = cost
    BY <1>2, <1>3, <1>4, <2>1 DEF TablesAgree, Announced
  <2> QED
    BY <1>1, <1>3, <2>2 DEF SentInv
<1> QED
  BY <1>3, <1>5, <1>6, <1>7, <1>8, <1>9 DEF WalkInv

\* A miss, and a third one, of a neighbour.
LEMMA MissWalk ==
  ASSUME WalkInv, Next, Miss \/ GiveUp
  PROVE  WalkInv'
<1> DEFINE third == missed[Here] + 1 >= MissLimit
           o == [orig EXCEPT ![me][Here] = Inf]
<1>1. /\ late[Here] /\ Here # me /\ Rearm
      /\ missed' = [missed EXCEPT ![Here] = missed[Here] + 1]
      /\ sent' = sent
  BY DEF Miss, GiveUp
<1>2. WalkTypes /\ InOrder /\ TablesAgree /\ TimersAgree /\ DelaysGrow /\ SentInv
  BY DEF WalkInv
<1>3. /\ Reached' = Reached \cup {Here} /\ Here \in Routers /\ Here \notin Reached
      /\ \A r \in Reached : r < Here
      /\ UNCHANGED <<late, start>> /\ InOrder'
  BY <1>1, <1>2, StepReaches
<1>4. /\ missed[Here] = start.missed[Here] /\ missed[Here] \in Nat
      /\ Dropped' = IF third THEN Dropped \cup {Here} ELSE Dropped
      /\ \A d \in Dropped : d < Here
  BY <1>1, <1>2, StepDrops
<1>5. /\ rearmed' \in [Routers -> Int]
      /\ \A r \in Reached' : rearmed'[r] = Interval + ExtraDelay(Reached', r)
      /\ DelaysGrow'
  BY <1>1, <1>2, RearmAgrees
<1>6. WalkTypes'
  BY <1>2, <1>3, <1>5 DEF WalkTypes
<1>7. /\ ~ third => UNCHANGED <<tracked, orig, cost, hop>>
      /\ third => /\ tracked' = tracked \ {Here}
                  /\ orig' = o
                  /\ cost' = RecalculatedCost(me, nbrs, o, cost)
                  /\ hop' = RecalculatedHop(me, nbrs, o, [hop EXCEPT ![Here] = NoHop])
  <2>1. missed[Here] + 1 \in Nat /\ MissLimit \in Nat
    BY <1>4 DEF MissLimit
  <2>2. CASE Miss
    <3>1. ~ third
      BY <2>1, <2>2 DEF Miss
    <3> QED
      BY <2>2, <3>1 DEF Miss, tables
  <2>3. CASE GiveUp
    BY <2>3 DEF GiveUp
  <2> QED
    BY <2>2, <2>3
<1>8. TablesAgree'
  <2>1. CASE ~ third
    BY <1>2, <1>3, <1>4, <1>7, <2>1 DEF TablesAgree
  <2>2. CASE third
    <3>1. /\ me \in Routers /\ nbrs \in SUBSET Routers /\ Dropped \in SUBSET Routers
          /\ start.orig \in Table /\ start.cost \in CostVector
          /\ start.hop \in [Routers -> Routers \cup {NoHop}]
      BY <1>2, ReachedTypes, WalkTables DEF WalkTypes
    <3>2. /\ orig = WithoutLinks(me, start.orig, Dropped)
          /\ cost = CostAfterLoss(me, nbrs, start.orig, start.cost, Dropped)
          /\ hop = HopAfterLoss(me, nbrs, start.orig, start.hop, Dropped)
      BY <1>2 DEF TablesAgree
    <3>3. LossStep(me, nbrs, start.orig, start.cost, start.hop, Dropped, Here)
      BY <1>3, <1>4, <3>1, OneMoreLoss
    <3>4. o = WithoutLinks(me, start.orig, Dropped \cup {Here})
      BY <3>2, <3>3 DEF LossStep
    <3>5. /\ RecalculatedCost(me, nbrs, o, cost)
               = CostAfterLoss(me, nbrs, start.orig, start.cost, Dropped \cup {Here})
          /\ RecalculatedHop(me, nbrs, o, [hop EXCEPT ![Here] = NoHop])
               = HopAfterLoss(me, nbrs, start.orig, start.hop, Dropped \cup {Here})
      <4> HIDE DEF o
      <4> QED
        BY <3>2, <3>3, <3>4 DEF LossStep
    <3> HIDE DEF o, third
    <3> QED
      BY <1>3, <1>4, <1>7, <2>2, <3>4, <3>5 DEF TablesAgree
  <2> QED
    BY <2>1, <2>2
<1>9. TimersAgree'
  <2>1. missed = MissedAfter(me, Reached, start.missed) /\ tracked = start.tracked \ Dropped
    BY <1>2 DEF TimersAgree
  <2>2. missed' = MissedAfter(me, Reached', start.missed)
    BY <1>1, <1>3, <1>4, <2>1 DEF MissedAfter
  <2>3. tracked' = start.tracked \ Dropped'
    BY <1>4, <1>7, <2>1
  <2> QED
    BY <1>3, <1>5, <2>2, <2>3 DEF TimersAgree
<1>10. SentInv'
  <2>1. me \in Reached' <=> me \in Reached
    BY <1>1, <1>3
  <2>2. CASE me \notin Reached
    BY <1>1, <1>2, <2>1, <2>2 DEF SentInv
  <2>3. CASE me \in Reached
    <3>1. ~ (Here < me)
      BY <1>3, <2>3, MeAssumption, IdsAndCostsAreNaturals
    <3>2. {d \in Dropped' : d < me} = {d \in Dropped : d < me}
      BY <1>4, <3>1
    <3>3. Announced' = Announced
      BY <1>3, <3>2 DEF Announced
    <3> QED
      BY <1>1, <1>2, <2>1, <3>3 DEF SentInv
  <2> QED
    BY <2>2, <2>3
<1> QED
  BY <1>3, <1>5, <1>6, <1>8, <1>9, <1>10 DEF WalkInv

LEMMA NextWalk == WalkInv /\ [Next]_vars => WalkInv'
<1> SUFFICES ASSUME WalkInv, [Next]_vars PROVE WalkInv'
  OBVIOUS
<1>1. CASE Next
  BY <1>1, InTimeWalk, AnnounceSelfWalk, MissWalk DEF Next
<1>2. CASE UNCHANGED vars
  <2>1. UNCHANGED <<Reached, Dropped>>
    BY <1>2 DEF vars, Reached, Dropped
  <2>2. UNCHANGED Announced
    BY <1>2, <2>1 DEF vars, Announced
  <2> QED
    BY <1>2, <2>1, <2>2 DEF vars, tables, WalkInv, WalkTypes, InOrder, TablesAgree,
       TimersAgree, DelaysGrow, SentInv
<1> QED
  BY <1>1, <1>2

LEMMA Walks == Spec => []WalkInv
BY InitWalk, NextWalk, PTL DEF Spec

\* At every point of the walk the tables are those of CostAfterLoss and HopAfterLoss
\* for the neighbours dropped so far.
THEOREM WalkKeepsTables == Spec => []TablesAgree
<1>1. WalkInv => TablesAgree
  BY DEF WalkInv
<1> QED
  BY <1>1, Walks, PTL

\* The misses, the list and the new deadlines are those of MissedAfter, GivenUp and
\* ExtraDelay.
THEOREM WalkKeepsTimers == Spec => []TimersAgree
<1>1. WalkInv => TimersAgree
  BY DEF WalkInv
<1> QED
  BY <1>1, Walks, PTL

-----------------------------------------------------------------------------
(* What a receiver reads from the announcement *)

\* A list without repetitions of n of n things has them all.
LEMMA NoneMissing ==
  ASSUME NEW n \in Nat, NEW p \in [1 .. n -> 1 .. n],
         \A i, j \in 1 .. n : p[i] = p[j] => i = j,
         NEW k \in 1 .. n
  PROVE  \E i \in 1 .. n : p[i] = k
<1> SUFFICES ASSUME \A i \in 1 .. n : p[i] # k PROVE FALSE
  OBVIOUS
<1> DEFINE I == 1 .. n
           J == I \ {k}
<1>1. IsFiniteSet(I) /\ Cardinality(I) \in Nat /\ k \in I
  BY FS_Interval, FS_CardinalityType
<1>2. p \in [I -> J]
  OBVIOUS
<1>3. \A i, j \in I : p[i] = p[j] => i = j
  OBVIOUS
<1> HIDE DEF I
<1>4. IsFiniteSet(J) /\ Cardinality(J) = Cardinality(I) - 1
  BY <1>1, FS_RemoveElement
<1>5. Cardinality(J) < Cardinality(I)
  BY <1>1, <1>4
<1> HIDE DEF J
<1>6. \E i, j \in I : i # j /\ p[i] = p[j]
  BY <1>1, <1>2, <1>4, <1>5, FS_PigeonHole
<1> QED
  BY <1>3, <1>6

\* A packet of this router, read with another list of the same routers: the sender is
\* this router, and every cost is that of the router it was written for.
LEMMA PacketRead ==
  ASSUME NEW vec \in CostVector, NEW theirs \in OtherLists, NEW row
  PROVE  LET p == Packet(router_list, me, vec)
         IN  /\ Entry(theirs, Sender(theirs, p)) = Entry(router_list, me)
             /\ \A t, r \in Routers :
                  Entry(theirs, t) = Entry(router_list, r) => Row(theirs, p, row)[t] = vec[r]
<1> DEFINE p == Packet(router_list, me, vec)
<1>1. N \in Nat \ {0} /\ Short \in Nat /\ N < Short /\ Inf \in Nat /\ Inf < Short
      /\ Len(router_list) = N
  BY NAssumption, InfAssumption, ShortAssumption, ListAssumption
<1>2. PICK q \in [1 .. N -> 1 .. N] : /\ \A i, j \in 1 .. N : q[i] = q[j] => i = j
                                    /\ theirs = [i \in 1 .. N |-> router_list[q[i]]]
  BY DEF OtherLists
<1>3. /\ Len(theirs) = N /\ TableIds(theirs) = Routers
      /\ \A t \in Routers : /\ t + 1 \in 1 .. N /\ q[t + 1] \in 1 .. N
                           /\ Entry(theirs, t) = router_list[q[t + 1]]
  BY <1>1, <1>2 DEF TableIds, Routers, Entry
<1>4. ASSUME NEW i \in 1 .. N
      PROVE  \E t \in Routers : q[t + 1] = i
  <2>1. PICK j \in 1 .. N : q[j] = i
    <3>1. N \in Nat /\ q \in [1 .. N -> 1 .. N] /\ \A a, b \in 1 .. N : q[a] = q[b] => a = b
      BY <1>1, <1>2
    <3> QED
      BY <3>1, NoneMissing
  <2>2. j - 1 \in Routers /\ (j - 1) + 1 = j
    BY <1>1 DEF Routers
  <2> QED
    BY <2>1, <2>2
<1>5. ASSUME NEW i \in 1 .. N, NEW j \in 1 .. N
      PROVE  /\ router_list[i].router_id \in Nat /\ router_list[i].router_id < Short
             /\ router_list[i].router_id = router_list[j].router_id => i = j
             /\ router_list[i].router_ip = router_list[j].router_ip => i = j
  <2>1. /\ router_list[i].router_id \in 0 .. Short-1
        /\ router_list[i].router_id = router_list[j].router_id => i = j
        /\ router_list[i].router_ip = router_list[j].router_ip => i = j
    BY ListAssumption
  <2>2. \A x \in 0 .. Short-1 : x \in Nat /\ x < Short
    BY <1>1
  <2> QED
    BY <2>1, <2>2
<1>6. /\ p.num_update_fields = N
      /\ p.source_ip = router_list[me + 1].router_ip
      /\ \A i \in 1 .. N : /\ p.fields[i].router_id = router_list[i].router_id
                          /\ p.fields[i].cost = vec[i - 1]
  <2>1. N % Short = N
    BY <1>1
  <2>2. \A i \in 1 .. N : i - 1 \in Routers
    BY <1>1 DEF Routers
  <2>3. \A i \in 1 .. N : vec[i - 1] \in Nat /\ vec[i - 1] < Short
    BY <1>1, <2>2 DEF CostVector, Cost
  <2>4. ASSUME NEW i \in 1 .. N
        PROVE  /\ router_list[i].router_id % Short = router_list[i].router_id
               /\ vec[i - 1] % Short = vec[i - 1]
    <3>1. \A x \in Nat : x < Short => x % Short = x
      BY <1>1
    <3> QED
      BY <1>5, <2>3, <3>1
  <2> QED
    BY <1>1, <2>1, <2>4 DEF Packet, Entry
<1> HIDE DEF p
<1>7. me \in Routers /\ me + 1 \in 1 .. N
  BY <1>1, MeAssumption DEF Routers
<1>8. Entry(theirs, Sender(theirs, p)) = Entry(router_list, me)
  <2> DEFINE S == {t \in TableIds(theirs) : Entry(theirs, t).router_ip = p.source_ip}
  <2>1. PICK t \in Routers : q[t + 1] = me + 1
    BY <1>4, <1>7
  <2>2. t \in S
    BY <1>3, <1>6, <2>1
  <2>3. S \in SUBSET Nat
    BY <1>3, IdsAndCostsAreNaturals
  <2>4. Min(S) \in S
    BY <2>2, <2>3, MinProperty
  <2>5. Sender(theirs, p) = Min(S)
    BY DEF Sender
  <2>6. Entry(theirs, Min(S)) = router_list[q[Min(S) + 1]] /\ q[Min(S) + 1] = me + 1
    BY <1>3, <1>5, <1>6, <1>7, <2>4
  <2> QED
    BY <2>5, <2>6 DEF Entry
<1>9. ASSUME NEW i \in 1 .. N, NEW t \in Routers
      PROVE  TableIdOf(theirs, p.fields[i]) = t <=> q[t + 1] = i
  <2> DEFINE S == {u \in TableIds(theirs) : Entry(theirs, u).router_id = p.fields[i].router_id}
  <2>1. PICK u \in Routers : q[u + 1] = i
    BY <1>4
  <2>2. u \in S
    BY <1>3, <1>6, <2>1
  <2>3. S \in SUBSET Nat
    BY <1>3, IdsAndCostsAreNaturals
  <2>4. Min(S) \in S
    BY <2>2, <2>3, MinProperty
  <2>5. TableIdOf(theirs, p.fields[i]) = Min(S)
    BY DEF TableIdOf
  <2>6. ASSUME NEW v \in S PROVE v \in Routers /\ q[v + 1] = i
    <3>1. v \in Routers /\ Entry(theirs, v).router_id = router_list[i].router_id
      BY <1>3, <1>6
    <3>2. q[v + 1] \in 1 .. N /\ router_list[q[v + 1]].router_id = router_list[i].router_id
      BY <1>3, <3>1
    <3> QED
      BY <1>5, <3>1, <3>2
  <2>7. \A v, w \in Routers : q[v + 1] = q[w + 1] => v = w
    <3>1. \A v, w \in Routers : q[v + 1] = q[w + 1] => v + 1 = w + 1
      BY <1>2, <1>3
    <3> QED
      BY <3>1, IdsAndCostsAreNaturals
  <2> HIDE DEF S
  <2> QED
    BY <2>4, <2>5, <2>6, <2>7
<1>10. ASSUME NEW t \in Routers, NEW r \in Routers,
              Entry(theirs, t) = Entry(router_list, r)
       PROVE  Row(theirs, p, row)[t] = vec[r]
  <2>1. r + 1 \in 1 .. N /\ (r + 1) - 1 = r
    BY <1>1 DEF Routers
  <2>2. q[t + 1] = r + 1
    BY <1>3, <1>5, <1>10, <2>1 DEF Entry
  <2> DEFINE F == {i \in 1 .. p.num_update_fields : TableIdOf(theirs, p.fields[i]) = t}
  <2>3. F = {r + 1}
    BY <1>6, <1>9, <2>1, <2>2
  <2>4. Max({r + 1}) = r + 1
    BY <2>1 DEF Max
  <2>5. Row(theirs, p, row)[t] = p.fields[r + 1].cost
    BY <1>3, <2>3, <2>4 DEF Row
  <2> QED
    BY <1>6, <2>1, <2>5
<1> QED
  BY <1>8, <1>10 DEF p

\* What any receiver reads from the packet of the walk, however its own list of the
\* routers is ordered, is the vector of the losses listed before this router.
THEOREM AnnouncementIsRead == Spec => []AnnouncementAgrees
<1>1. ASSUME WalkInv PROVE AnnouncementAgrees
  <2>1. Announced \in CostVector
    <3>1. /\ {d \in Dropped : d < me} \in SUBSET Routers
          /\ me \in Routers /\ nbrs \in SUBSET Routers
          /\ start.orig \in Table /\ start.cost \in CostVector
          /\ start.hop \in [Routers -> Routers \cup {NoHop}]
      BY <1>1, ReachedTypes, WalkTables DEF WalkInv, WalkTypes
    <3> QED
      BY <3>1, AfterLossType DEF Announced
  <2>2. SentInv
    BY <1>1 DEF WalkInv
  <2>3. CASE me \notin Reached
    BY <2>2, <2>3 DEF SentInv, AnnouncementAgrees
  <2>4. CASE me \in Reached
    <3>1. sent = Packet(router_list, me, Announced)
      BY <2>2, <2>4 DEF SentInv
    <3>2. ASSUME NEW theirs \in OtherLists
          PROVE  /\ Entry(theirs, Sender(theirs, sent)) = Entry(router_list, me)
                 /\ \A t, r \in Routers :
                      Entry(theirs, t) = Entry(router_list, r)
                        => Row(theirs, sent, [i \in Routers |-> Inf])[t] = Announced[r]
      BY <2>1, <3>1, PacketRead
    <3> QED
      BY <2>4, <3>2 DEF AnnouncementAgrees, Announced
  <2> QED
    BY <2>3, <2>4
<1> QED
  BY <1>1, Walks, PTL
=============================================================================
