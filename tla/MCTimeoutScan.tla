---------------------------- MODULE MCTimeoutScan ----------------------------
(* An instance of TimeoutScan for TLC: four routers, all neighbours of router 1, *)
(* so that neighbours are listed on both sides of it.                            *)
EXTENDS TimeoutScan

MCList == <<[router_id |-> 3, router_ip |-> "a"], [router_id |-> 1, router_ip |-> "b"],
            [router_id |-> 4, router_ip |-> "c"], [router_id |-> 2, router_ip |-> "d"]>>
MCNbrs == {0, 2, 3}

\* Vectors of r whose entries for the other neighbours are in S.
VectorsOver(r, S) ==
  {v \in [Routers -> S \cup {0, 1}] :
     /\ v[r] = 0
     /\ r # me => v[me] = 1
     /\ \A i \in Routers \ {r, me} : v[i] \in S}

MCTables ==
  {<<r0, r1, r2, r3>> : r0 \in VectorsOver(0, {1, Inf}), r1 \in VectorsOver(1, {1, 2}),
                        r2 \in VectorsOver(2, {1, Inf}), r3 \in VectorsOver(3, {1})}
MCStartTables == {[r \in Routers |-> t[r + 1]] : t \in MCTables}
MCStartCosts == VectorsOver(me, {1, Inf})
MCStartMisses == {[r \in Routers |-> 2], [r \in Routers |-> IF r = 0 THEN 1 ELSE 2]}
=============================================================================
