------------------------------ MODULE MCRouter ------------------------------
(* Instances of Router for TLC. *)
EXTENDS Router, TLC

\* Four routers, this one is 1; 0 and 2 are its neighbours and 3 is reached
\* only through them, or through 2 and no other.
TableInit == { 0 :> 1 @@ 1 :> 0 @@ 2 :> 4 @@ 3 :> Inf }
TableNewCosts == {2, Inf}
TableVectors ==
  << { 1 :> 1 @@ 0 :> 0 @@ 2 :> 1 @@ 3 :> 1,
       1 :> 1 @@ 0 :> 0 @@ 2 :> Inf @@ 3 :> Inf },
     { },
     { 1 :> 3 @@ 0 :> 3 @@ 2 :> 0 @@ 3 :> 1 },
     { } >>
TableVectorsOf == [s \in Routers |-> TableVectors[s + 1]]

\* Three routers, all neighbours, costs irrelevant: the timers.
TimerInit == { 0 :> 1 @@ 1 :> 0 @@ 2 :> 1 }
TimerVectorsOf == [s \in Routers |-> {[r \in Routers |-> IF r = s THEN 0 ELSE 1]}]
TimerNewCosts == {1}
=============================================================================
