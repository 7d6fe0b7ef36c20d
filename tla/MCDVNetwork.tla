----------------------------- MODULE MCDVNetwork -----------------------------
(* Topologies for TLC. *)
EXTENDS DVNetwork, TLC

\* A triangle whose direct link 0-2 is longer than the way round.
Triangle == 0 :> (0 :> 0 @@ 1 :> 1 @@ 2 :> 3) @@
            1 :> (0 :> 1 @@ 1 :> 0 @@ 2 :> 1) @@
            2 :> (0 :> 3 @@ 1 :> 1 @@ 2 :> 0)

\* A line 0 - 1 - 2.
Line == 0 :> (0 :> 0 @@ 1 :> 1 @@ 2 :> Inf) @@
        1 :> (0 :> 1 @@ 1 :> 0 @@ 2 :> 2) @@
        2 :> (0 :> Inf @@ 1 :> 2 @@ 2 :> 0)
=============================================================================
