----------------------------- MODULE MCDataPlane -----------------------------
(* Instances of DataPlane for TLC: routers in a line, and in a triangle whose long *)
(* side is sometimes the better way.                                             *)
EXTENDS DataPlane, TLC

Line(n) == [r \in 0 .. n-1 |-> {r - 1, r + 1} \cap 0 .. n-1]
LineHop(n) ==
  [r \in 0 .. n-1 |-> [d \in 0 .. n-1 |->
     {IF d = r THEN r ELSE IF d < r THEN r - 1 ELSE r + 1}]]

Line3 == Line(3)
LineHop3 == LineHop(3)
Triangle == [r \in 0 .. 2 |-> 0 .. 2 \ {r}]
TriangleHop == [LineHop3 EXCEPT ![0][2] = {1, 2}]
Line4 == Line(4)
LineHop4 == LineHop(4)

Transfer(from, dest, id, ttl, seq, full, tail) ==
  [from |-> from, dest |-> dest, transfer_id |-> id, ttl |-> ttl, seq |-> seq,
   exists |-> TRUE, full |-> full, tail |-> tail]

\* One from 0 to 2, directly or through router 1; two the other way through 1, one of
\* them dying there; one from 1, so that 0, 2 and 1 may send round in a ring; and one
\* of a file that is not there.
Crossing ==
  { Transfer(0, 2, 1, 3, 2, 2, TRUE),
    Transfer(2, 0, 2, 1, 0, 0, TRUE),
    Transfer(2, 0, 4, 2, 0, 2, FALSE),
    Transfer(1, 0, 6, 1, 1, 2, FALSE),
    [Transfer(2, 1, 5, 1, 0, 1, FALSE) EXCEPT !.exists = FALSE] }

OneWithTail == { Transfer(0, 2, 1, 3, 0, 2, TRUE), Transfer(1, 0, 2, 3, 0, 2, FALSE) }
Across4 == { Transfer(0, 3, 1, 4, 0, 1, FALSE), Transfer(3, 1, 2, 4, 0, 1, FALSE) }
=============================================================================
