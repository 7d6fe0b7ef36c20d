\* Transfers that share a forwarder, in both directions, and that may close a ring.
CONSTANTS
  Routers = {0, 1, 2}
  Nbrs <- Triangle
  NextHop <- TriangleHop
  Transfers <- Crossing
  Mortal = {2}
  SeqSpace = 3
  CountSpace = 4
  Room = 1
SPECIFICATION LiveSpec
INVARIANTS
  TypeOK
  HopsRecorded
PROPERTIES
  ImplementsDelivery
  HeldForEver
  Completes
\* All is sent, or routers are held.
CHECK_DEADLOCK FALSE
