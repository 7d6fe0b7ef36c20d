\* Is all the data of a file sent?
CONSTANTS
  Routers = {0, 1, 2}
  Nbrs <- Line3
  NextHop <- LineHop3
  Transfers <- OneWithTail
  Mortal = {}
  SeqSpace = 3
  CountSpace = 4
  Room = 1
SPECIFICATION Spec
INVARIANT AllDataSent
CHECK_DEADLOCK FALSE
