\* Are packets forwarded to the next hop?
CONSTANTS
  Routers = {0, 1, 2, 3}
  Nbrs <- Line4
  NextHop <- LineHop4
  Transfers <- Across4
  Mortal = {}
  SeqSpace = 3
  CountSpace = 4
  Room = 1
SPECIFICATION Spec
INVARIANT ForwardsToNextHop
CHECK_DEADLOCK FALSE
