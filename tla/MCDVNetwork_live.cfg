\* With fair timers and links, a network settles, at the shortest distances if it
\* was left alone.  Datagrams are lost, but with one per link not doubled.
CONSTANTS
  N = 3
  Inf = 5
  Link <- Line
  NewCosts = {1}
  Mortal = {}
  MaxInFlight = 1
  MaxFaults = 1
SPECIFICATION LiveSpec
PROPERTIES
  Converges
  CountingUpEnds
