\* Loss, delay and a crash, but no disturbance.  With one datagram per link there are
\* no duplicates (in MCDVNetwork_faults.cfg there are).
CONSTANTS
  N = 3
  Inf = 6
  Link <- Triangle
  NewCosts = {}
  Mortal = {0}
  MaxInFlight = 1
  MaxFaults = 0
SPECIFICATION Spec
INVARIANTS
  HopsDescend
