\* One disturbance: an UPDATE, an overtaken datagram or a call that gives up; any
\* datagrams are lost or doubled.
CONSTANTS
  N = 3
  Inf = 5
  Link <- Line
  NewCosts = {1}
  Mortal = {}
  MaxInFlight = 2
  MaxFaults = 1
SPECIFICATION Spec
INVARIANTS
  TypeOK
  NeverTooShort
