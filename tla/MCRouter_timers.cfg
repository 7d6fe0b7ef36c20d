\* Deadlines, misses and announcements, with two clock units in a second.
CONSTANTS
  N = 3
  Inf = 4
  me = 1
  Interval = 1
  USec = 2
  Lag = 1
  MaxSec = 9
  InitCosts <- TimerInit
  NewCosts <- TimerNewCosts
  Vectors <- TimerVectorsOf
SPECIFICATION Spec
INVARIANTS
  AnnouncedInTime
  SilentNeighbourDropped
PROPERTIES
  DropOnlyAfterSilence
  TimeoutPositive
