\* After an UPDATE, every cost is the best one known?
CONSTANTS
  N = 4
  Inf = 7
  me = 1
  Interval = 1
  USec = 1
  Lag = 0
  MaxSec = 1
  InitCosts <- TableInit
  NewCosts <- TableNewCosts
  Vectors <- TableVectorsOf
SPECIFICATION Spec
PROPERTIES
  AllDestinationsUpdated
