\* The route computation under every order of the handlers.
CONSTANTS
  N = 4
  Inf = 7
  me = 1
  Interval = 1
  USec = 1
  Lag = 0
  MaxSec = 4
  InitCosts <- TableInit
  NewCosts <- TableNewCosts
  Vectors <- TableVectorsOf
SPECIFICATION Spec
INVARIANTS
  TypeOK
  BestPathTaken
  RouteShape
