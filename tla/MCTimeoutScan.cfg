\* One call of set_new_timeout from many tables.
CONSTANTS
  N = 4
  Inf = 4
  Short = 5
  router_list <- MCList
  me = 1
  nbrs <- MCNbrs
  Interval = 1
  StartTables <- MCStartTables
  StartCosts <- MCStartCosts
  StartMisses <- MCStartMisses
SPECIFICATION Spec
INVARIANTS
  TablesAgree
  TimersAgree
  AnnouncementAgrees
CHECK_DEADLOCK FALSE
