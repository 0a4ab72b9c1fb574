SPECIFICATION RoomsSpec
CONSTANTS
  t1 = t1
  t2 = t2
  t3 = t3
  s1 = s1
  s2 = s2
  GateTask = {t1, t2, t3}
  GateIdle = idle
  GateMixes <- MCGateOrder
  GateRequests = 3
  RegSlug = {s1, s2}
  RegCaller = {t1, t2, t3}
  RegNone = none
  RegMax = 1
  RegDeletes = 1
SYMMETRY Tasks
INVARIANTS
  GateNoStandoff
CHECK_DEADLOCK FALSE
