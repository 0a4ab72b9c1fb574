SPECIFICATION ServerSpec
CONSTANTS
  p1 = p1
  p2 = p2
  p3 = p3
  p4 = p4
  c1 = c1
  c2 = c2
  t1 = t1
  t2 = t2
  Producer = {p1, p2, p3}
  Capacity = 3
  Sizes = {1, 2, 3, 4}
  Caller = {c1, c2}
  MaxAdmitted = 2
  MaxBytes = 2
  MaxExecuting = 1
  MaxWaiting = 1
  SmallBytes = 1
  ExecSizes = {1, 2}
  Cancels = TRUE
  GateTask = {t1, t2}
  GateIdle = idle
  GateMixes <- MCGateMixes
  GateRequests = 2
INVARIANTS
  HeldIsOwned
  RequestsSettle
PROPERTIES
  ParkedIsWoken
  ShutdownCompletes
  GateEveryoneGetsThrough
CHECK_DEADLOCK FALSE
